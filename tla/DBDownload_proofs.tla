--------------------------- MODULE DBDownload_proofs ---------------------------
(* Proofs about DBDownload. *)
EXTENDS DBDownload, DBManager_proofs

\* What a step of the MQTT task in the code of DBManager does to the rest.
LEMMA CallbackFacts ==
  ASSUME TypeInv, CallbackStep
  PROVE  /\ pc'["main"] = pc["main"]
         /\ pc["mqtt"] # "idle"
         /\ rx' \in {rx, NoSlice}
  BY DEF CallbackStep, RemoveOtherValid, RemoveOtherPreferred, RemoveOtherFile,
     CreateOtherFile, WriteSlice, CreateOtherValid, WriteOtherValid, CloseForSwap, TaskStep,
     SwapFiles, CreatePreferred, WritePreferred, TruncateOtherPreferred, WriteOtherPreferred,
     ActivateDBFile, ReopenDBFile, OpenDB, ClearFile, ClearPreferred, ClearValid, OpenMarker,
     ForceDBDownload, EndOfTask, EndOfSlice, AfterSwap, Goto, TypeInv, TypeOK, Task

LEMMA MainFacts ==
  ASSUME TypeInv, MainStep
  PROVE  rx' = rx /\ pc["main"] # "idle" /\ pc'["mqtt"] = pc["mqtt"]
  BY DEF MainStep, init, findPreferredDB, TaskStep,
     SwapFiles, CreatePreferred, WritePreferred, TruncateOtherPreferred, WriteOtherPreferred,
     ActivateDBFile, ReopenDBFile, OpenDB, ClearFile, ClearPreferred, ClearValid, OpenMarker,
     ForceDBDownload, EndOfTask, AfterSwap, Goto, TypeInv, TypeOK, Task

\* The steps of the composition are steps of DBManager or leave it alone.
LEMMA DLStep ==
  ASSUME DLNext
  PROVE  [Next]_vars
  BY DEF DLNext, Publish, Connect, Disconnect, DeliverNext, Deliver, Callback, Main, Restart,
     Next, Receive

-----------------------------------------------------------------------------
(***************************************************************************)
(* Types.  What the broker owes is only shortened at the end of a message, *)
(* and a message under way is still owed.                                  *)
(***************************************************************************)
Owing == rx # NoSlice => owed # <<>>

DLTypeInv == DLTypeOK /\ TypeInv /\ Owing

LEMMA QueueFacts ==
  ASSUME NEW S, NEW q \in Seq(S), q # <<>>
  PROVE  /\ Tail(q) \in Seq(S)
         /\ Len(q) \in Nat \ {0}
         /\ Head(q) = q[1]
         /\ q[Len(q)] \in S
         /\ Tail(q) # <<>> => Len(q) > 1 /\ Tail(q)[Len(Tail(q))] = q[Len(q)]
         /\ Tail(q) = <<>> => Len(q) = 1
  <1>1. Len(q) \in Nat \ {0} /\ q[Len(q)] \in S /\ Head(q) = q[1]
    OBVIOUS
  <1>2. /\ Tail(q) \in Seq(S) /\ Len(Tail(q)) = Len(q) - 1
        /\ \A i \in 1..Len(Tail(q)) : Tail(q)[i] = q[i + 1]
    OBVIOUS
  <1>3. CASE Tail(q) = <<>>
    BY <1>1, <1>2, <1>3
  <1>4. CASE Tail(q) # <<>>
    <2>1. Len(Tail(q)) \in Nat \ {0}
      BY <1>2, <1>4
    <2>2. Tail(q)[Len(Tail(q))] = q[Len(Tail(q)) + 1]
      BY <1>2, <2>1
    <2>3. QED
      BY <1>1, <1>2, <1>4, <2>1, <2>2
  <1>5. QED
    BY <1>1, <1>2, <1>3, <1>4

LEMMA PutFacts ==
  ASSUME NEW S, NEW q \in Seq(S), NEW e \in S
  PROVE  /\ Append(q, e) \in Seq(S)
         /\ Append(q, e) # <<>>
         /\ q # <<>> => Head(Append(q, e)) = Head(q)
         /\ Append(q, e)[Len(Append(q, e))] = e
  <1>1. /\ Append(q, e) \in Seq(S) /\ Len(q) \in Nat /\ Len(Append(q, e)) = Len(q) + 1
        /\ Append(q, e)[Len(q) + 1] = e
    OBVIOUS
  <1>2. Append(q, e) # <<>>
    BY <1>1
  <1>3. ASSUME q # <<>> PROVE Head(Append(q, e)) = Head(q)
    <2>1. 1 \in 1..Len(q)
      BY <1>1, <1>3
    <2>2. Append(q, e)[1] = q[1]
      BY <2>1
    <2>3. QED
      BY <1>1, <1>2, <1>3, <2>2
  <1>4. QED
    BY <1>1, <1>2, <1>3

\* What resubscribe() may do to what the broker knows.
LEMMA ResubscribeFacts ==
  ASSUME DLTypeOK, NEW q,
         \/ resubscribe(q)
         \/ owed' = q /\ UNCHANGED <<subscribed, retained, session, published>>
  PROVE  /\ retained' = retained /\ (subscribed' => subscribed) /\ (session => session')
         /\ \/ owed' = q /\ session' = session
            \/ owed' = q /\ session' /\ retained = NoDB
            \/ retained \in Versions /\ owed' = Append(q, retained) /\ session'
  BY DEF resubscribe, Subscribe, DLTypeOK

\* resubscribe() leaves the types alone and never shortens what is owed.
LEMMA ResubscribeType ==
  ASSUME DLTypeOK, NEW q \in Seq(Versions), resubscribe(q)
  PROVE  /\ owed' \in Seq(Versions) /\ (q # <<>> => owed' # <<>>)
         /\ subscribed' \in BOOLEAN /\ session' \in BOOLEAN
         /\ retained' = retained /\ published' = published
  <1>1. owed' = q \/ (retained \in Versions /\ owed' = Append(q, retained))
    BY DEF resubscribe, Subscribe, DLTypeOK
  <1>2. owed' \in Seq(Versions) /\ (q # <<>> => owed' # <<>>)
    BY <1>1, PutFacts
  <1>3. QED
    BY <1>2 DEF resubscribe, Subscribe, DLTypeOK

LEMMA DLTypeInit == DLInit => DLTypeInv
  <1> SUFFICES ASSUME DLInit PROVE DLTypeInv
    OBVIOUS
  <1>1. TypeInv /\ rx = NoSlice
    BY TypeInit DEF DLInit, Init
  <1>2. owed \in Seq(Versions)
    BY DEF DLInit
  <1>3. published \in 0..MaxPublish /\ disconnects \in 0..MaxDisconnects
    BY DownloadAssumption DEF DLInit
  <1>4. QED
    BY <1>1, <1>2, <1>3 DEF DLInit, DLTypeInv, DLTypeOK, Owing, TypeInv

LEMMA DLTypeNext ==
  ASSUME DLTypeInv, [DLNext]_dlVars
  PROVE  DLTypeInv'
  <1>1. TypeInv'
    BY DLStep, TypeNext DEF DLTypeInv, dlVars, vars
  <1> USE DEF DLTypeInv, DLTypeOK, Owing, mqttVars, brokerVars
  <1>2. ASSUME NEW v \in Versions, Publish(v) PROVE DLTypeInv'
    <2>1. /\ owed' \in Seq(Versions) /\ (owed # <<>> => owed' # <<>>)
      BY <1>2, PutFacts DEF Publish
    <2>2. rx' = rx
      BY <1>2 DEF Publish, vars
    <2>3. published' \in 0..MaxPublish
      BY <1>2, DownloadAssumption DEF Publish
    <2>4. QED
      BY <1>1, <1>2, <2>1, <2>2, <2>3 DEF Publish, TypeInv
  <1>3. CASE Connect
    <2>1. rx' = rx
      BY <1>3 DEF Connect, vars
    <2>2. owed' \in Seq(Versions) /\ (owed # <<>> => owed' # <<>>)
      <3>1. owed' = owed \/ (retained \in Versions /\ owed' = Append(owed, retained))
        BY <1>3 DEF Connect, Subscribe
      <3>2. QED
        BY <3>1, PutFacts
    <2>3. QED
      BY <1>1, <1>3, <2>1, <2>2 DEF Connect, Subscribe, TypeInv
  <1>4. CASE Disconnect
    <2>1. rx' = NoSlice
      BY <1>4 DEF Disconnect, cancelDBDownload, vars
    <2>2. disconnects' \in 0..MaxDisconnects
      BY <1>4, DownloadAssumption DEF Disconnect
    <2>3. QED
      BY <1>1, <1>4, <2>1, <2>2 DEF Disconnect, TypeInv
  <1>5. ASSUME NEW v \in Versions, NEW k \in 1..NumSlices, Deliver(v, k) PROVE DLTypeInv'
    <2>1. owed # <<>> /\ Tail(owed) \in Seq(Versions)
      BY <1>5, QueueFacts DEF Deliver
    <2>2. CASE k = Slices(v) /\ ~ready
      <3>1. rx' = NoSlice
        BY <1>5, <2>2 DEF Deliver, writeToDatabaseFile
      <3>2. QED
        BY <1>1, <1>5, <2>1, <2>2, <3>1 DEF Deliver, TypeInv
    <2>3. CASE ~(k = Slices(v) /\ ~ready)
      BY <1>1, <1>5, <2>1, <2>3 DEF Deliver, TypeInv
    <2>4. QED
      BY <2>2, <2>3
  <1>6. CASE Callback
    <2>1. rx # NoSlice /\ owed # <<>> /\ rx' \in {rx, NoSlice}
      BY <1>6, CallbackFacts DEF Callback, TypeInv, Handled
    <2> DEFINE queue == IF EndOfMessage THEN Tail(owed) ELSE owed
    <2>2. queue \in Seq(Versions) /\ (rx' # NoSlice => queue # <<>>)
      BY <2>1, QueueFacts DEF EndOfMessage
    <2>3. \/ resubscribe(queue)
          \/ owed' = queue /\ UNCHANGED <<subscribed, retained, session, published>>
      BY <1>6 DEF Callback
    <2> HIDE DEF queue
    <2>4. /\ owed' \in Seq(Versions) /\ (queue # <<>> => owed' # <<>>)
          /\ subscribed' \in BOOLEAN /\ session' \in BOOLEAN
          /\ retained' = retained /\ published' = published
      BY <2>2, <2>3, ResubscribeType
    <2>5. /\ kind' \in {"DB", "NONE"} /\ UNCHANGED <<connected, disconnects>>
          /\ faulted' \in BOOLEAN
      BY <1>6 DEF Callback
    <2>6. QED
      BY <1>1, <2>2, <2>4, <2>5 DEF TypeInv
  <1>7. CASE Main
    <2>1. rx' = rx
      BY <1>7, MainFacts DEF Main
    <2>2. /\ owed' \in Seq(Versions) /\ (owed # <<>> => owed' # <<>>)
          /\ subscribed' \in BOOLEAN /\ session' \in BOOLEAN
          /\ retained' = retained /\ published' = published
      BY <1>7, ResubscribeType DEF Main
    <2>3. UNCHANGED <<connected, kind, disconnects>> /\ faulted' \in BOOLEAN
      BY <1>7 DEF Main
    <2>4. QED
      BY <1>1, <2>1, <2>2, <2>3 DEF TypeInv
  <1>8. CASE Restart
    BY <1>1, <1>8 DEF Restart, Crash, TypeInv
  <1>9. CASE UNCHANGED dlVars
    BY <1>1, <1>9 DEF dlVars, vars, TypeInv
  <1>10. QED
    BY <1>2, <1>3, <1>4, <1>5, <1>6, <1>7, <1>8, <1>9 DEF DLNext, DeliverNext

\* Every variable of the composition keeps its type; in particular a message is
\* taken off what the broker owes only if it owes one.
THEOREM DLTypeCorrect == DLSpec => []DLTypeOK
  <1>1. DLTypeInv => DLTypeOK
    BY DEF DLTypeInv
  <1>2. QED
    BY DLTypeInit, DLTypeNext, <1>1, PTL DEF DLSpec

-----------------------------------------------------------------------------
(***************************************************************************)
(* From here on nothing fails, and no slice arrives before init() is done. *)
(***************************************************************************)
Faultless == SlowHandshake /\ Faults = {}

\* The first n slices of version v.
FirstSlices(v, n) == [k \in 1..n |-> <<v, k>>]

\* The file being written holds all the slices that came before, the file that
\* is marked and swapped in is whole, and if it had to be given up then SQLite
\* cannot open that version.
WholeInv ==
  /\ pc["mqtt"] = "idle" => (file = None <=> rx = NoSlice)
  /\ pc["mqtt"] \in {"rmValid", "rmPref", "rmFile", "create"} => rx[2] = 1
  /\ file # None =>
       /\ pc["mqtt"] = "idle" => db[file] = FirstSlices(rx[1], rx[2])
       /\ pc["mqtt"] = "write" => db[file] = FirstSlices(rx[1], rx[2] - 1)
  /\ pc["mqtt"] \in {"validOpen", "validWrite", "close"} =>
       rx[2] = Slices(rx[1]) /\ db[oth] = Whole(rx[1])
  /\ pc["mqtt"] \in Shared =>
       /\ rx[2] = Slices(rx[1])
       /\ ret["mqtt"] = "finish" =>
            /\ pc["mqtt"] # "force"
            /\ pc["mqtt"] = "swap" => db[oth] = Whole(rx[1])
            /\ pc["mqtt"] # "swap" => db[cur] = Whole(rx[1])
       /\ ret["mqtt"] # "finish" => rx[1] \in Bad

\* What the broker retains is the last that it owes; once it owes nothing the
\* version it retains is installed, unless SQLite cannot open it.
BrokerInv ==
  /\ subscribed => session
  /\ ~session => owed = <<>>
  /\ rx # NoSlice => Head(owed) = rx[1]
  /\ owed # <<>> => owed[Len(owed)] = retained
  /\ session /\ owed = <<>> /\ retained \in Versions \ Bad => Installed = retained

LEMMA SameSequence ==
  ASSUME NEW S, NEW p \in Seq(S), NEW q \in Seq(S), Len(p) = Len(q),
         \A i \in 1..Len(p) : p[i] = q[i]
  PROVE  p = q
  OBVIOUS

LEMMA SlicesFacts ==
  ASSUME NEW v \in Versions, NEW n \in 1..NumSlices
  PROVE  /\ FirstSlices(v, 0) = EmptyFile
         /\ Append(FirstSlices(v, n - 1), <<v, n>>) = FirstSlices(v, n)
         /\ FirstSlices(v, Slices(v)) = Whole(v)
  <1>1. n - 1 \in Nat /\ n \in Nat
    BY DBAssumption
  <1>2. FirstSlices(v, 0) = EmptyFile
    BY DEF FirstSlices, EmptyFile
  <1>3. FirstSlices(v, n - 1) \in Seq(Versions \X Nat) /\ Len(FirstSlices(v, n - 1)) = n - 1
    BY <1>1 DEF FirstSlices
  <1>4. FirstSlices(v, n) \in Seq(Versions \X Nat) /\ Len(FirstSlices(v, n)) = n
    BY <1>1 DEF FirstSlices
  <1>5. \A i \in 1..n : Append(FirstSlices(v, n - 1), <<v, n>>)[i] = <<v, i>>
    <2> TAKE i \in 1..n
    <2>1. CASE i = n
      BY <1>1, <1>3, <2>1
    <2>2. CASE i # n
      <3>1. i \in 1..(n - 1)
        BY <1>1, <2>2
      <3>2. FirstSlices(v, n - 1)[i] = <<v, i>>
        BY <3>1 DEF FirstSlices
      <3>3. QED
        BY <1>1, <1>3, <3>1, <3>2
    <2>3. QED
      BY <2>1, <2>2
  <1>6. Append(FirstSlices(v, n - 1), <<v, n>>) = FirstSlices(v, n)
    <2>1. Append(FirstSlices(v, n - 1), <<v, n>>) \in Seq(Versions \X Nat)
      BY <1>1, <1>3
    <2>2. Len(Append(FirstSlices(v, n - 1), <<v, n>>)) = n
      BY <1>1, <1>3
    <2>3. \A i \in 1..n : FirstSlices(v, n)[i] = <<v, i>>
      BY DEF FirstSlices
    <2>4. QED
      BY <1>4, <1>5, <2>1, <2>2, <2>3, SameSequence
  <1>7. QED
    BY <1>2, <1>6 DEF FirstSlices, Whole

LEMMA NotOpenable ==
  ASSUME rx \in Slice, ~Openable(Whole(rx[1]))
  PROVE  rx[1] \in Bad
  BY DEF Openable, Slice

\* The steps that the MQTT task makes after finishDBDownload() has begun; while
\* init() is under way there is no download.
LEMMA WholeTaskStep ==
  ASSUME Faultless, IInv, WholeInv, NEW t \in Task, TaskStep(t), IInv'
  PROVE  WholeInv'
  <1> USE DEF IInv, TypeOK, Exclusive, FileInv, SwapInv, OpenInv, WholeInv, Faultless,
              Goto, Slot, Task, Loc, None, Other, oth, disk, loc, why, Busy,
              Shared, Marking, Clearing, Valid
  <1>1. CASE t = "main"
    <2>1. pc["main"] # "idle"
      BY <1>1 DEF TaskStep, SwapFiles, CreatePreferred, WritePreferred, TruncateOtherPreferred,
         WriteOtherPreferred, ActivateDBFile, ReopenDBFile, OpenDB, ClearFile, ClearPreferred,
         ClearValid, OpenMarker, ForceDBDownload
    <2>2. pc["mqtt"] = "idle" /\ rx = NoSlice /\ file = None
      BY <2>1
    <2>3. pc'["mqtt"] = "idle" /\ rx' = rx /\ file' = file
      BY <1>1, <2>2 DEF TaskStep, SwapFiles, CreatePreferred, WritePreferred, TruncateOtherPreferred,
         WriteOtherPreferred, ActivateDBFile, ReopenDBFile, OpenDB, ClearFile, ClearPreferred,
         ClearValid, OpenMarker, ForceDBDownload, EndOfTask, AfterSwap
    <2>4. QED
      BY <2>2, <2>3
  <1>2. CASE t = "mqtt"
    <2> USE <1>2
    <2>0. pc["main"] = "idle"
      BY DEF TaskStep, SwapFiles, CreatePreferred, WritePreferred, TruncateOtherPreferred,
         WriteOtherPreferred, ActivateDBFile, ReopenDBFile, OpenDB, ClearFile, ClearPreferred,
         ClearValid, OpenMarker, ForceDBDownload
    <2>1. CASE SwapFiles(t)
      BY <2>0, <2>1 DEF SwapFiles
    <2>2. CASE CreatePreferred(t)
      BY <2>0, <2>2 DEF CreatePreferred, OpenMarker
    <2>3. CASE WritePreferred(t)
      BY <2>0, <2>3 DEF WritePreferred
    <2>4. CASE TruncateOtherPreferred(t)
      BY <2>0, <2>4 DEF TruncateOtherPreferred, OpenMarker, AfterSwap
    <2>5. CASE WriteOtherPreferred(t)
      BY <2>0, <2>5 DEF WriteOtherPreferred, AfterSwap
    <2>6. CASE ActivateDBFile(t)
      <3>1. rx \in Slice /\ pc[t] \in Shared
        BY <2>6 DEF ActivateDBFile, OpenDB
      <3>2. QED
        BY <2>0, <2>6, <3>1, NotOpenable DEF ActivateDBFile, OpenDB, EndOfTask, EndOfSlice
    <2>7. CASE ReopenDBFile(t)
      <3>1. rx \in Slice /\ pc[t] \in Shared
        BY <2>7 DEF ReopenDBFile, OpenDB
      <3>2. QED
        BY <2>0, <2>7, <3>1, NotOpenable DEF ReopenDBFile, OpenDB, EndOfTask, EndOfSlice
    <2>8. CASE ClearFile(t)
      BY <2>0, <2>8 DEF ClearFile
    <2>9. CASE ClearPreferred(t)
      BY <2>0, <2>9 DEF ClearPreferred
    <2>10. CASE ClearValid(t)
      BY <2>0, <2>10 DEF ClearValid
    <2>11. CASE ForceDBDownload(t)
      BY <2>0, <2>11 DEF ForceDBDownload, EndOfTask, EndOfSlice
    <2>12. QED
      BY <2>1, <2>2, <2>3, <2>4, <2>5, <2>6, <2>7, <2>8, <2>9, <2>10, <2>11 DEF TaskStep
  <1>3. QED
    BY <1>1, <1>2 DEF Task

LEMMA WholeNext ==
  ASSUME Faultless, IInv, WholeInv, [Next]_vars, IInv'
  PROVE  WholeInv'
  <1> USE DEF IInv, TypeOK, Exclusive, FileInv, DownloadInv, WholeInv, Faultless,
              Goto, Slot, Task, Loc, None, Other, oth, disk, loc, Busy,
              Shared, Marking, Clearing
  <1>1. CASE init \/ findPreferredDB
    BY <1>1 DEF init, findPreferredDB
  <1>2. CASE RemoveOtherValid \/ RemoveOtherPreferred \/ RemoveOtherFile
    BY <1>2 DEF RemoveOtherValid, RemoveOtherPreferred, RemoveOtherFile
  <1>3. CASE CreateOtherFile
    <2>1. rx \in Slice /\ rx[2] = 1 /\ db'[oth] = EmptyFile /\ file' = oth
      BY <1>3 DEF CreateOtherFile
    <2>2. FirstSlices(rx[1], rx[2] - 1) = EmptyFile
      BY <2>1, SlicesFacts, DBAssumption DEF Slice
    <2>3. QED
      BY <1>3, <2>1, <2>2 DEF CreateOtherFile
  <1>4. CASE WriteSlice
    <2>1. /\ rx \in Slice /\ file \in Slot /\ file = oth
          /\ db[file] \in Seq(Slice) /\ db[file] = FirstSlices(rx[1], rx[2] - 1)
      BY <1>4 DEF WriteSlice
    <2>2. rx = <<rx[1], rx[2]>> /\ rx[1] \in Versions /\ rx[2] \in 1..NumSlices
      BY <2>1 DEF Slice
    <2>3. /\ Append(FirstSlices(rx[1], rx[2] - 1), rx) = FirstSlices(rx[1], rx[2])
          /\ FirstSlices(rx[1], Slices(rx[1])) = Whole(rx[1])
      BY <2>2, SlicesFacts
    <2>4. db[file] # NoFile
      BY <2>1, DBAssumption DEF Slice
    <2>5. db'[oth] = FirstSlices(rx[1], rx[2]) /\ UNCHANGED <<cur, rx, ret>>
      <3>1. db' = [db EXCEPT ![file] = Append(@, rx)] /\ UNCHANGED <<cur, rx, ret>>
        BY <1>4, <2>4 DEF WriteSlice
      <3>2. db'[file] = Append(db[file], rx)
        BY <2>1, <3>1
      <3>3. QED
        BY <2>1, <2>3, <3>1, <3>2
    <2>6. CASE rx[2] = Slices(rx[1])
      BY <1>4, <2>3, <2>5, <2>6 DEF WriteSlice
    <2>7. CASE rx[2] # Slices(rx[1])
      BY <1>4, <2>1, <2>5, <2>7 DEF WriteSlice
    <2>8. QED
      BY <2>6, <2>7
  <1>5. CASE CreateOtherValid \/ WriteOtherValid \/ CloseForSwap
    BY <1>5 DEF CreateOtherValid, OpenMarker, WriteOtherValid, CloseForSwap
  <1>6. CASE cancelDBDownload
    BY <1>6 DEF cancelDBDownload
  <1>7. CASE Crash
    <2>1. pc'["mqtt"] = "idle" /\ file' = None /\ rx' = NoSlice
      BY <1>7 DEF Crash
    <2>2. QED
      BY <2>1
  <1>8. ASSUME NEW v \in Versions, NEW k \in 1..NumSlices, writeToDatabaseFile(v, k)
        PROVE  WholeInv'
    <2>1. /\ ready /\ rx' = <<v, k>> /\ pc["mqtt"] = "idle"
          /\ pc'["mqtt"] = (IF downloading THEN "write" ELSE "rmValid")
          /\ UNCHANGED <<db, file>>
      BY <1>8 DEF writeToDatabaseFile
    <2>2. CASE file = None
      <3>1. k = 1
        BY <1>8, <2>2 DEF writeToDatabaseFile, NoSlice
      <3>2. QED
        BY <2>1, <2>2, <3>1 DEF downloading
    <2>3. CASE file # None
      <3>1. rx = <<v, k - 1>>
        BY <1>8, <2>3 DEF writeToDatabaseFile
      <3>2. QED
        BY <2>1, <2>3, <3>1 DEF downloading
    <2>4. QED
      BY <2>2, <2>3
  <1>9. ASSUME NEW t \in Task, TaskStep(t) PROVE WholeInv'
    BY <1>9, WholeTaskStep
  <1>10. CASE UNCHANGED vars
    BY <1>10 DEF vars
  <1>11. QED
    BY <1>1, <1>2, <1>3, <1>4, <1>5, <1>6, <1>7, <1>8, <1>9, <1>10
       DEF Next, MainStep, CallbackStep, Receive

\* When the message with a sound version has been handled, that is the version
\* that is installed.
LEMMA SoundGetsInstalled ==
  ASSUME Faultless, IInv, WholeInv, CallbackStep, EndOfMessage, rx[1] \notin Bad
  PROVE  Installed' = rx[1]
  <1> USE DEF IInv, TypeOK, Exclusive, OpenInv, WholeInv, Faultless,
              Goto, Slot, Task, Loc, None, Other, oth, disk, loc, why, Busy,
              Shared, Marking, Clearing
  <1>1. rx \in Slice /\ rx[1] \in Versions /\ pc["mqtt"] # "idle"
    BY CallbackFacts DEF EndOfMessage, Slice, TypeInv, Handled
  <1>2. pc["mqtt"] \in {"activate", "reopen", "force"}
    BY DEF EndOfMessage, CallbackStep, RemoveOtherValid, RemoveOtherPreferred, RemoveOtherFile,
       CreateOtherFile, WriteSlice, CreateOtherValid, WriteOtherValid, CloseForSwap, TaskStep,
       SwapFiles, CreatePreferred, WritePreferred, TruncateOtherPreferred, WriteOtherPreferred,
       ActivateDBFile, ReopenDBFile, OpenDB, ClearFile, ClearPreferred, ClearValid, OpenMarker,
       ForceDBDownload
  <1>3. pc["mqtt"] = "activate" /\ ret["mqtt"] = "finish"
    BY <1>1, <1>2
  <1>4. db[cur] = Whole(rx[1]) /\ Preferred = cur
    BY <1>1, <1>3
  <1>5. UNCHANGED <<db, valid, pref, cur>>
    BY <1>3 DEF EndOfMessage, CallbackStep, RemoveOtherValid, RemoveOtherPreferred, RemoveOtherFile,
       CreateOtherFile, WriteSlice, CreateOtherValid, WriteOtherValid, CloseForSwap, TaskStep,
       SwapFiles, CreatePreferred, WritePreferred, TruncateOtherPreferred, WriteOtherPreferred,
       ActivateDBFile, ReopenDBFile, OpenDB, ClearFile, ClearPreferred, ClearValid, OpenMarker,
       ForceDBDownload
  <1>6. Usable(cur)
    BY <1>1, <1>4 DEF Preferred, checkIf, Usable, Openable
  <1>7. VersionOf(db[cur]) = rx[1]
    <2>1. 1 \in 1..Slices(rx[1])
      BY SlicesRange
    <2>2. QED
      BY <1>4, <2>1 DEF VersionOf, Whole
  <1>8. Installed = rx[1]
    BY <1>4, <1>6, <1>7 DEF Installed
  <1>9. QED
    BY <1>5, <1>8 DEF Installed, Usable, Preferred, checkIf, VersionOf

\* Between two messages what is installed does not change.
LEMMA InstalledStays ==
  ASSUME Faultless, IInv, IInv', [Next]_vars, rx = NoSlice
  PROVE  Installed' = Installed
  <1>1. Offered = NoDB
    BY DEF IInv, Exclusive, Offered, Finishing
  <1>2. [Abstract!Next]_(Abstract!vars)
    BY RefinesNext DEF Faultless, Gentle
  <1>3. QED
    BY <1>1, <1>2, DBAssumption DEF Abstract!Next, Abstract!vars, Abstract!Offer, Abstract!Install,
       Abstract!Stop, Abstract!Serve, Abstract!GiveUp, Abstract!Crash

SettledInv == DLTypeInv /\ IInv /\ WholeInv /\ BrokerInv

\* The version that the broker retains is added at the end of what it owes.
LEMMA BrokerAppends ==
  ASSUME DLTypeInv, BrokerInv, rx' = rx, session',
         retained' \in Versions, owed' = Append(owed, retained')
  PROVE  BrokerInv'
  BY PutFacts DEF DLTypeInv, DLTypeOK, Owing, BrokerInv

\* Nothing that the broker knows changes, and what is installed changes only
\* while it owes something.
LEMMA BrokerStays ==
  ASSUME DLTypeInv, BrokerInv, rx' \in {rx, NoSlice}, UNCHANGED <<owed, session, retained>>,
         subscribed' => subscribed, rx = NoSlice => Installed' = Installed
  PROVE  BrokerInv'
  BY DEF DLTypeInv, Owing, BrokerInv

\* The broker may be asked again while it owes what it owed before.
LEMMA BrokerResubscribes ==
  ASSUME DLTypeInv, BrokerInv, rx' = rx, rx = NoSlice => Installed' = Installed,
         \/ resubscribe(owed)
         \/ owed' = owed /\ UNCHANGED <<subscribed, retained, session, published>>
  PROVE  BrokerInv'
  <1>1. owed \in Seq(Versions)
    BY DEF DLTypeInv, DLTypeOK
  <1>2. /\ retained' = retained /\ (subscribed' => subscribed)
        /\ \/ owed' = owed /\ session' = session
           \/ owed' = owed /\ session' /\ retained = NoDB
           \/ retained \in Versions /\ owed' = Append(owed, retained) /\ session'
    BY <1>1, ResubscribeFacts DEF DLTypeInv
  <1>3. CASE owed' = owed /\ session' = session
    BY <1>2, <1>3, BrokerStays
  <1>4. CASE owed' = owed /\ session' /\ retained = NoDB
    BY <1>2, <1>4, DBAssumption DEF BrokerInv
  <1>5. CASE retained \in Versions /\ owed' = Append(owed, retained) /\ session'
    BY <1>2, <1>5, BrokerAppends
  <1>6. QED
    BY <1>2, <1>3, <1>4, <1>5

LEMMA BrokerNext ==
  ASSUME Faultless, SettledInv, [DLNext]_dlVars, IInv', DLTypeInv'
  PROVE  BrokerInv'
  <1> USE DEF SettledInv, mqttVars, brokerVars
  <1>0. [Next]_vars
    BY DLStep DEF dlVars, vars
  <1>1. rx = NoSlice => Installed' = Installed
    BY <1>0, InstalledStays
  <1>2. ASSUME NEW v \in Versions, Publish(v) PROVE BrokerInv'
    <2>1. rx' = rx /\ retained' = v /\ UNCHANGED <<session, subscribed>>
      BY <1>2 DEF Publish, vars
    <2>2. CASE session
      <3>1. owed' = Append(owed, v)
        BY <1>2, <2>2 DEF Publish
      <3>2. QED
        BY <2>1, <2>2, <3>1, BrokerAppends
    <2>3. CASE ~session
      <3>1. owed' = owed
        BY <1>2, <2>3 DEF Publish
      <3>2. owed = <<>>
        BY <2>3 DEF BrokerInv
      <3>3. QED
        BY <2>1, <2>3, <3>1, <3>2 DEF BrokerInv, DLTypeInv, Owing
    <2>4. QED
      BY <2>2, <2>3
  <1>3. CASE Connect
    <2>1. rx' = rx
      BY <1>3 DEF Connect, vars
    <2>2. CASE Subscribe(owed)
      <3>1. session' /\ retained' = retained
        BY <2>2 DEF Subscribe
      <3>2. CASE retained = NoDB
        <4>1. owed' = owed /\ owed = <<>>
          BY <2>2, <3>2, QueueFacts, DBAssumption DEF Subscribe, BrokerInv, DLTypeInv, DLTypeOK
        <4>2. QED
          BY <2>1, <3>1, <3>2, <4>1, DBAssumption DEF BrokerInv, DLTypeInv, Owing
      <3>3. CASE retained # NoDB
        <4>1. retained' \in Versions /\ owed' = Append(owed, retained')
          BY <2>2, <3>1, <3>3 DEF Subscribe, DLTypeInv, DLTypeOK
        <4>2. QED
          BY <2>1, <3>1, <4>1, BrokerAppends
      <3>4. QED
        BY <3>2, <3>3
    <2>3. CASE UNCHANGED <<subscribed, brokerVars>>
      BY <1>1, <2>1, <2>3, BrokerStays
    <2>4. QED
      BY <1>3, <2>2, <2>3 DEF Connect
  <1>4. CASE Disconnect
    <2>1. rx' \in {rx, NoSlice} /\ UNCHANGED <<owed, session, retained, subscribed>>
      BY <1>4 DEF Disconnect, cancelDBDownload, vars
    <2>2. QED
      BY <1>1, <2>1, BrokerStays
  <1>5. ASSUME NEW v \in Versions, NEW k \in 1..NumSlices, Deliver(v, k) PROVE BrokerInv'
    <2>1. ready
      BY <1>5 DEF Deliver, writeToDatabaseFile, Faultless, IInv, Exclusive
    <2>2. /\ owed # <<>> /\ Head(owed) = v /\ rx' = <<v, k>>
          /\ UNCHANGED <<owed, session, retained, subscribed>>
      BY <1>5, <2>1 DEF Deliver, writeToDatabaseFile
    <2>3. QED
      BY <2>2 DEF BrokerInv
  <1>6. CASE Callback
    <2>1. rx # NoSlice /\ owed # <<>> /\ rx' \in {rx, NoSlice}
      BY <1>6, CallbackFacts DEF Callback, DLTypeInv, TypeInv, Handled, Owing
    <2> DEFINE queue == IF EndOfMessage THEN Tail(owed) ELSE owed
    <2>2. \/ resubscribe(queue)
          \/ owed' = queue /\ UNCHANGED <<subscribed, retained, session, published>>
      BY <1>6 DEF Callback
    <2>3. CASE EndOfMessage
      <3>1. queue = Tail(owed) /\ rx' = NoSlice
        BY <2>3 DEF EndOfMessage
      <3>2. owed \in Seq(Versions) /\ queue \in Seq(Versions)
        BY <2>1, <3>1, QueueFacts DEF DLTypeInv, DLTypeOK
      <3>3. session
        BY <2>1 DEF BrokerInv
      <3>4. queue # <<>> => queue[Len(queue)] = retained
        BY <2>1, <3>1, <3>2, QueueFacts DEF BrokerInv
      <3>5. queue = <<>> => retained = rx[1]
        BY <2>1, <3>1, <3>2, QueueFacts DEF BrokerInv
      <3>6. queue = <<>> /\ retained \notin Bad => Installed' = retained
        BY <1>6, <2>3, <3>5, SoundGetsInstalled DEF Callback
      <3> HIDE DEF queue
      <3>7. \/ owed' = queue
            \/ retained \in Versions /\ owed' = Append(queue, retained)
        BY <2>2, ResubscribeFacts DEF DLTypeInv
      <3>8. retained' = retained /\ session' /\ (subscribed' => subscribed)
        BY <2>2, <3>3, ResubscribeFacts DEF DLTypeInv
      <3>9. CASE owed' = queue
        BY <3>1, <3>3, <3>4, <3>6, <3>8, <3>9 DEF BrokerInv
      <3>10. CASE retained \in Versions /\ owed' = Append(queue, retained)
        BY <3>1, <3>2, <3>8, <3>10, PutFacts DEF BrokerInv
      <3>11. QED
        BY <3>7, <3>9, <3>10
    <2>4. CASE ~EndOfMessage
      <3>1. queue = owed /\ rx' = rx
        BY <2>1, <2>4 DEF EndOfMessage
      <3>2. \/ resubscribe(owed)
            \/ owed' = owed /\ UNCHANGED <<subscribed, retained, session, published>>
        BY <2>2, <3>1
      <3>3. QED
        BY <1>1, <3>1, <3>2, BrokerResubscribes DEF BrokerInv
    <2>5. QED
      BY <2>3, <2>4
  <1>7. CASE Main
    <2>1. rx' = rx
      BY <1>7, MainFacts DEF Main, DLTypeInv
    <2>2. \/ resubscribe(owed)
          \/ owed' = owed /\ UNCHANGED <<subscribed, retained, session, published>>
      BY <1>7 DEF Main
    <2>3. QED
      BY <1>1, <2>1, <2>2, BrokerResubscribes
  <1>8. CASE Restart
    <2>1. rx' = NoSlice /\ subscribed' = FALSE /\ UNCHANGED <<owed, session, retained>>
      BY <1>8 DEF Restart, Crash
    <2>2. QED
      BY <1>1, <2>1, BrokerStays
  <1>9. CASE UNCHANGED dlVars
    BY <1>1, <1>9, BrokerStays DEF dlVars, vars
  <1>10. QED
    BY <1>2, <1>3, <1>4, <1>5, <1>6, <1>7, <1>8, <1>9 DEF DLNext, DeliverNext

LEMMA SettledInit == DLInit => SettledInv
  <1> SUFFICES ASSUME DLInit PROVE SettledInv
    OBVIOUS
  <1>1. Init /\ rx = NoSlice /\ pc["mqtt"] = "idle" /\ pc["main"] = "init" /\ file = None
    BY DEF DLInit, Init, Task
  <1>2. DLTypeInv /\ TypeInv /\ IInv
    BY <1>1, DLTypeInit, TypeInit, InvInit
  <1>3. WholeInv
    BY <1>1 DEF WholeInv, Shared, Marking, Clearing
  <1>4. BrokerInv
    BY <1>1, DBAssumption DEF DLInit, BrokerInv
  <1>5. QED
    BY <1>2, <1>3, <1>4 DEF SettledInv

LEMMA SettledNext ==
  ASSUME Faultless, SettledInv, [DLNext]_dlVars
  PROVE  SettledInv'
  <1>1. [Next]_vars /\ Gentle
    BY DLStep DEF dlVars, vars, Faultless, Gentle
  <1>2. DLTypeInv'
    BY DLTypeNext DEF SettledInv
  <1>3. IInv'
    BY <1>1, InvNext DEF SettledInv
  <1>4. WholeInv'
    BY <1>1, <1>3, WholeNext DEF SettledInv
  <1>5. BrokerInv'
    BY <1>2, <1>3, BrokerNext
  <1>6. QED
    BY <1>2, <1>3, <1>4, <1>5 DEF SettledInv

\* If nothing fails on the disk then a sound version that the broker retains is
\* the one the door is checked against as soon as nothing is on its way:
\* neither connections lost, nor restarts, nor versions that SQLite rejects make
\* the door miss it (mqttmanager.cpp:17-26).
THEOREM NothingMissedAlways ==
  ASSUME Faultless
  PROVE  DLSpec => []NothingMissed
  <1>1. SettledInv => NothingMissed
    <2> SUFFICES ASSUME SettledInv, Idle, subscribed, owed = <<>>, retained \in Versions \ Bad
                 PROVE  Serving = retained
      BY DEF NothingMissed
    <2>1. Installed = retained
      BY DEF SettledInv, BrokerInv
    <2>2. Serving = Installed
      BY OpenableFacts DEF SettledInv, IInv, TypeOK, DownloadInv, AtHome, Idle, Installed, Serving,
         Usable, Valid, Preferred, Other, checkIf, Slot, None, loc, Busy, Task, Writing
    <2>3. QED
      BY <2>1, <2>2
  <1>2. QED
    BY <1>1, SettledInit, SettledNext, PTL DEF DLSpec
=============================================================================
