-------------------------------- MODULE Logging --------------------------------
(***************************************************************************)
(* The way of a log message from the task that logs it to the disk         *)
(* (logmanager.cpp): venqueueLogMessage() formats it in a preallocated     *)
(* buffer (TempBufs) and copies it to a ring buffer; the task logWriter    *)
(* takes it from there and appends it to the log file, or to a second ring *)
(* buffer, earlyMessages, as long as the disk is not there.  initDiskLog() *)
(* in the main task then moves the early messages to the disk.             *)
(*                                                                         *)
(* A message is a pair <<task, n>>: the n-th that the task logs.           *)
(***************************************************************************)
EXTENDS TempBufs, SequencesExt

CONSTANTS Main,        \* the main task, one of Tasks
          MaxMsgs,     \* bound on the messages of a task
          RingSize,    \* messages that fit in the ring buffer
          EarlySize,   \* messages that fit in earlyMessages
          MaxRecords,  \* MAX_RECORDS
          MaxIdleFiles, \* bound on the files created when nothing is logged
          MaxRequests  \* bound on the calls of Logfile::rotate()

ASSUME LoggingAssumption ==
  /\ Main \in Tasks
  /\ {RingSize, EarlySize} \subseteq Nat \ {0} /\ MaxRecords \in Nat /\ MaxRecords > 1
  /\ {MaxMsgs, MaxIdleFiles, MaxRequests} \subseteq Nat

Messages == Tasks \X (1..MaxMsgs)
Nothing == <<>>

VARIABLES
  pc,           \* where each task is in venqueueLogMessage()
  count,        \* the messages that each task has begun to log
  tmp,          \* tmp[b]: the message formatted in buffer b
  ring,         \* ring buffer: records of who acquired the item, its body and
                \* whether it was sent
  writer,       \* where the task logWriter is
  hand,         \* the message that it has received
  early,        \* earlyMessages
  logToDisk,
  disk,         \* the messages on the disk, in all files
  numberOfRecords, shouldRotate, \* of the current file
  boot,         \* where initDiskLog() is
  drained,      \* the early message that it has received
  raced,        \* messages between Begin and the disk at some time while it ran;
                \* it changes nothing
  lost,         \* messages that found the ring buffers full
  requests,     \* calls of Logfile::rotate()
  idleFiles     \* files created because of them when nothing came

bufs == <<status, mode, index>>
producer == <<bufs, pc, count, tmp>>
writerVars == <<writer, hand>>
file == <<disk, numberOfRecords, shouldRotate, idleFiles>>
booting == <<boot, drained, logToDisk, raced>>
vars == <<producer, ring, writerVars, early, booting, file, lost, requests>>

Init ==
  /\ BInit
  /\ pc = [t \in Tasks |-> "idle"]
  /\ count = [t \in Tasks |-> 0]
  /\ tmp = [b \in Bufs |-> Nothing]
  /\ ring = <<>>
  /\ writer = "receive" /\ hand = Nothing
  /\ early = <<>>
  /\ logToDisk = FALSE
  /\ disk = <<>> /\ numberOfRecords = 0 /\ shouldRotate = FALSE
  /\ boot = "no" /\ drained = Nothing /\ raced = {}
  /\ lost = {} /\ requests = 0 /\ idleFiles = 0

-----------------------------------------------------------------------------
(* venqueueLogMessage(), in the task that logs *)

Current(t) == <<t, count[t]>>

Goto(t, p) == pc' = [pc EXCEPT ![t] = p]

Booting == boot \in {"created", "drain", "log"}

\* The main task logs nothing in initDiskLog() itself.
Begin(t) ==
  /\ pc[t] = "idle"
  /\ count[t] < MaxMsgs
  /\ Booting => t # Main
  /\ count' = [count EXCEPT ![t] = @ + 1]
  /\ raced' = IF Booting THEN raced \cup {<<t, count[t] + 1>>} ELSE raced
  /\ StartGet(t)
  /\ Goto(t, "get")
  /\ UNCHANGED <<tmp, ring, writerVars, early, boot, drained, logToDisk, file, lost, requests>>

get(t) ==
  /\ pc[t] = "get"
  /\ \/ CompareAndSet(t) /\ Goto(t, "format")
     \/ TryNext(t) /\ UNCHANGED pc
  /\ UNCHANGED <<count, tmp, ring, writerVars, early, booting, file, lost, requests>>

Format(t) ==
  /\ pc[t] = "format"
  /\ tmp' = [tmp EXCEPT ![index[t]] = Current(t)]
  /\ Goto(t, "acquire")
  /\ UNCHANGED <<bufs, count, ring, writerVars, early, booting, file, lost, requests>>

\* xRingbufferSendAcquire() reserves an item, or times out when there is no room.
SendAcquire(t) ==
  /\ pc[t] = "acquire"
  /\ \/ /\ Len(ring) < RingSize
        /\ ring' = Append(ring, [by |-> Current(t), body |-> Nothing, sent |-> FALSE])
        /\ Goto(t, "copy")
        /\ UNCHANGED lost
     \/ /\ Len(ring) = RingSize
        /\ lost' = lost \cup {Current(t)}
        /\ Goto(t, "giveUp")
        /\ UNCHANGED ring
  /\ UNCHANGED <<bufs, count, tmp, writerVars, early, booting, file, requests>>

ItemOf(t) == CHOOSE i \in 1..Len(ring) : ring[i].by = Current(t)

Copy(t) ==
  /\ pc[t] = "copy"
  /\ ring' = [ring EXCEPT ![ItemOf(t)].body = tmp[index[t]]]
  /\ Goto(t, "release")
  /\ UNCHANGED <<bufs, count, tmp, writerVars, early, booting, file, lost, requests>>

Release(t) ==
  /\ \/ pc[t] = "release" /\ Goto(t, "complete")
     \/ pc[t] = "giveUp" /\ Goto(t, "idle")
  /\ release(t)
  /\ UNCHANGED <<count, tmp, ring, writerVars, early, booting, file, lost, requests>>

SendComplete(t) ==
  /\ pc[t] = "complete"
  /\ ring' = [ring EXCEPT ![ItemOf(t)].sent = TRUE]
  /\ Goto(t, "idle")
  /\ UNCHANGED <<bufs, count, tmp, writerVars, early, booting, file, lost, requests>>

-----------------------------------------------------------------------------
(* Logfile *)

\* createNewFile() logs a first record of its own.
NewFile == numberOfRecords' = 1

\* log(): the message goes to the current file, or to a new one if that has
\* MAX_RECORDS or the message would take it beyond MAX_LOG_FILE_SIZE.
Log(msg) ==
  /\ disk' = Append(disk, msg)
  /\ \/ numberOfRecords' = 2
     \/ numberOfRecords + 1 <= MaxRecords /\ numberOfRecords' = numberOfRecords + 1
  /\ UNCHANGED <<shouldRotate, idleFiles>>

\* rotate(), called by the main task and by the MQTT task.
rotate ==
  /\ logToDisk
  /\ requests < MaxRequests
  /\ requests' = requests + 1
  /\ shouldRotate' = TRUE
  /\ UNCHANGED <<producer, ring, writerVars, early, booting, disk, numberOfRecords,
                 idleFiles, lost>>

-----------------------------------------------------------------------------
(* logWriter(), a task of its own *)

\* Items come out in the order in which they were acquired.
ItemReady == ring # <<>> /\ ring[1].sent

Receive ==
  /\ writer = "receive"
  /\ ItemReady
  /\ hand' = ring[1].body
  /\ writer' = IF logToDisk THEN "log" ELSE "early"
  /\ UNCHANGED <<producer, ring, early, booting, file, lost, requests>>

WriteToDisk ==
  /\ writer = "log"
  /\ Log(hand)
  /\ writer' = "return"
  /\ UNCHANGED <<producer, ring, hand, early, booting, lost, requests>>

DropOldest ==
  /\ writer = "early"
  /\ Len(early) >= EarlySize
  /\ lost' = lost \cup {Head(early)}
  /\ early' = Tail(early)
  /\ UNCHANGED <<producer, ring, writerVars, booting, file, requests>>

\* Mutant: the message that comes last is not counted.
SaveForLater_OneMore ==
  /\ writer = "early"
  /\ Len(early) <= EarlySize
  /\ early' = Append(early, hand)
  /\ writer' = "return"
  /\ UNCHANGED <<producer, ring, hand, booting, file, lost, requests>>

SaveForLater ==
  /\ writer = "early"
  /\ Len(early) < EarlySize
  /\ early' = Append(early, hand)
  /\ writer' = "return"
  /\ UNCHANGED <<producer, ring, hand, booting, file, lost, requests>>

ReturnItem ==
  /\ writer = "return"
  /\ ring' = Tail(ring)
  /\ writer' = "receive" /\ hand' = Nothing
  /\ UNCHANGED <<producer, early, booting, file, lost, requests>>

\* Nothing came for 10 seconds.
RotateWhenIdle ==
  /\ writer = "receive"
  /\ ~ItemReady
  /\ logToDisk /\ shouldRotate
  /\ idleFiles < MaxIdleFiles
  /\ NewFile
  /\ idleFiles' = idleFiles + 1
  /\ UNCHANGED <<producer, ring, writerVars, early, booting, disk, shouldRotate, lost, requests>>

-----------------------------------------------------------------------------
(* initDiskLog(), in the main task *)

BootVars == <<producer, ring, writerVars, lost, requests>>

\* The messages that are in a task or in the ring buffer.
UnderWay == {Current(t) : t \in {u \in Tasks : pc[u] # "idle"}} \cup {ring[i].by : i \in DOMAIN ring}

InitLogfile ==
  /\ boot = "no"
  /\ pc[Main] = "idle"
  /\ raced' = raced \cup UnderWay
  /\ shouldRotate' = FALSE
  /\ NewFile
  /\ boot' = "created"
  /\ UNCHANGED <<BootVars, early, drained, logToDisk, disk, idleFiles>>

SwitchToDisk ==
  /\ boot = "created"
  /\ logToDisk' = TRUE
  /\ boot' = "drain"
  /\ UNCHANGED <<BootVars, early, drained, raced, file>>

ReceiveEarly ==
  /\ boot = "drain"
  /\ early # <<>>
  /\ drained' = Head(early)
  /\ early' = Tail(early)
  /\ boot' = "log"
  /\ UNCHANGED <<BootVars, logToDisk, raced, file>>

LogEarly ==
  /\ boot = "log"
  /\ Log(drained)
  /\ drained' = Nothing
  /\ boot' = "drain"
  /\ UNCHANGED <<BootVars, early, logToDisk, raced>>

DeleteEarly ==
  /\ boot = "drain"
  /\ early = <<>>
  /\ boot' = "done"
  /\ UNCHANGED <<BootVars, early, drained, logToDisk, raced, file>>

-----------------------------------------------------------------------------
Producer(t) ==
  get(t) \/ Format(t) \/ SendAcquire(t) \/ Copy(t) \/ Release(t) \/ SendComplete(t)

logWriter == Receive \/ WriteToDisk \/ DropOldest \/ SaveForLater \/ ReturnItem \/ RotateWhenIdle

initDiskLog == InitLogfile \/ SwitchToDisk \/ ReceiveEarly \/ LogEarly \/ DeleteEarly

Next ==
  \/ \E t \in Tasks : Begin(t) \/ Producer(t)
  \/ rotate
  \/ logWriter
  \/ initDiskLog

Spec == Init /\ [][Next]_vars

\* The tasks run; setup() comes to initDiskLog().
Fairness ==
  /\ \A t \in Tasks : WF_vars(Producer(t))
  /\ WF_vars(logWriter)
  /\ SF_vars(initDiskLog)

FairSpec == Spec /\ Fairness

-----------------------------------------------------------------------------
LoggingTypeOK ==
  /\ BTypeOK
  /\ pc \in [Tasks -> {"idle", "get", "format", "acquire", "copy", "release", "giveUp", "complete"}]
  /\ count \in [Tasks -> 0..MaxMsgs]
  /\ \A b \in Bufs : tmp[b] \in Messages \cup {Nothing}
  /\ Len(ring) <= RingSize /\ Len(early) <= EarlySize
  /\ writer \in {"receive", "log", "early", "return"}
  /\ boot \in {"no", "created", "drain", "log", "done"}
  /\ numberOfRecords \in 0..MaxRecords
  /\ lost \subseteq Messages /\ raced \subseteq Messages

\* Every message between its first buffer and the disk, the oldest first; one that
\* the writer has dealt with but not yet returned is counted once.
Drained == IF drained = Nothing THEN <<>> ELSE <<drained>>
InRing == [i \in 1..Len(ring) |-> IF ring[i].sent THEN ring[i].body ELSE ring[i].by]
Waiting == IF writer = "return" THEN Tail(InRing) ELSE InRing
Pipeline == disk \o Drained \o early \o Waiting

\* logmanager.cpp:28-29 and 65-75: the messages of a task come to the disk as
\* they were logged, once and in the order in which they were logged; but a
\* message that is under way while initDiskLog() runs may come before or after
\* any other.
InOrder ==
  \A i, j \in 1..Len(Pipeline) :
    /\ i < j
    /\ Pipeline[i][1] = Pipeline[j][1]
    /\ {Pipeline[i], Pipeline[j]} \cap raced = {}
    => Pipeline[i][2] < Pipeline[j][2]

\* logmanager.cpp:28-29, "guaranteeing they are not lost": what a task logs
\* comes to the disk, or found no room, or was under way while initDiskLog() ran.
ReachesDisk ==
  \A t \in Tasks : \A n \in 1..MaxMsgs :
    count[t] >= n ~> <<t, n>> \in ToSet(disk) \cup lost \cup raced
================================================================================
