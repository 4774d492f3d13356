------------------------------- MODULE LogUpload -------------------------------
(***************************************************************************)
(* The upload of log files: LogManager of logmanager.cpp, which the main   *)
(* task runs from loop(), and the part of MqttManager (mqttmanager.cpp)    *)
(* that sends a block of a file and learns that the broker has it, which   *)
(* runs in the task of the MQTT client.  The two tasks share               *)
(* sendingMessage, inTransitFilename, connected and the list of message    *)
(* IDs in transit without a lock: each access is a step of its own.        *)
(*                                                                         *)
(* Files are numbered in the order they are created.  The MQTT client is   *)
(* external: it keeps the messages that were enqueued in an outbox in      *)
(* memory, gives each an ID and removes it when the broker confirms it.    *)
(***************************************************************************)
EXTENDS Integers, FiniteSets, FiniteSetsExt

CONSTANTS LineEnds,       \* the offsets of the zeros that end the lines of a file
          BlockSize,      \* 4 * MAX_LOGMSG_SIZE
          OutIDs,         \* the IDs of outgoing messages are 1..OutIDs
          InIDs,          \* IDs the broker may give to a message it sends
          MaxFiles,       \* bound on the files created
          MaxDisconnects, \* bound on the connections lost and the MQTT_EVENT_ERRORs
          MaxFailures,    \* bound on the blocks that cannot be read or find no room
          MaxIncoming,    \* bound on the downloads
          MaxCrashes,     \* bound on the restarts
          OpenFails,      \* a file may fail to open
          ExpiresOnline   \* the client may give a message up while connected

ASSUME UploadAssumption ==
  /\ LineEnds \subseteq Nat \ {0} /\ IsFiniteSet(LineEnds) /\ LineEnds # {} /\ BlockSize \in Nat
  /\ OutIDs \in Nat \ {0} /\ InIDs \subseteq Nat \ {0}
  /\ MaxFiles \in Nat \ {0} /\ MaxDisconnects \in Nat
  /\ MaxFailures \in Nat /\ MaxIncoming \in Nat /\ MaxCrashes \in Nat
  /\ {OpenFails, ExpiresOnline} \subseteq BOOLEAN

\* The lines <<offset, length>> of a file, with what there is of a line cut off.
LinesOf(f) ==
  LET starts == {0} \cup {z + 1 : z \in LineEnds \ {Max(LineEnds)}}
  IN  {<<a, Min({z \in LineEnds : z >= a}) - a>> : a \in starts}

\* A message has text and is no longer than MAX_LOGMSG_SIZE.
ASSUME LinesAssumption == \A l \in LinesOf(1) : 1 <= l[2] /\ l[2] <= BlockSize

ListSize == 5  \* of inTransitMessageIDs
NoID == 0      \* -1 in the code
NoFile == 0

VARIABLES
  logfile,    \* Logfile::filename, the file being written to
  shouldRotate, \* Logfile::shouldRotate
  torn,       \* files whose last line was cut off before its zero
  closed,     \* the log files on the disk that are not written to any more
  sending,    \* LogManager::sendingMessage
  inTransit,  \* LogManager::inTransitFilename
  seek,       \* LogManager::seekPointer
  connected,  \* MqttManager::connected
  ids,        \* MqttManager::inTransitMessageIDs
  nextFree,   \* MqttManager::nextFreeID
  outbox,     \* messages <<id, block>> that the client has not had confirmed
  received,   \* the blocks <<file, offset, length>> that the broker has
  incoming,   \* ID of the download under way, or NoID
  main,       \* where the main task is, with the locals it goes on to use
  mqtt,       \* where the MQTT task is
  disconnects, failures, downloads, crashes

\* Auxiliary state, which the properties refer to and no action reads.
VARIABLES
  mixed,      \* since ids was last reset, the broker has given a message of its own
              \* the ID of one of ours
  excused     \* the files that NoLogLost says nothing of

shared == <<sending, inTransit, connected, ids, nextFree>>
counters == <<disconnects, failures, downloads, crashes>>
disk == <<logfile, shouldRotate, torn, closed>>
history == <<mixed, excused>>
vars == <<disk, seek, shared, outbox, received, incoming, main, mqtt, counters, history>>

EmptyList == [i \in 1..ListSize |-> NoID]

At(pc) == [pc |-> pc, msg |-> NoID, slot |-> 0, blk |-> <<>>]

Init ==
  /\ logfile = 1 /\ shouldRotate = FALSE
  /\ closed = {} /\ torn = {}
  /\ sending = FALSE
  /\ inTransit = NoFile
  /\ seek = 0
  /\ connected = FALSE
  /\ ids = EmptyList
  /\ nextFree = 0
  /\ outbox = {}
  /\ received = {}
  /\ incoming = NoID
  /\ main = At("idle")
  /\ mqtt = "idle"
  /\ disconnects = 0 /\ failures = 0 /\ downloads = 0 /\ crashes = 0
  /\ mixed = FALSE /\ excused = {}

-----------------------------------------------------------------------------
(* The list of message IDs in transit *)

findMessageID(list, id) == \E i \in 1..ListSize : list[i] = id

\* The entries after the first one that matches move up.
forgetMessage(list, id) ==
  LET pos == CHOOSE i \in 1..ListSize : list[i] = id /\ \A j \in 1..(i - 1) : list[j] # id
  IN  [i \in 1..ListSize |-> IF i < pos THEN list[i]
                             ELSE IF i < ListSize THEN list[i + 1] ELSE NoID]

\* The places are numbered from 0 in the code.  A write beyond the list leaves it
\* alone.
SetID(list, slot, id) == [list EXCEPT ![slot + 1] = id]

\* inTransitMessageIDs[nextFreeID++] = id with slot read from nextFreeID: right behind
\* the list is nextFreeID itself, which keeps what is written last.
NextFreeAfter(slot, id) == IF slot = ListSize THEN {slot + 1, id} ELSE {slot + 1}

-----------------------------------------------------------------------------
(* The task that writes the log *)

\* Logfile::createNewFile(): a message does not fit any more, or there is none for
\* 10 seconds and the file should be rotated.  Nothing resets shouldRotate.
createNewFile ==
  /\ logfile < MaxFiles
  /\ logfile' = logfile + 1
  /\ closed' = closed \cup {logfile}
  /\ UNCHANGED <<shouldRotate, torn, seek, shared, outbox, received, incoming, main, mqtt,
                 counters, history>>

RotateWhenQuiet == shouldRotate /\ createNewFile

-----------------------------------------------------------------------------
(* The main task *)

\* Any log file that is not being written to may be the first in the directories:
\* its name and its directory come from the clock.
findFileToSend == closed \ {logfile}

\* uploadLogs() goes on if no block is being sent.
uploadLogs ==
  /\ main.pc = "idle"
  /\ ~sending
  /\ main' = At("online")
  /\ UNCHANGED <<disk, seek, shared, outbox, received, incoming, mqtt, counters, history>>

isClientConnected ==
  /\ main.pc = "online"
  /\ main' = At(IF connected THEN "pick" ELSE "idle")
  /\ UNCHANGED <<disk, seek, shared, outbox, received, incoming, mqtt, counters, history>>

\* A block is to be sent, of the file in transit or else of one that is found.
PickFile ==
  /\ main.pc = "pick"
  /\ \/ inTransit # NoFile /\ main' = At("open") /\ UNCHANGED <<inTransit, seek>>
     \/ /\ inTransit = NoFile
        /\ \E f \in findFileToSend : inTransit' = f
        /\ seek' = 0
        /\ main' = At("open")
     \/ /\ inTransit = NoFile /\ findFileToSend = {}
        /\ main' = At("idle")
        /\ UNCHANGED <<inTransit, seek>>
  /\ UNCHANGED <<disk, sending, connected, ids, nextFree, outbox, received,
                 incoming, mqtt, counters, history>>

\* There has been nothing to send for MAX_IDLE_TIME.
rotate ==
  /\ main.pc = "pick"
  /\ inTransit = NoFile /\ findFileToSend = {}
  /\ shouldRotate' = TRUE
  /\ main' = At("idle")
  /\ UNCHANGED <<logfile, torn, closed, seek, shared, outbox, received, incoming, mqtt,
                 counters, history>>

\* A restart may cut off the last line that a file got.
ZerosIn(f) == LineEnds \ (IF f \in torn THEN {Max(LineEnds)} ELSE {})

\* A file that cannot be opened, or that has no name any more, has size 0.
SizeOf(f) == IF f \notin closed THEN 0 ELSE Max(LineEnds) + (IF f \in torn THEN 0 ELSE 1)

\* Mutant: a block ends where the buffer does.
CompleteLength_All(f, size) == Min({BlockSize, size - seek})

\* Mutant: a read that comes up short counts as a full one.
CompleteLength_Full(f, size) ==
  LET zeros == ZerosIn(f) \cap (seek..(seek + BlockSize - 1))
  IN  IF zeros = {} THEN BlockSize ELSE Max(zeros) - seek

\* What is to be sent of the bytes read ends before the last zero in them.  If there
\* is none, it is all of them.
CompleteLength(f, size) ==
  LET last == Min({seek + BlockSize, size})
      zeros == ZerosIn(f) \cap (seek..(last - 1))
  IN  IF zeros = {} THEN last - seek ELSE Max(zeros) - seek

\* Mutant: the zero is read again with the next block.
ReadBlock_ZeroAgain(size, len) ==
  /\ main.pc = "open"
  /\ IF seek >= size
       THEN main' = At("sent") /\ UNCHANGED <<seek, inTransit>>
       ELSE IF len = 0
       THEN main' = At("idle") /\ inTransit' = NoFile /\ UNCHANGED seek
       ELSE /\ main' = [At("enqueue") EXCEPT !.blk = <<inTransit, seek, len>>]
            /\ seek' = seek + len
            /\ UNCHANGED inTransit
  /\ UNCHANGED <<disk, sending, connected, ids, nextFree, outbox, received, incoming, mqtt>>

\* sendNextMessages() opens the file and reads a block, unless it is at the end.
ReadBlock(size, len) ==
  /\ main.pc = "open"
  /\ IF seek >= size
       THEN main' = At("sent") /\ UNCHANGED <<seek, inTransit>>
       ELSE IF len = 0
       THEN main' = At("idle") /\ inTransit' = NoFile /\ UNCHANGED seek
       ELSE /\ main' = [At("enqueue") EXCEPT !.blk = <<inTransit, seek, len>>]
            /\ seek' = seek + len + 1
            /\ UNCHANGED inTransit
  /\ UNCHANGED <<disk, sending, connected, ids, nextFree, outbox, received, incoming, mqtt>>

\* A file that is in transit and not there has been sent before.
OpenAndRead ==
  LET size == SizeOf(inTransit)
  IN  \/ /\ ReadBlock(size, IF seek < size THEN CompleteLength(inTransit, size) ELSE 0)
         /\ UNCHANGED <<counters, history>>
      \/ /\ OpenFails
         /\ ReadBlock(0, 0)
         /\ excused' = excused \cup {inTransit}
         /\ UNCHANGED <<counters, mixed>>
      \/ /\ failures < MaxFailures /\ seek < size
         /\ failures' = failures + 1
         /\ ReadBlock(size, 0)
         /\ UNCHANGED <<disconnects, downloads, crashes, history>>

FileSent ==
  /\ main.pc = "sent"
  /\ sending' = FALSE
  /\ main' = At("flush")
  /\ UNCHANGED <<disk, seek, inTransit, connected, ids, nextFree, outbox, received,
                 incoming, mqtt, counters, history>>

\* cancelUpload() has cleared sendingMessage and not yet inTransitFilename.
HalfCancelled == mqtt \in {"forgetFile", "forgetFileThenDrop"}

flushSentLogfile ==
  /\ main.pc = "flush"
  /\ closed' = closed \ {inTransit}
  /\ inTransit' = NoFile
  /\ main' = At("idle")
  /\ excused' = IF mixed \/ HalfCancelled THEN excused \cup {inTransit} ELSE excused
  /\ UNCHANGED <<logfile, shouldRotate, torn, seek, sending, connected, ids, nextFree, outbox,
                 received, incoming, mqtt, counters, mixed>>

\* An ID that the client gives to a message: it takes them in turn, out of 65535,
\* and does not come back to one that is still in use.  What the broker calls
\* its own messages is not up to the client.
IsNextID(id) ==
  LET Unused(i) == /\ \A m \in outbox : m[1] # i
                   /\ i = incoming \/ ~findMessageID(ids, i)
  IN  Unused(id) /\ \A i \in 1..(id - 1) : ~Unused(i)

\* sendLog(): the client takes the message, or it has no room for it.
Take ==
  /\ main.pc = "enqueue"
  /\ \E id \in 1..OutIDs :
       /\ IsNextID(id)
       /\ outbox' = outbox \cup {<<id, main.blk>>}
       /\ main' = [At("remember") EXCEPT !.msg = id]
       /\ mixed' = (mixed \/ id = incoming)
  /\ UNCHANGED <<disk, seek, shared, received, incoming, mqtt, counters, excused>>

Refuse ==
  /\ main.pc = "enqueue"
  /\ \/ (\A id \in 1..OutIDs : ~IsNextID(id)) /\ UNCHANGED failures
     \/ failures < MaxFailures /\ failures' = failures + 1
  /\ inTransit' = NoFile
  /\ main' = At("idle")
  /\ UNCHANGED <<disk, seek, sending, connected, ids, nextFree, outbox, received, incoming,
                 mqtt, disconnects, downloads, crashes, history>>

\* rememberMessage(): the search and the read of nextFreeID, and then the write.
FindRoom ==
  /\ main.pc = "remember"
  /\ main' = IF findMessageID(ids, main.msg)
               THEN At("sending")
               ELSE [main EXCEPT !.pc = "store", !.slot = nextFree]
  /\ UNCHANGED <<disk, seek, shared, outbox, received, incoming, mqtt, counters, history>>

StoreID ==
  /\ main.pc = "store"
  /\ ids' = SetID(ids, main.slot, main.msg)
  /\ nextFree' \in NextFreeAfter(main.slot, main.msg)
  /\ main' = At("sending")
  /\ UNCHANGED <<disk, seek, sending, inTransit, connected, outbox, received,
                 incoming, mqtt, counters, history>>

SetSending ==
  /\ main.pc = "sending"
  /\ sending' = TRUE
  /\ main' = At("idle")
  /\ UNCHANGED <<disk, seek, inTransit, connected, ids, nextFree, outbox, received,
                 incoming, mqtt, counters, history>>

-----------------------------------------------------------------------------
(* The MQTT task *)

\* An event is handled when the task is waiting for one.
Event == mqtt = "idle"

\* MQTT_EVENT_CONNECTED.
Connect ==
  /\ Event
  /\ ~connected
  /\ connected' = TRUE
  /\ UNCHANGED <<disk, seek, sending, inTransit, ids, nextFree, outbox, received,
                 incoming, main, mqtt, counters, history>>

\* MQTT_EVENT_PUBLISHED: the broker has a message and says so.
Published(m) ==
  /\ Event
  /\ connected
  /\ outbox' = outbox \ {m}
  /\ received' = received \cup {m[2]}
  /\ IF findMessageID(ids, m[1])
       THEN /\ ids' = forgetMessage(ids, m[1])
            /\ nextFree' = nextFree - 1
            /\ mqtt' = "notify"
       ELSE UNCHANGED <<ids, nextFree, mqtt>>
  /\ UNCHANGED <<disk, seek, sending, inTransit, connected, incoming, main,
                 counters, history>>

notifyMessageSent ==
  /\ mqtt = "notify"
  /\ sending' = FALSE
  /\ mqtt' = "idle"
  /\ UNCHANGED <<disk, seek, inTransit, connected, ids, nextFree, outbox, received,
                 incoming, main, counters, history>>

\* MQTT_EVENT_DISCONNECTED and MQTT_EVENT_ERROR: cancelUpload() and then
\* resetMessageList().  An error of the transport drops the connection.
Disconnected ==
  /\ \/ /\ Event
        /\ disconnects < MaxDisconnects
        /\ disconnects' = disconnects + 1
     \/ /\ mqtt = "drop"
        /\ UNCHANGED disconnects
  /\ connected
  /\ connected' = FALSE
  /\ mqtt' = "cancel"
  /\ UNCHANGED <<disk, seek, sending, inTransit, ids, nextFree, outbox, received,
                 incoming, main, failures, downloads, crashes, history>>

Error ==
  /\ Event
  /\ disconnects < MaxDisconnects
  /\ disconnects' = disconnects + 1
  /\ mqtt' = IF connected THEN "cancelThenDrop" ELSE "cancel"
  /\ UNCHANGED <<disk, seek, shared, outbox, received, incoming, main,
                 failures, downloads, crashes, history>>

cancelUpload ==
  /\ \/ mqtt = "cancel" /\ mqtt' = "forgetFile"
     \/ mqtt = "cancelThenDrop" /\ mqtt' = "forgetFileThenDrop"
  /\ sending' = FALSE
  /\ UNCHANGED <<disk, seek, inTransit, connected, ids, nextFree, outbox, received,
                 incoming, main, counters, history>>

ForgetFile ==
  /\ \/ mqtt = "forgetFile" /\ mqtt' = "reset"
     \/ mqtt = "forgetFileThenDrop" /\ mqtt' = "resetThenDrop"
  /\ inTransit' = NoFile
  /\ UNCHANGED <<disk, seek, sending, connected, ids, nextFree, outbox, received,
                 incoming, main, counters, history>>

\* The download that was under way, if any, begins again some time.
resetMessageList ==
  /\ \/ mqtt = "reset" /\ mqtt' = "idle"
     \/ mqtt = "resetThenDrop" /\ mqtt' = "drop"
  /\ ids' = EmptyList
  /\ nextFree' = 0
  /\ incoming' = NoID
  /\ mixed' = FALSE
  /\ UNCHANGED <<disk, seek, sending, inTransit, connected, outbox, received,
                 main, counters, excused>>

\* The first and the last slice of a file that the broker sends, whose ID goes
\* into the same list.
FirstSlice(id) ==
  /\ Event
  /\ connected /\ incoming = NoID
  /\ downloads < MaxIncoming
  /\ downloads' = downloads + 1
  /\ incoming' = id
  /\ IF findMessageID(ids, id)
       THEN UNCHANGED <<ids, nextFree>>
       ELSE ids' = SetID(ids, nextFree, id) /\ nextFree' \in NextFreeAfter(nextFree, id)
  /\ mixed' = (mixed \/ \E m \in outbox : m[1] = id)
  /\ UNCHANGED <<disk, seek, sending, inTransit, connected, outbox, received,
                 main, mqtt, disconnects, failures, crashes, excused>>

LastSlice ==
  /\ Event
  /\ connected /\ incoming # NoID
  /\ incoming' = NoID
  /\ IF findMessageID(ids, incoming)
       THEN ids' = forgetMessage(ids, incoming) /\ nextFree' = nextFree - 1
       ELSE UNCHANGED <<ids, nextFree>>
  /\ UNCHANGED <<disk, seek, sending, inTransit, connected, outbox, received,
                 main, mqtt, counters, history>>

-----------------------------------------------------------------------------
\* The client drops a message that it could not send for too long.
Expire(m) ==
  /\ ExpiresOnline \/ ~connected
  /\ outbox' = outbox \ {m}
  /\ UNCHANGED <<disk, seek, shared, received, incoming, main, mqtt, counters, history>>

\* A restart: the file that was being written to is now one more to be sent.  Its
\* last line may be there in part.
Restart ==
  /\ crashes < MaxCrashes
  /\ logfile < MaxFiles
  /\ crashes' = crashes + 1
  /\ logfile' = logfile + 1
  /\ closed' = closed \cup {logfile}
  /\ torn' \in {torn, torn \cup {logfile}}
  /\ shouldRotate' = FALSE
  /\ sending' = FALSE
  /\ inTransit' = NoFile
  /\ seek' = 0
  /\ connected' = FALSE
  /\ ids' = EmptyList
  /\ nextFree' = 0
  /\ outbox' = {}
  /\ incoming' = NoID
  /\ main' = At("idle")
  /\ mqtt' = "idle"
  /\ mixed' = FALSE
  /\ UNCHANGED <<received, disconnects, failures, downloads, excused>>

MainStep ==
  \/ uploadLogs \/ isClientConnected \/ PickFile \/ rotate
  \/ OpenAndRead \/ FileSent \/ flushSentLogfile
  \/ Take \/ Refuse \/ FindRoom \/ StoreID \/ SetSending

HandlerStep ==
  notifyMessageSent \/ cancelUpload \/ ForgetFile \/ resetMessageList \/ (mqtt = "drop" /\ Disconnected)

PublishedNext == \E m \in outbox : Published(m)

Next ==
  \/ createNewFile \/ RotateWhenQuiet
  \/ MainStep
  \/ HandlerStep
  \/ PublishedNext
  \/ Connect
  \/ Disconnected
  \/ Error
  \/ \E id \in InIDs : FirstSlice(id)
  \/ LastSlice
  \/ \E m \in outbox : Expire(m)
  \/ Restart

Spec == Init /\ [][Next]_vars

\* Both tasks run, time passes while there is nothing to send, the client reconnects,
\* and the broker confirms what it gets and ends what it sends.
Fairness ==
  /\ WF_vars(MainStep) /\ WF_vars(HandlerStep) /\ WF_vars(RotateWhenQuiet)
  /\ SF_vars(rotate) /\ SF_vars(PublishedNext)
  /\ SF_vars(Connect) /\ SF_vars(LastSlice)

FairSpec == Spec /\ Fairness

-----------------------------------------------------------------------------
TypeOK ==
  /\ logfile \in 1..MaxFiles
  /\ closed \subseteq 1..(logfile - 1)
  /\ sending \in BOOLEAN
  /\ inTransit \in 0..MaxFiles
  /\ torn \subseteq 1..(logfile - 1) /\ shouldRotate \in BOOLEAN
  /\ seek \in 0..(Max(LineEnds) + 1)
  /\ connected \in BOOLEAN
  /\ ids \in [1..ListSize -> Nat]
  /\ nextFree \in Int
  /\ incoming \in InIDs \cup {NoID}
  /\ mixed \in BOOLEAN /\ excused \subseteq 0..MaxFiles

\* The broker has each line of f in one piece, in a block that has been confirmed.
Delivered(f) ==
  \A l \in LinesOf(f) : \E b \in received :
    b[1] = f /\ b[2] <= l[1] /\ l[1] + l[2] <= b[2] + b[3]

\* CODE_OVERVIEW.md:92-96, "to guarantee we never delete a file prematurely";
\* mqttmanager.cpp:56-57, "we only delete a logfile when we have confirmation
\* it was received": a file that is gone has been delivered, with the part of a line
\* that a restart cut off, unless it once failed to open (logmanager.cpp:517), or it
\* was deleted in the middle of cancelUpload() (logmanager.cpp:465-466) or while the
\* broker had given the ID of one of our messages to one of its own.
NoLogLost == \A f \in (1..(logfile - 1)) \ closed : f \in excused \/ Delivered(f)

\* mqttmanager.cpp:51-52, "We should never have more than one message in transit at any
\* given time, but let's be cautious": five places are enough for the IDs in transit.
ListNeverOverrun == nextFree <= ListSize

\* A block is being waited for, and no message in the outbox is in the list.
Stuck ==
  /\ sending /\ main.pc = "idle" /\ mqtt = "idle"
  /\ \A m \in outbox : ~findMessageID(ids, m[1])

Sent(f) == logfile > f /\ f \notin closed /\ Delivered(f)

\* CODE_OVERVIEW.md:86-88, "Closed files are eventually sent to the controlling
\* server and deleted", and logmanager.cpp:490-492, a file that does not get full is
\* closed "so we do send something": whatever is logged is delivered and leaves the
\* controller, but for the last file that the bound leaves room for.
EveryLogSent == \A f \in 1..(MaxFiles - 1) : logfile >= f ~> Sent(f)

\* And it is so, but for the files that NoLogLost excuses, or else the controller waits
\* for ever for the confirmation of a block that it will not recognise.
SentOrStuck ==
  <>[]Stuck \/ \A f \in 1..(MaxFiles - 1) : logfile >= f ~> f \in excused \/ Sent(f)
=============================================================================
