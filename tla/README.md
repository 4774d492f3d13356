# Verification of the door controller

TLA+ modules for the firmware of the door controller (`src/door_controller`), the TLC
configurations that check them on small instances, and TLAPS proofs of the results that matter
most.  File names below are those of `src/door_controller/src` unless they have a path.

1. [The system](#1-the-system)  2. [The modules](#2-the-modules)  3. [The runs](#3-the-runs)
4. [Assumptions and fairness](#4-assumptions-and-fairness)  5. [The proofs](#5-the-proofs)
6. [Where the code does not do what it says](#6-where-the-code-does-not-do-what-it-says)
7. [What is not modelled](#7-what-is-not-modelled)  8. [Plan](#8-plan)

## 1. The system

The controller opens a door for the cards that an SQLite file authorizes.  It gets that file, and
new firmware, from a server through an MQTT broker, and uploads its log files the same way.  Three
tasks and an interrupt handler share the state of a handful of global objects, with no lock:

| task | runs | touches |
|---|---|---|
| main | `setup()`, then `loop()` (tramela.cpp): firmware watchdog, `checkDoor()`, `uploadLogs()`, network and time | everything |
| MQTT | `mqtt_event_handler()` (mqttmanager.cpp), called by the ESP-IDF client | database files, Authorizer, upload, firmware |
| logWriter | `logWriter()` (logmanager.cpp) | log file, ring buffers |
| interrupt | `setExternal0PinState()` and the other one, with the callbacks of the Wiegand library (cardreader.cpp) | the Wiegand object, the card last read, messages about errors |

| component | state | operations | what is hard about it | what makes it correct |
|---|---|---|---|---|
| Database manager (dbmanager.cpp) | two files and four marker files on the disk; which is current, what is open, in memory | `init`, `writeToDatabaseFile`, `finishDBDownload`, `cancelDBDownload`, `swapFiles`, `activateDBFile` | restarts between disk operations, files that cannot be created, opened or used, downloads cut off | a new database replaces the old one at once and for good; there is always one if there ever was a sound one |
| MQTT manager (mqttmanager.cpp) | `connected`, `subscribed`, `downloading`, IDs of messages in transit | events of the client, `sendLog`, `forceDBDownload`, commands | events while the main task is in the middle of something; redelivery after a lost connection | the version published last gets used; a confirmation is matched with its block |
| Authorizer (authorizer.cpp) | `sqlitedb`, `dbquery` | `openDB`, `closeDB`, `userAuthorized`, `refreshQuery` | the MQTT task closes and opens the database while the main task uses it | the door opens only for who is authorized |
| Card readers (cardreader.cpp, the copy of the Wiegand library in lib/) | lines, bits of a message, the card last read and a flag, error messages | interrupt handlers, `initCardReaders`, `checkCardReaders` | handlers that run late, stray pulses, cables pulled, polling that stops | only the card that is shown is read; every card gets an answer |
| Door (doormanager.cpp) | the relay | `checkDoor`, `openDoor` | opened from two tasks; a card may be overwritten while it is copied | it is open for who is authorized, and closed again |
| Log messages (logmanager.cpp, include/tempbufsmanager.h) | preallocated buffers, two ring buffers, the current file | `venqueueLogMessage`, `logWriter`, `initDiskLog`, `rotate` | lock-free search for a buffer, ring buffers that are full, the change from memory to disk | messages come to the disk once, in order, and buffers are never shared or leaked |
| Log upload (logmanager.cpp, mqttmanager.cpp) | file in transit, position, `sendingMessage` | `uploadLogs`, `sendNextMessages`, `cancelUpload`, `messageSent` | confirmations early, late, or of a block that was given up; blocks cut in the middle of a message, messages cut off by a restart | no message is deleted before the broker has it; every file is sent some time |
| Firmware updater (firmwareOTA.cpp) | `downloading`, `fwOK`, the OTA handle; partitions and their states | `writeBinary`, `processOTAUpdate`, `watchdog`, `seemsOK`, `forceRollback` | restarts, failing OTA functions, a watchdog that races with the connection | new firmware that cannot connect is rolled back, and one that can is kept |
| Start (tramela.cpp) with the time and network managers (timemanager.cpp, networkmanager.cpp) and the boot count (logmanager.cpp) | timers, clocks, the count in NVS | `setup()`, `checkTimeSync`, `checkNetConnection`, `getBootcountFromNVS` | time-outs against slow reconnections; unsigned differences; restarts and failures of NVS | the controller comes up and stays online; its clock is right; boots can be put in order |
| Server (src/poc_manager) | its own database of log messages | publish, parse log messages | parsing messages it did not write | what was uploaded is stored |

Interactions: the MQTT manager calls the database manager, the upload, the updater and the door;
the database manager calls the Authorizer and, for a fresh file, the MQTT manager again; `loop()`
calls each manager in turn; everything logs.

## 2. The modules

| module | code | built on |
|---|---|---|
| `AtomicDB` | what dbmanager.cpp promises: one installed version, replaced in one step | |
| `DBManager` | dbmanager.cpp | implements `AtomicDB` |
| `DBDownload` | the database topic in mqttmanager.cpp, the broker | extends `DBManager` |
| `Access` | authorizer.cpp, doormanager.cpp, the copy of a card, commands in mqttmanager.cpp | |
| `Wiegand` | lib/YetAnotherArduinoWiegandLibrary-master/src/Wiegand.cpp, as operators on an object | |
| `CardReaders` | cardreader.cpp, the reader and its lines | extends `Wiegand` |
| `Startup` | tramela.cpp, timemanager.cpp, networkmanager.cpp, TimeStamper in logmanager.cpp | |
| `LogUpload` | upload in logmanager.cpp, message IDs in mqttmanager.cpp | |
| `TempBufs` | include/tempbufsmanager.h | |
| `Logging` | messages in logmanager.cpp | extends `TempBufs` |
| `Firmware` | firmwareOTA.cpp, the bootloader | |
| `DBManager_proofs`, `DBDownload_proofs`, `Access_proofs`, `CardReaders_proofs`, `Startup_proofs`, `LogUpload_proofs`, `Logging_proofs` (with `TempBufs`), `Firmware_proofs` | theorems about the module | each extends it |
| `MC...` | model values for TLC | |

An action has the name of the function, or of the step of it, that it stands for; a variable has
the name of the member, or is explained where it is declared.  Where two tasks share state, every
access is a step of its own, and a variable such as `pc`, `main`, `mqtt` or `writer` says where a
task is.  What a task does in between, with state that nobody else touches, is one step.

**DBManager.** `db`, `valid` and `pref` are DB_x, VALID_x and PREF_x.  A file is the sequence of
the slices written to it; a marker file is absent, created but empty, or holds a number, since it
is emptied when it is opened and its number reaches the disk when it is closed.  Every disk
operation is a step and `Crash` may come between any two.  `file` is the file that is open for a
download, `open` what SQLite has open, `rx` the slice last received, `ret` who called the
operation that a task is in.  SQLite opens a file only if it is a whole database: without its
first slice it has no header, and without another one it is shorter than its header says.

**AtomicDB.** `installed`, `serving` and `offer`, mapped to `Installed` (what `init()` would open
after a restart), `Serving` (what SQLite has open) and `Offered` (the version of the download that
`finishDBDownload()` is at).  The several writes to the markers must look like one: `Installed`
changes once, when the decisive one is made.

**DBDownload** adds `connected`, `subscribed` and `kind` (`downloading`), and the broker: the
retained version, the session, and a queue of what it owes, which is sent again from the first
slice after a lost connection.  `Publish` is the server's.  The versions in `Small` come in one event
(`FullMessage`), for which `downloading` is not touched (mqttmanager.cpp:268-282).  `faulted` is a
history variable: a call to the disk or to SQLite has failed.

**Access.** Databases are numbered as they are opened; the number stands for both pointers of the
Authorizer.  `live` are the statements that are not finalized.  A call with a finalized statement
gives the answer it would have given, an error, or a crash.  A card is read in two parts; card
IDs are sparse, so that two halves of different cards are no third card: which bits come from which is
not modelled.  `rawAt`, `at` and
`swapped` are history variables for the properties.  `relay` is the pin DOOR_OPEN, which the MQTT
task sets too when `handleCommand()` obeys openDoor.  What a command says, and whether its
recipient is this door, is left open: the recipient is copied without its end
(mqttmanager.cpp:159), so that it depends on what was on the stack.

**Wiegand, CardReaders.**  `Wiegand` has one operator per function of the library; each gives the
object afterwards, and what its callbacks are to be called with.  Times are abstracted to `quiet`,
more than 25 ms without a change.  In `CardReaders` a bit is a pulse on one of two lines, an edge
sets the interrupt of its line (`latched`), and the handler reads the line when it runs.
`initCardReaders()` is one step per call, with interrupts in between.  `fate` (what became of each
card), `sending`, `owner`, `clean`, `seen` (the cards of which the object got a bit) and `stale` are
history variables.  A card has one wrong bit at most: two in one half pass the parity check
(Wiegand.cpp:183-192), and nobody would notice.

**Startup.**  A tick is an attempt of `setup()` to get the time (2 s), or what `loop()` does in
that time.  `now`, `lastNetCheck` and `lastNetOK` are modulo `MillisWrap`; a clock is how far it
is off, modulo `ClockWrap`.  `wifi.ticks` is what has been done of a connection and of the first
answer of the NTP server, so that a reset begins them anew.  Two history variables: `lastStamp`, the
greatest count of any boot that got as far as the disk, and `forgotten`, NVS has been erased or did
not keep a count that it was given (logmanager.cpp:229-235, 268-285).  Nothing resets them.

**LogUpload.** `main` has where the main task is in `uploadLogs()` with its locals, `mqtt` where
the MQTT task is in an event.  `outbox` is the client's, `received` what the broker confirmed.
Each access to `sendingMessage`, `connected`, `inTransitFilename`, `nextFreeID` and the list is a step
of its own; MQTT_EVENT_ERROR cancels an upload like a lost connection and leaves `connected` true until
the event that follows it.  A write beyond the list of IDs hits `nextFreeID`, which is declared behind it
(`NextFreeAfter`); what else it may hit is not modelled.  `mixed` and `excused` are history variables: the broker
has given one of its messages the ID of one of ours, and the files that `NoLogLost` says nothing of.
A file holds messages of unequal length (`LineEnds` are the zeros after them); a block is what
is left of `BlockSize` bytes from `seek` on when it is cut at the last zero, and `torn` has the
files whose last message a restart cut off.  The time between searches is left out (a search comes
some time), and so are names and directories: any closed file may be found.

**TempBufs, Logging.** `get()` looks at one buffer at a time, with compare-and-set.  A message is
`<<task, n>>`.  `xRingbufferSendAcquire()` reserves a place that the reader does not pass until it
is complete.  `Logfile::log()` is one step, and begins a new file when it likes (the size of a file is not
modelled, MAX_RECORDS is).  `raced` is a history variable: the messages that were under way, from
`venqueueLogMessage()` to the writer, at some time while `initDiskLog()` ran.

**Firmware.** A partition holds a sequence of slices and has a state (`new`, `pending`, `valid`,
`invalid`); `Reboot` is the bootloader.  `Disconnect` is also MQTT_EVENT_ERROR, which cancels the same
and leaves `connected` alone.  `failed` is a history variable.

## 3. The runs

All bounds are constants.  They are in the guards of `Publish`, `Crash`, `Disconnect` and the
like, so that every behaviour of the code between these events is complete.  `CHECK_DEADLOCK
FALSE` stands where these bounds stop the environment and the controller rightly waits.

| run | states | instance | shows |
|---|---|---|---|
| `db_serves` | 31 000 | two good versions, one of them in a single event, a broken one, two slices, two restarts, creating and writing the file may fail | `DBManager` implements `AtomicDB`; no file mixes two downloads; what is served is what a restart would serve; an installed database, and a sound file received whole, get served |
| `dl_settles` | 1 130 000 | three publications, two lost connections, one restart; every call to the disk or to SQLite may fail | the door is without a database only when no slot has a usable one; an open file is not touched; as long as none of these calls failed, no version is missed and the door settles on the one published last |
| `access` | 3 070 000 | three cards, one of them a master key, three versions of which one cannot be opened and one revokes a card, two reads, three openings, a command, one restart | the door is open only for who is authorized, or for a command, and is closed again; nobody is denied without a reason; the readers are polled for ever |
| `readers` | 1 150 000 | two cards, messages of four bits, two of: an edge that comes late for the handlers, a card whose every edge does, a wrong bit, a stray pulse, a cable unplugged | the ID that is read is that of the card being shown, once; a card none of whose edges came late is read whatever came before it; every card of which the library got a bit has an answer |
| `startup` | 1 080 000 | hardware clock absent, stopped, right or wrong; no network for longer than two rounds of `setup()`; a lost connection, a drift, a failure of NVS, a restart | `setup()` ends; connections come back; the hardware clock ends up right; boots can be put in order until NVS forgets.  Deadlock is checked |
| `log_kept` | 700 000 | two files of two messages, a lost connection or MQTT error, a download whose ID may be that of a block, a restart, a block that cannot be read or sent, files that do not open, messages given up | no file is deleted before the broker has every message of it, three cases excused; everything logged is delivered and deleted, or an upload is stuck for ever |
| `logging` | 629 000 | two tasks, two messages each, two buffers, ring buffers for two, three records a file; `initDiskLog()` at any time | exclusive buffers, none leaked, `get()` does not wait; messages in order, once, and on the disk in the end, but for those under way while `initDiskLog()` runs |
| `firmware` | 64 000 | a good, a faulty and a corrupt image beside the first one, two slices, three publications, a lost connection, a restart, a rollback, failing OTA functions | a trial has a fallback; connected means confirmed; images are written whole; never stranded |
| `dl_force`, `log_stuck`, `log_overflow`, `fw_ignored` | | | counterexamples, section 6 |

Why these bounds are enough for what they are to show: two slices tell a first one, a last one and an
incomplete file apart; downloads alternate between two slots, so three downloads bring the manager back
to a slot it used before, with the marker files of every history in between; two restarts allow
one in the recovery from another.  In `access` two reads are what it takes to overwrite a card
that is being copied, and to ask about one after another; three openings give a version in
service, one that replaces it, and the return to the old one after a broken one.  In `log_kept`
two files allow one to be sent again, or the other to be chosen, while a block of a cancelled upload is
still in the outbox; the messages of a file have lengths 1 and 3 and a block has room for 4 bytes, so
that the first block is cut back to the first message and the second one ends at the end of the
file, or without a zero where a restart cut it; three IDs leave room in the outbox for the
blocks of cancelled uploads beside the next one, and the broker may use the first of them too.  In `readers` four bits are two halves with a
parity bit each, which is what the library tells apart, and two cards are what it takes for what is
left of one to reach the other; only a wrong bit in a half is found by parity, so `ExpectedBits = 4`
stands for 34.  In `startup` all times are scaled down with the order of the real ones kept:
a connection takes less than `NetTimeout`, that with an NTP answer less than `AttemptsPerReset`, two
rounds of it `MaxAttempts`, and an outage of 12 ticks outlasts these; `MillisWrap` is small, so that
the timers wrap all the time.  In `logging` four messages for two places fill each ring buffer.

Properties that look alike are different questions.  `ServesInstalled` compares memory with disk
when nothing is going on; `ImplementsAtomicDB` says which changes are allowed at every step, in
restarts also.  `NothingMissed` is about a moment (nothing is on its way, so nothing may be
missing); `LastVersionSettles` about what happens in the end.  `DeniesWithReason` excuses a card
that was read while the database was being swapped, and so holds only where the statement in use
is the current one; `OpensOnlyAuthorized` excuses nothing.  `OnlyShownCards` says that what is
read was shown, `GoodCardsAreRead` that what is shown well is read, `EveryCardHasAnAnswer` that
somebody who shows a card hears something, also when it was not read.  `NoLogLost` says that no file goes
too early, `SentOrStuck` that every file goes, and that the one way not to is to wait for a confirmation
that will not be recognised, which `log_stuck` shows to be possible: there is no other one, no
file that is found over and over or block that is sent for ever.

What the properties except, each because TLC shows that the code does not do better:

| property | excepts | because |
|---|---|---|
| `NothingMissed`, `LastVersionSettles` | behaviours after a call to the disk or to SQLite failed (`faulted`) | the broker has been told that the message arrived, and the version is gone (section 6, `dl_force`) |
| `NoLogLost`, `SentOrStuck` | a file that once did not open, or that was deleted in the middle of `cancelUpload()` or after the broker gave the ID of one of our messages to one of its own (`excused`) | logmanager.cpp:517; 465-466; mqttmanager.cpp:286 |
| `InOrder`, `ReachesDisk` | messages that were under way while `initDiskLog()` ran (`raced`) | logmanager.cpp:761-783 |
| `DeniesWithReason` | cards read while the database was being swapped | authorizer.cpp:46, 112 |
| `GoodCardsAreRead` | a card on a line that was registered wrong (`stale`), or shown before the setup is over (`tooEarly`) | cardreader.cpp:200-201 |
| `EveryCardHasAnAnswer` | a card of which the object never got a bit (`seen`), one that another card replaced or that was forgotten while an earlier one was copied, one that was under way at the setup or when the cable was pulled (`cutOff`) | Wiegand.cpp:124, 268; cardreader.cpp:22-24, 226 |
| `BootsInOrder` | boots after NVS was erased or did not keep a count (`forgotten`), and those with count 0 | logmanager.cpp:229-235, 243-246, 268-285 |

## 4. Assumptions and fairness

Constants that name an assumption, and what TLC finds without it:

- `SlowHandshake` (`DBManager`, `DBDownload`): no slice arrives before `init()` is done.
  `initMqtt()` starts the MQTT task before `initDBMan()` is called (tramela.cpp:74-75); the TLS
  handshake takes longer than reading four small files, and nothing else orders the two.  Without
  it a slice may be written over the slot that `init()` is about to open, and
  `OpenFileUntouched` fails.
- `BeginForgets` (`Firmware`): `esp_ota_begin()` makes the partition it erases unbootable, as
  ESP-IDF does.  With a framework that does not, a restart in the middle of an update boots an
  image that is half old and was never tried, and `NotStranded` fails.
- `Faults` in `db_serves` are creating and writing the file.  With a marker file that cannot be
  written the code goes on in memory, and memory and disk differ until the next download.  In
  `dl_settles` everything may fail.

The constants of `LogUpload` and `Logging` are bounds and nothing else.

Without a constant: the new firmware starts pending verification, that is, the Arduino core does
not confirm it by itself (TODO.md of the controller has this as an open question);
`DISK.remove()` of a file that exists succeeds; a call with a finalized statement does not invent
a row; `xRingbufferSendComplete()` succeeds, as ESP-IDF's always does (its failure at
logmanager.cpp:185-188 is left out); `initDiskLog()` in the main task and `logWriter` are not in the middle
of `Logfile::log()` at once (`Logging` has it as one step), and what is written to `earlyMessages`
after it was deleted goes where it would have gone; tasks are scheduled whatever their priority; the main task is never kept from running for so
long that `openDoor()` takes more than 700 ms before its `delay()` (otherwise `700 - (millis() -
start)` is negative, unsigned, and the door stays open for weeks: doormanager.cpp:20).

In `CardReaders`: a card is shown, and a stray pulse comes, more than 25 ms after the last one is
over (`AtRest`); `initCardReaders()` is over before the lines have been quiet for 25 ms and before
anybody plugs a cable (`Steady`), but a card may be under way when it begins.  A card that is under way then, or
is shown before the first poll, is not promised anything (`tooEarly`).

In `Startup`, `StartupAssumption`: the network is fast enough, `ConnectTime <= NetTimeout` and
`ConnectTime + NtpTime < AttemptsPerReset`.  Without it `netReset()` cuts off every attempt and
`ComesUp` or `Reconnects` fail.  The NTP server answers when the network is there.  The checks of the
hardware clock come some time: READJUST_CLOCK_INTERVAL is left out.

Fairness.  Weak fairness of each task (`MainStep`, `CallbackStep`, `HandlerStep`, `checkDoor`,
`Producer`, `logWriter`, `Mqtt`): FreeRTOS schedules each, and every wait in them is bounded.  Weak
fairness of `Connect` and `DeliverNext` in `DBDownload`, and strong fairness of `Connect`,
`PublishedNext` and `LastSlice` in `LogUpload`: the client reconnects by itself and the broker
keeps a session and confirms what it gets; they are disabled by every lost connection, of which
there are finitely many.  In `CardReaders`, weak fairness of the reader, the handlers, the passing
of time and the main task, and strong fairness of `StartLoop`, for `setup()` waits two minutes at
most.  In `Startup`, weak fairness of the main task, which is also what makes time go by, of
`checkTimeSync` and of `NtpAnswer`.  In `LogUpload`, weak fairness of `RotateWhenQuiet`, the
logWriter's time-out after 10 s, and strong fairness of `rotate`: when there is nothing to send again and
again, MAX_IDLE_TIME passes some time.  In `Logging`, strong
fairness of `initDiskLog`: `setup()` comes to it between two messages of the main task.  No fairness of `Crash`,
`Disconnect`, `Publish`, of faults, or of any event that may never come.

## 5. The proofs

For every value of the constants that the modules' own assumptions allow, and under the
hypothesis in the last column:

| module | theorem | states | under |
|---|---|---|---|
| `DBManager` | `TypeCorrect` | `TypeOK`, whatever fails | |
| | `NoMixedFilesAlways` | `NoMixedFiles`, whatever fails | |
| | `ServesInstalledAlways`, `NoUsableSlotWastedAlways`, `OpenFileUntouchedAlways` | | `Gentle` |
| | `Atomic` | `Abstract!Spec`: `DBManager` implements `AtomicDB` | `Gentle` |
| `DBDownload` | `DLTypeCorrect` | `DLTypeOK`, whatever fails | |
| | `NothingMissedAlways` | `NothingMissed` | `Faultless` |
| `Access` | `AccessTypeCorrect`, `OpensOnlyAuthorizedAlways`, `DeniesWithReasonAlways` | | |
| `CardReaders` | `ReadersTypeCorrect` | `TypeOK`, for messages of any even length | |
| | `GoodCardsAreReadAlways`, `OnlyShownCardsAlways` | any cards, any number of faults | |
| `Startup` | `StartupTypeCorrect`, `BootsInOrderAlways` | any number of restarts and failures of NVS | |
| `LogUpload` | `UploadTypeCorrect`, `NoLogLostAlways` | any lines, IDs, files, downloads, lost connections, errors, restarts; whatever fails | |
| `TempBufs` | `ExclusiveAlways`, `NoLeakAlways`, `NeverBlocksAlways` | any tasks and number of buffers | |
| `Logging` | `BuffersInLogging` | the three above, as `venqueueLogMessage()` uses the buffers | |
| | `LoggingTypeCorrect` | `LoggingTypeOK`: no ring buffer and no file holds too much | |
| | `InOrderAlways` | `InOrder`, whatever is logged while `initDiskLog()` runs | |
| `Firmware` | `FirmwareTypeCorrect`, `TrialHasFallbackAlways`, `ConnectedIsConfirmedAlways`, `WholeImageWrittenAlways` | also without `BeginForgets` | |

The hypotheses.  Without `SlowHandshake` slices race with `init()`; with the other faults TLC finds
`ServesInstalled` violated (section 4).  That `NoUsableSlotWasted`, `OpenFileUntouched` and `NothingMissed` hold with all
faults, as `dl_settles` has it, is only model-checked.

- `Gentle` is `SlowHandshake /\ Faults \subseteq {"create", "write"}`.
- `Faultless` is `SlowHandshake /\ Faults = {}`, so that `faulted` stays false: each single fault makes
  a download fail that the broker has been told about, and `NothingMissed` says nothing from then on.

`LogUpload` itself assumes of the lines that each has text and fits into a block
(`LinesAssumption`): `venqueueLogMessage()` cuts a message at MAX_LOGMSG_SIZE, and a block is four
times that.

An invariant is seldom inductive as it stands; each proof rests on one that is.  TLC checked each of
them on the instance of a run before it was proved.  There is one lemma per action or group of actions.

*DBManager.*  The properties speak of the moments when no task is in the code, or about what a
marker will make of a restart.  `IInv` therefore says, for each place a
task may be at (`loc`) and each reason it may be there for (`why`), what the files and markers are:
`Exclusive` (one task is in the code), `FileInv` (a download writes to the other slot, slices of
one version), `DownloadInv` (while a download is written the current slot is the preferred one,
and the other is not valid; its preference is gone before it becomes valid), `SwapInv` and
`OpenInv` (the swap, for each of its three callers, and what is known of the file being opened or
deleted).  `AtHome` is what holds again when the task is done.
For `Atomic` every action is shown to be
a step of `AtomicDB` or to leave `Installed`, `Serving` and `Offered` alone; the interesting ones
are `WriteOtherValid`, `WritePreferred` and `TruncateOtherPreferred`, one of which, depending on
the slots, changes what a restart would choose.  `NoMixedFiles` has an invariant of its own,
`OrderInv`, since it holds also when slices race with `init()`: the file that is open for a download
holds slices up to the one last received (`UpTo`), or below the one that is being written (`Below`).

*DBDownload.*  `NothingMissed` relates three
things that only agree at rest, so it needs what they are on the way: `WholeInv` (the file being written
is exactly the slices that came, and from the marker to the swap it is whole) and `BrokerInv` (what the
broker retains is the last that it owes; when it owes nothing, that version is `Installed`).  The step
that matters is the end of a message, where `Installed` comes from the refinement of `AtomicDB`.

*Access.*  `OpensOnlyAuthorized` must survive a swap of the database between any two accesses of the
main task.  `DBInv`: at most the statement of the database opened last is live, and it is finalized
before another is opened; `AskInv`: a live statement is never asked with an earlier card bound, and
an answer comes from a database not older than the reading (`at`); `OpenInv`: who the door is open for
may enter (`MayEnter`).  `ReasonInv` is the same for a card that is denied: unless the database was
swapped, the statement, its binding and the card are those of this call.

*Wiegand and CardReaders: a good card is read.*  Two parts.  About the operators: with the parity bits that `Message` adds the
halves of a message have the parities that the library asks for (`EvenPrepend` and `OddAppend`, from
counting the ones), so that `flushData()` takes it and `Payload` is the card (`MessageFacts`); an edge
leaves the object what it was but for that line (`SetPinFacts`), a falling edge begins a bit
(`FallFacts`) and a rising one completes it (`RiseFacts`).  About the steps: `AgreeInv` says that the
object has each line as it is, or an interrupt is on its way, unless `initCardReaders()` registered it
wrong (`stale`); `CleanInv` says of a card none of whose edges came late that it was read, or that the
object has its first n bits and the next one is at one of four places (`Receives`).  What earlier
cards, stray pulses and cables have left in the object is gone by the first edge, which finds it
`quiet`: that is where `reset()` is needed.

*Wiegand and CardReaders: only cards that are shown.*  After a late handler or a stray pulse the object may
lack bits, have one of its own, or believe in an error that nobody made, and the invariant need not say
which: it counts.  `Coming` is the number of bits that the object has plus those it may still get before the
lines are quiet again: one for each pulse to come, one for a pulse of which it saw one edge only
(`Extra`), one for each line that `initCardReaders()` has still to register and may register wrong
(`ToRegister`).  `CountInv` says that they are too few for a message (`Exhausted`); or that the message
will be refused and there are not enough for another after it (`Spoilt`); or that they are exactly
the bits of the card being shown, of which one may be wrong (`ExactInv`).  That one is found out:
a message with one wrong bit has the wrong parity (`WrongBit`).  No edge gives the object more than
`Coming` allows (`EdgeKeeps`, `EdgeConnects`, `EdgeDisconnects`, `EdgeCompletes` for the operator, the
`Told...` lemmas for the steps), and a pause makes it count from zero.  `TypeOK` comes with it, as
what is left for the main task is a card because it is one that was shown.

*Startup.*  `TypeOK` is inductive but for the hardware clock, which `update()` sets from the system
time: `TimeIsSet` says that it is set by the time that `loop()` begins.  `Remainder` bounds what the
timers and clocks wrap to.  `BootsInOrder` speaks of the moment before messages go to the disk;
`CountInv` carries it there: unless NVS has forgotten a count, the one it has is never behind the
last boot that got to the disk, and is the one in memory.  A restart while the count is being
written may leave the old or the new one, which are both good.

*LogUpload.*  A file may go when every line of it is in a block that the broker has, but what is known of
a file under way is `seek`.  `ClaimInv` connects the two, for a file that is not excused (`Claimed`):
`Reaches(received, inTransit, seek)`, all lines before `seek` are in blocks that the broker has, when
the next block may be read (`Settled`); and with the block under way added, for each message whose
confirmation may be recognised (`Pending`).  That there is one such message at most is `ListInv`:
what is confirmed is found by its ID, so that it has to say which IDs of the client the list may still have,
and that while it has one the main task does not read.  It says so until the broker uses an ID of ours,
and while `cancelUpload()` and `resetMessageList()` are not half done.  Nothing is assumed of where in the list
an ID is: a write beyond its end, which `log_overflow` shows to happen, loses an ID and then only delays.
`TaskInv` says that the tasks go through their steps in order, `SeekInv` that blocks begin where lines do;
that they end there is a lemma about `CompleteLength`.

*TempBufs and Logging.*  Exclusive use and the absence of leaks follow from `Owned`.  `NeverBlocks` needs a
count: `Ranked` says that at most `Cardinality(Tasks) - k` tasks are at buffer k or beyond.  A
task that moves on from k leaves its owner behind, so the tasks beyond are fewer than those at
k or beyond; with no more tasks than buffers, the one that comes to the last buffer is alone there.
Every step of `Logging` is one of `TempBufs` or leaves its variables alone, which carries the three
over (`BuffersInLogging`).  `TaskInv` and `RingInv` say that a formatted message stays in its buffer
until it is in the ring buffer, that each item that is not complete belongs to the one task that is
sending it, and that the messages of a task follow each other in the ring buffer.  `InOrder` is about
what is on the disk followed by all that is still to come there.  `RaceInv` says that while
`initDiskLog()` runs everything under way is in `raced`, and that the writer saves for later, or writes
to the disk by itself, nothing but what belongs there or is in `raced`; `OrderInv` that the disk, the
message being drained, the early messages and the ring buffer follow each other, for each task and but
for messages in `raced` (`Aligned`).

*Firmware.*  `BootInv`, `ImageInv` and `TrialInv` are what a restart at any moment must find: the
bootloader chooses another partition only for an update that is about to restart, the one that runs is never
written to, the other one is not written to during a trial, and who is connected is confirmed.
`UpdateInv` ties the handle to the spare partition.  `WrittenInv` ties what has been received to what
is in it, unless a step has failed.

Only model-checked: liveness, since fairness and ENABLED are beyond the prover (`DatabaseGetsServed`,
`DownloadGetsServed`, `LastVersionSettles`, `SentOrStuck`, `ReachesDisk`, `KeepsPolling`,
`NotStranded`, `EveryCardHasAnAnswer`, `ComesUp`, `Reconnects`, `HardwareClockRight`), and the
counterexamples of the four runs of section 6.  Every safety property that a run checks is proved, under
the hypothesis that the table names for it.

## 6. Where the code does not do what it says

Four are runs whose property states what a sentence of the repository says, with the counterexample
of TLC.

- `log_stuck`.  The broker's confirmation comes before the main task has stored the ID or set
  `sendingMessage` (logmanager.cpp:560-563); nothing is uploaded until the connection is lost.
- `log_overflow`.  `rememberMessage()` reads `nextFreeID` and writes it back plus one, in the main task
  (mqttmanager.cpp:112), while the MQTT task puts the ID of a download at the same place and takes it away
  again: a place stays behind that nobody uses until the connection is lost, and after some downloads the
  array of five is written at index 5.  Nothing has to fail for it.
- `dl_force`.  The fresh copy of the database is not asked for.  When a swap fails and there is no other
  file "downloading a fresh file" is logged (dbmanager.cpp:168, 176), and `forceDBDownload()` returns at
  once because `downloading` is still `DB` (mqttmanager.cpp:190, 319-320).  Only for a file that came in
  a single event (lines 270-282), which never sets `downloading`, is it asked for, and may then fail again.
- `fw_ignored`.  After an update that failed, `downloading` stays true and the handle closed
  (firmwareOTA.cpp:129-139): the next image is dropped, every slice of it.

Three the models have, and the properties of section 3 except them; TLC violates the property when the
exception is taken out.

- A log file that cannot be opened has size 0, counts as sent and is deleted
  (logmanager.cpp:517-525), although CODE_OVERVIEW.md:92-96 sends one file at a time "to guarantee we
  never delete a file prematurely".  So is one whose last block was cancelled, if the main task comes
  between lines 465 and 466, and one whose block is taken for confirmed because a download has its ID.
- `initDiskLog()` and `logWriter` use `earlyMessages` and the log file at once (logmanager.cpp:761-783):
  messages under way then may be lost, or come to the disk out of order.
- The boot count is there "so that the server can order" messages whose time is not known
  (logmanager.cpp:39-42), and it begins again
  at 1 when NVS is erased, or stays the same when it cannot be written (lines 229-235, 268-285), below boots
  whose messages are on the disk.

Seen while modelling:

- `Logfile::rotate()` sets `shouldRotate`, which only `init()` resets, so that after one idle hour a
  new file is created every ten idle seconds (logmanager.cpp:685-686; `RotateWhenIdle` and
  `RotateWhenQuiet` have it).
- `currentMillis` is set once before `setup()` waits for the time, so that in this wait the readers
  are polled for cards but flushed once at most: a card that was not read has no error beep until
  `loop()` runs (tramela.cpp:32, 53-56, cardreader.cpp:235).
- A card whose every edge comes while the handlers cannot run, as during the erasure of flash, leaves no
  bit in the library: nothing is flushed, and whoever showed it hears nothing (Wiegand.cpp:124, 268).
- A pulse that comes between `digitalRead()` and `setPin0State()` in `initCardReaders()` leaves a line
  low in the library until its next pulse: the next card is not read (cardreader.cpp:200-201).
- `lastNetOK` is 0 when `loop()` begins, so that after a long `setup()` the first check that finds the
  controller offline resets the network at once, against "we only force a reconnection if we have been
  offline for a long time" (networkmanager.cpp:88-94).  `Startup` has it (`loop()` may begin at any `now`), and
  `Reconnects` holds all the same.
- READJUST_CLOCK_INTERVAL is "3 hours" in seconds, compared with milliseconds (timemanager.cpp:14, 111).
- The messages that `getBootcountFromNVS()` logs before it has the count are stamped BOOT#0
  (logmanager.cpp:225-246), so that they cannot be put in order: `BootsInOrder` is about those after it.

## 7. What is not modelled

`keys.h`, build files: data.  `initDisk()` mounts a file system and has no other state;
`formatSDCard()`, `wipeDBFiles()`, `wipeLogs()` and `connected()` have no caller.  SHA-256 of a card is a
function of the card.  Beeps, LEDs and the wording of messages are left out.  Of the Wiegand library,
what `begin(34, true)` makes unreachable: `end()`, `receivedBit()`, messages of any length, or of 4, 8
or 26 bits.  A hardware clock that runs but has a date before 2016 makes `getLocalTime()` fail until
NTP answers; `Startup` takes any date for good.  The server's parser of log messages is a proof of
concept of its own.  How a command is parsed is left open, as undefined behaviour decides it.  In
`Firmware` a firmware that connects in the two seconds between the decision of `seemsFaulty()` and its
rollback is rolled back although it was confirmed: the model has it, no property forbids it.  In
`Access` a door that is opened for a card and by a command is closed for both when the first is done.

## 8. Plan

Done, in this order: `DBManager` with `AtomicDB` (the database is what the controller is for),
`DBDownload`, `LogUpload`, `TempBufs` and `Logging`, `Access`, `Firmware`; the proofs of
`DBManager`, `DBDownload` and `TempBufs`; `Wiegand` and `CardReaders`; the messages and blocks of
`LogUpload`; `Startup` with its proofs; the relay and commands in `Access`; the safety invariants of
all modules proved.  Then the hypotheses of the proofs about `LogUpload` and `Logging` replaced by
what the models themselves know (`excused`, `raced`), and the claims about `forceDBDownload()` and
the list of IDs stated as the documents have them.

Next, proofs: that `Logging` and `LogUpload` implement an abstract log service, once there is one (below).

Models that could follow: a log service, "a message that was accepted reaches the broker once or more",
that `Logging` and `LogUpload` together implement; the server's parser.
