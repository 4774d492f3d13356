-------------------------------- MODULE Firmware --------------------------------
(***************************************************************************)
(* The update of the firmware over MQTT (FirmwareUpdater of                *)
(* firmwareOTA.cpp) and what decides whether the new firmware stays:       *)
(* firmwareOKWatchdog(), which the main task calls from loop(), and        *)
(* currentFirmwareSeemsOK(), which the MQTT task calls once it is          *)
(* connected (mqttmanager.cpp).                                            *)
(*                                                                         *)
(* The bootloader and the OTA functions of ESP-IDF are external.  There    *)
(* are two partitions for firmware.  The one to boot from is recorded      *)
(* together with a state for each: a new image is booted once, pending     *)
(* verification, and if nothing marked it valid the bootloader goes back   *)
(* to the other partition at the next restart.                             *)
(***************************************************************************)
EXTENDS Naturals, Sequences

CONSTANTS Images,         \* firmware images that may be published
          First,          \* the image the controller is delivered with
          Corrupt,        \* images that fail the validation
          Faulty,         \* images that run, but never connect to the broker
          NumSlices,      \* MQTT events that one image is split into
          Faults,         \* the OTA functions that may fail: "begin", "write", "boot"
          MaxPublish,     \* bound on the images published
          MaxDisconnects, \* bound on the connections lost
          MaxRestarts,    \* bound on the restarts that the code did not ask for
          MaxRollbacks,   \* bound on the rollbacks that somebody asks for
          BeginForgets    \* esp_ota_begin() drops the state of the partition

ASSUME FirmwareAssumption ==
  /\ First \in Images \ (Corrupt \cup Faulty)
  /\ Corrupt \cup Faulty \subseteq Images
  /\ NumSlices \in Nat \ {0} /\ Faults \subseteq {"begin", "write", "boot"}
  /\ {MaxPublish, MaxDisconnects, MaxRestarts, MaxRollbacks} \subseteq Nat
  /\ BeginForgets \in BOOLEAN

Slot == {"app0", "app1"}
Other(s) == CHOOSE t \in Slot : t # s
None == "none"

Whole(v) == [k \in 1..NumSlices |-> <<v, k>>]
NoMessage == <<>>

VARIABLES
  flash,       \* flash[s]: the slices in partition s
  state,       \* state[s]: of the image in s
  boot,        \* the partition to boot from
  running,     \* the partition that runs
  downloading, \* FirmwareUpdater::downloading
  fwOK,        \* FirmwareUpdater::fwOK
  handle,      \* the partition that update_handle is open for, or None
  target,      \* update_partition, or None
  late,        \* ten minutes have passed since boot
  connected,   \* MqttManager::connected
  message,     \* the image being received and its next slice, or NoMessage
  main,        \* where the main task is
  mqtt,        \* where the MQTT task is
  failed,      \* a step of an update failed since downloading was last reset (history)
  published, disconnects, restarts, rollbacks

partitions == <<flash, state, boot>>
updater == <<downloading, fwOK, handle, target>>
counters == <<published, disconnects, restarts, rollbacks>>
vars == <<partitions, running, updater, late, connected, message, main, mqtt, failed, counters>>

Init ==
  /\ flash = [s \in Slot |-> IF s = "app0" THEN Whole(First) ELSE <<>>]
  /\ state = [s \in Slot |-> IF s = "app0" THEN "valid" ELSE "invalid"]
  /\ boot = "app0" /\ running = "app0"
  /\ downloading = FALSE /\ fwOK = FALSE /\ handle = None /\ target = None
  /\ late = FALSE
  /\ connected = FALSE /\ message = NoMessage
  /\ main = "loop" /\ mqtt = "idle"
  /\ failed = FALSE
  /\ published = 0 /\ disconnects = 0 /\ restarts = 0 /\ rollbacks = 0

Validates(s) == \E v \in Images \ Corrupt : flash[s] = Whole(v)
Bootable(s) == Validates(s) /\ state[s] # "invalid"

-----------------------------------------------------------------------------
(* The bootloader, and the members as they are after it *)

Reboot(states) ==
  LET chosen == IF states[boot] \in {"pending", "invalid"} THEN Other(boot) ELSE boot IN
  /\ running' = chosen /\ boot' = chosen
  /\ state' = [s \in Slot |->
                 CASE s = chosen /\ states[s] = "new" -> "pending"
                   [] s # chosen /\ states[s] = "pending" -> "invalid"
                   [] OTHER -> states[s]]
  /\ downloading' = FALSE /\ fwOK' = FALSE /\ handle' = None /\ target' = None
  /\ late' = FALSE
  /\ connected' = FALSE /\ message' = NoMessage
  /\ main' = "loop" /\ mqtt' = "idle"
  /\ failed' = FALSE
  /\ UNCHANGED flash

Restart ==
  /\ restarts < MaxRestarts
  /\ restarts' = restarts + 1
  /\ Reboot(state)
  /\ UNCHANGED <<published, disconnects, rollbacks>>

-----------------------------------------------------------------------------
(* The watchdog, in the main task *)

TenMinutes ==
  /\ ~late
  /\ late' = TRUE
  /\ UNCHANGED <<partitions, running, updater, connected, message, main, mqtt, failed, counters>>

\* Mutant: it gives the firmware up for good, but does not roll it back.
watchdog_GivesUp ==
  /\ main = "loop" /\ ~fwOK /\ late
  /\ fwOK' = TRUE
  /\ UNCHANGED <<partitions, running, downloading, handle, target, late, connected, message, main,
                 mqtt, failed, counters>>

\* watchdog() and seemsFaulty(), which logs and waits for 2 s before the rollback.
watchdog ==
  /\ main = "loop" /\ ~fwOK /\ late
  /\ IF state[running] = "pending"
       THEN main' = "rollback" /\ UNCHANGED fwOK
       ELSE fwOK' = TRUE /\ UNCHANGED main
  /\ UNCHANGED <<partitions, running, downloading, handle, target, late, connected, message, mqtt,
                 failed, counters>>

\* A rollback card, or the command fwRollback.
forceRollback ==
  /\ rollbacks < MaxRollbacks
  /\ rollbacks' = rollbacks + 1
  /\ \/ main = "loop" /\ main' = "rollback" /\ UNCHANGED mqtt
     \/ mqtt = "idle" /\ connected /\ message = NoMessage /\ mqtt' = "rollback" /\ UNCHANGED main
  /\ UNCHANGED <<partitions, running, updater, late, connected, message, failed, published,
                 disconnects, restarts>>

\* esp_ota_mark_app_invalid_rollback_and_reboot() returns if there is no other
\* image to go back to.
MarkInvalid ==
  /\ Bootable(Other(boot))
  /\ Reboot([state EXCEPT ![boot] = "invalid"])
  /\ UNCHANGED counters

CannotRollBack ==
  /\ ~Bootable(Other(boot))
  /\ UNCHANGED <<partitions, running, updater, late, connected, message, failed, counters>>

RollbackByMain ==
  main = "rollback" /\ (MarkInvalid \/ (CannotRollBack /\ main' = "loop" /\ UNCHANGED mqtt))

RollbackByMqtt ==
  mqtt = "rollback" /\ (MarkInvalid \/ (CannotRollBack /\ mqtt' = "idle" /\ UNCHANGED main))

-----------------------------------------------------------------------------
(* Events of the MQTT client *)

\* Mutant: the firmware is not confirmed.
Connect_NotConfirmed ==
  /\ mqtt = "idle" /\ ~connected
  /\ \E v \in Images \ Faulty : flash[running] = Whole(v)
  /\ connected' = TRUE /\ fwOK' = TRUE
  /\ UNCHANGED <<partitions, running, downloading, handle, target, late, message, main, mqtt,
                 failed, counters>>

\* MQTT_EVENT_CONNECTED, and the first half of seemsOK().
Connect ==
  /\ mqtt = "idle" /\ ~connected
  /\ \E v \in Images \ Faulty : flash[running] = Whole(v)
  /\ connected' = TRUE
  /\ fwOK' = TRUE
  /\ mqtt' = IF fwOK THEN "idle" ELSE "confirm"
  /\ UNCHANGED <<partitions, running, downloading, handle, target, late, message, main, failed,
                 counters>>

seemsOK ==
  /\ mqtt = "confirm"
  /\ mqtt' = "idle"
  /\ state' = [state EXCEPT ![boot] = IF state[running] = "pending" THEN "valid" ELSE @]
  /\ UNCHANGED <<flash, boot, running, updater, late, connected, message, main, failed, counters>>

\* Mutant: the download goes on with the next image.
cancelDownload_Not ==
  /\ failed' = FALSE
  /\ UNCHANGED updater

cancelDownload ==
  /\ downloading' = FALSE
  /\ handle' = None
  /\ failed' = FALSE
  /\ UNCHANGED <<fwOK, target>>

\* MQTT_EVENT_DISCONNECTED, or MQTT_EVENT_ERROR, which cancels the same and leaves
\* connected alone.  The rest of the message is not sent again.
Disconnect ==
  /\ mqtt = "idle" /\ connected
  /\ disconnects < MaxDisconnects
  /\ disconnects' = disconnects + 1
  /\ connected' \in BOOLEAN
  /\ message' = NoMessage
  /\ cancelDownload
  /\ UNCHANGED <<partitions, running, late, main, mqtt, published, restarts, rollbacks>>

\* An image is published with QoS 0 and not retained: only who is connected gets it.
Publish(v) ==
  /\ mqtt = "idle" /\ connected /\ message = NoMessage
  /\ published < MaxPublish
  /\ published' = published + 1
  /\ message' = <<v, 1>>
  /\ UNCHANGED <<partitions, running, updater, late, connected, main, mqtt, failed, disconnects,
                 restarts, rollbacks>>

\* The update fails to start, and will be tried again with the next slice.
CannotStart ==
  /\ ~downloading /\ "begin" \in Faults
  /\ failed' = TRUE
  /\ UNCHANGED <<flash, state, downloading, handle, target>>

\* It erases the partition that does not run.
startOTAUpdate ==
  LET s == Other(running) IN
  /\ downloading' = TRUE
  /\ target' = s
  /\ state' = [state EXCEPT ![s] = IF BeginForgets THEN "invalid" ELSE @]

\* esp_ota_write() fails, always so with a handle that is not open, and the
\* update is aborted.
Write(open, contents) ==
  \/ /\ open # None
     /\ handle' = open
     /\ flash' = [flash EXCEPT ![open] = Append(contents, message)]
     /\ UNCHANGED failed
  \/ /\ open = None \/ "write" \in Faults
     /\ handle' = None
     /\ flash' = IF open = None THEN flash ELSE [flash EXCEPT ![open] = contents]
     /\ failed' = TRUE

\* Mutant: a new update is written after what the last one left.
writeBinary_NotErased ==
  \/ CannotStart
  \/ ~downloading /\ startOTAUpdate /\ Write(target', flash[target'])
  \/ /\ downloading
     /\ Write(handle, IF handle = None THEN <<>> ELSE flash[handle])
     /\ UNCHANGED <<state, downloading, target>>

writeBinary ==
  \/ CannotStart
  \/ ~downloading /\ startOTAUpdate /\ Write(target', <<>>)
  \/ /\ downloading
     /\ Write(handle, IF handle = None THEN <<>> ELSE flash[handle])
     /\ UNCHANGED <<state, downloading, target>>

\* MQTT_EVENT_DATA
Receive ==
  /\ mqtt = "idle" /\ message # NoMessage
  /\ writeBinary
  /\ IF message[2] = NumSlices
       THEN mqtt' = "end" /\ UNCHANGED message
       ELSE message' = <<message[1], message[2] + 1>> /\ UNCHANGED mqtt
  /\ UNCHANGED <<boot, running, fwOK, late, connected, main, counters>>

\* processOTAUpdate() in three steps: esp_ota_end(), which closes the handle in
\* any case, esp_ota_set_boot_partition(), and esp_restart() after 2 s.
EndUpdate ==
  /\ mqtt = "end"
  /\ message' = NoMessage
  /\ handle' = None
  /\ IF handle # None /\ Validates(handle)
       THEN mqtt' = "setBoot" /\ UNCHANGED failed
       ELSE mqtt' = "idle" /\ failed' = TRUE
  /\ UNCHANGED <<partitions, running, downloading, fwOK, target, late, connected, main, counters>>

SetBoot ==
  /\ mqtt = "setBoot"
  /\ \/ /\ boot' = target
        /\ state' = [state EXCEPT ![target] = "new"]
        /\ mqtt' = "restart"
        /\ UNCHANGED failed
     \/ /\ "boot" \in Faults
        /\ mqtt' = "idle"
        /\ failed' = TRUE
        /\ UNCHANGED <<boot, state>>
  /\ UNCHANGED <<flash, running, updater, late, connected, message, main, counters>>

RestartUpdated ==
  /\ mqtt = "restart"
  /\ Reboot(state)
  /\ UNCHANGED counters

processOTAUpdate == EndUpdate \/ SetBoot \/ RestartUpdated

-----------------------------------------------------------------------------
Main == watchdog \/ RollbackByMain

Mqtt == seemsOK \/ Receive \/ processOTAUpdate \/ RollbackByMqtt

Next ==
  \/ Main \/ Mqtt
  \/ TenMinutes \/ forceRollback \/ Connect \/ Disconnect \/ Restart
  \/ \E v \in Images : Publish(v)

Spec == Init /\ [][Next]_vars

\* Both tasks are scheduled, time passes, and slices keep coming.
FairSpec == Spec /\ WF_vars(Main) /\ WF_vars(Mqtt) /\ WF_vars(TenMinutes)

-----------------------------------------------------------------------------
TypeOK ==
  /\ flash \in [Slot -> Seq(Images \X (1..NumSlices))]
  /\ \A s \in Slot : Len(flash[s]) <= NumSlices \* esp_ota_write() stays in the partition
  /\ state \in [Slot -> {"new", "pending", "valid", "invalid"}]
  /\ {boot, running} \subseteq Slot /\ {handle, target} \subseteq Slot \cup {None}
  /\ {downloading, fwOK, late, connected, failed} \subseteq BOOLEAN
  /\ message \in {NoMessage} \cup (Images \X (1..NumSlices))
  /\ main \in {"loop", "rollback"}
  /\ mqtt \in {"idle", "confirm", "rollback", "end", "setBoot", "restart"}

\* firmwareOTA.cpp:22-24: as long as a firmware is on trial there is another one
\* to roll back to, which did connect to the broker.
TrialHasFallback ==
  state[boot] \in {"new", "pending"} =>
    \E v \in Images \ (Faulty \cup Corrupt) :
      flash[Other(boot)] = Whole(v) /\ state[Other(boot)] = "valid"

\* firmwareOTA.cpp:34-36: a firmware that is connected to the broker is not on
\* trial any more.
ConnectedIsConfirmed == connected /\ mqtt = "idle" => state[running] # "pending"

\* What was downloaded before and was given up does not end up in the image of a
\* later download: unless a step of it failed, that image is written whole.
WholeImageWritten ==
  mqtt = "end" /\ ~failed => handle # None /\ flash[handle] = Whole(message[1])

\* README.md:23-24: "the server may instruct the door controller to update the
\* authorization DB, update the firmware code".  A sound image that is received
\* whole, with no failure on the way, is there to be booted.
EveryUpdateTried ==
  mqtt = "end" /\ message[1] \notin Corrupt =>
    handle # None /\ flash[handle] = Whole(message[1])

\* firmwareOTA.cpp:22-32: the controller never stays with a firmware that cannot
\* connect.
NotStranded == []<>(\E v \in Images \ Faulty : flash[running] = Whole(v))
=================================================================================
