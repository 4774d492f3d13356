---------------------------- MODULE Firmware_proofs ----------------------------
(***************************************************************************)
(* Proofs about Firmware, for any images, any number of slices, and any    *)
(* number of lost connections, restarts and rollbacks.                     *)
(***************************************************************************)
EXTENDS Firmware, TLAPS

-----------------------------------------------------------------------------
(* The inductive invariant *)

Spare == Other(running)

\* s has an image that runs and connects.
Sound(s) == \E v \in Images \ (Faulty \cup Corrupt) : flash[s] = Whole(v)

\* What the bootloader has recorded: only an update that is about to restart has
\* another partition to boot from.
BootInv ==
  /\ state[running] \in {"valid", "pending"}
  /\ IF mqtt = "restart"
       THEN boot = Spare /\ state[Spare] = "new"
       ELSE boot = running /\ state[Spare] \in {"valid", "invalid"}

\* The partition that runs is not written to, and that of the firmware before it is
\* not written to as long as there is a trial.
ImageInv ==
  /\ Validates(running)
  /\ connected => Sound(running)
  /\ state[running] = "pending" => Sound(Spare) /\ state[Spare] = "valid"

\* Who is connected is confirmed, except while seemsOK() is at it.
TrialInv ==
  /\ mqtt # "idle" \/ message # NoMessage => connected
  /\ (fwOK \/ connected) /\ mqtt # "confirm" => state[running] = "valid"

\* An update writes to the spare partition, no more than it has received.
UpdateInv ==
  /\ handle # None => downloading /\ handle = Spare /\ target = Spare /\ message # NoMessage
  /\ mqtt \in {"setBoot", "restart"} => target = Spare /\ Validates(Spare)
  /\ mqtt \in {"confirm", "rollback", "setBoot", "restart"} => message = NoMessage
  /\ mqtt = "end" => message # NoMessage /\ message[2] = NumSlices
  /\ handle # None =>
       Len(flash[handle]) <= IF mqtt = "end" THEN NumSlices ELSE message[2] - 1

\* The first slices of an image.
Part(v, n) == [k \in 1..n |-> <<v, k>>]

\* Unless a step has failed, what has been received has been written.
WrittenInv ==
  ~failed =>
    /\ message = NoMessage /\ mqtt \notin {"setBoot", "restart"} => ~downloading
    /\ message # NoMessage =>
         IF mqtt # "end" /\ message[2] = 1
           THEN ~downloading
           ELSE /\ handle # None
                /\ flash[handle] = Part(message[1], IF mqtt = "end" THEN NumSlices ELSE message[2] - 1)

IInv == TypeOK /\ BootInv /\ ImageInv /\ TrialInv /\ UpdateInv /\ WrittenInv

-----------------------------------------------------------------------------
(* Slots and images *)

LEMMA OtherFacts ==
  /\ Other("app0") = "app1" /\ Other("app1") = "app0"
  /\ \A s \in Slot : Other(s) \in Slot /\ Other(s) # s /\ Other(Other(s)) = s
  /\ None \notin Slot
  BY DEF Other, Slot, None

LEMMA WholeFacts ==
  /\ \A v \in Images : Whole(v) \in Seq(Images \X (1..NumSlices)) /\ Len(Whole(v)) = NumSlices
  /\ \A v, w : Whole(v) = Whole(w) => v = w
  <1>1. NumSlices \in Nat \ {0}
    BY FirmwareAssumption
  <1>2. ASSUME NEW v \in Images
        PROVE  Whole(v) \in Seq(Images \X (1..NumSlices)) /\ Len(Whole(v)) = NumSlices
    BY <1>1 DEF Whole
  <1>3. ASSUME NEW v, NEW w, Whole(v) = Whole(w)
        PROVE  v = w
    <2>1. Whole(v)[1] = <<v, 1>> /\ Whole(w)[1] = <<w, 1>>
      BY <1>1 DEF Whole
    <2> QED
      BY <1>3, <2>1
  <1> QED
    BY <1>2, <1>3

LEMMA PartFacts ==
  /\ \A v : Append(<<>>, <<v, 1>>) = Part(v, 1)
  /\ \A v : Part(v, NumSlices) = Whole(v)
  /\ \A v : \A n \in Nat : Append(Part(v, n), <<v, n + 1>>) = Part(v, n + 1)
  <1>1. ASSUME NEW v
        PROVE  Append(<<>>, <<v, 1>>) = Part(v, 1)
    <2>1. Append(<<>>, <<v, 1>>) = [k \in 1..1 |-> <<v, 1>>]
      OBVIOUS
    <2>2. \A k \in 1..1 : <<v, k>> = <<v, 1>>
      OBVIOUS
    <2> QED
      BY <2>1, <2>2 DEF Part
  <1>2. \A v : Part(v, NumSlices) = Whole(v)
    BY DEF Part, Whole
  <1>3. ASSUME NEW v, NEW n \in Nat
        PROVE  Append(Part(v, n), <<v, n + 1>>) = Part(v, n + 1)
    <2> DEFINE longer == Append(Part(v, n), <<v, n + 1>>)
    <2>1. Part(v, n) \in Seq({v} \X Nat) /\ Len(Part(v, n)) = n
      BY DEF Part
    <2>2. longer = [k \in 1..(n + 1) |-> IF k <= n THEN Part(v, n)[k] ELSE <<v, n + 1>>]
      BY <2>1
    <2>3. \A k \in 1..(n + 1) : (IF k <= n THEN Part(v, n)[k] ELSE <<v, n + 1>>) = <<v, k>>
      BY DEF Part
    <2> QED
      BY <2>2, <2>3 DEF Part
  <1> QED
    BY <1>1, <1>2, <1>3

\* An image that validates and connects is sound.
LEMMA SoundImage ==
  ASSUME NEW s \in Slot, Validates(s), NEW v \in Images \ Faulty, flash[s] = Whole(v)
  PROVE  Sound(s)
  BY WholeFacts DEF Validates, Sound

LEMMA SoundValidates ==
  ASSUME NEW s \in Slot, Sound(s)
  PROVE  Validates(s)
  BY DEF Sound, Validates

-----------------------------------------------------------------------------
(* The bootloader *)

\* What state' is after a restart that chooses the partition c.
LEMMA RebootState ==
  ASSUME TypeOK, NEW states \in [Slot -> {"new", "pending", "valid", "invalid"}], Reboot(states),
         NEW c \in Slot, c = IF states[boot] \in {"pending", "invalid"} THEN Other(boot) ELSE boot
  PROVE  /\ running' = c /\ boot' = c
         /\ state' \in [Slot -> {"new", "pending", "valid", "invalid"}]
         /\ state'[c] = IF states[c] = "new" THEN "pending" ELSE states[c]
         /\ state'[Other(c)] = IF states[Other(c)] = "pending" THEN "invalid" ELSE states[Other(c)]
  <1>1. running' = c /\ boot' = c
    BY DEF Reboot
  <1>2. state' = [s \in Slot |->
                    CASE s = c /\ states[s] = "new" -> "pending"
                      [] s # c /\ states[s] = "pending" -> "invalid"
                      [] OTHER -> states[s]]
    BY DEF Reboot
  <1>3. ASSUME NEW s \in Slot
        PROVE  /\ state'[s] \in {"new", "pending", "valid", "invalid"}
               /\ s = c => state'[s] = IF states[s] = "new" THEN "pending" ELSE states[s]
               /\ s # c => state'[s] = IF states[s] = "pending" THEN "invalid" ELSE states[s]
    BY <1>2
  <1>4. state' \in [Slot -> {"new", "pending", "valid", "invalid"}]
    BY <1>2, <1>3
  <1> QED
    BY <1>1, <1>3, <1>4, OtherFacts

\* It is enough to know what is in the partition that is chosen, and what is recorded.
LEMMA RebootInv ==
  ASSUME TypeOK, NEW states \in [Slot -> {"new", "pending", "valid", "invalid"}], Reboot(states),
         NEW c \in Slot, c = IF states[boot] \in {"pending", "invalid"} THEN Other(boot) ELSE boot,
         Validates(c),
         \/ states[c] = "valid" /\ states[Other(c)] # "new"
         \/ states[c] = "new" /\ states[Other(c)] = "valid" /\ Sound(Other(c))
  PROVE  IInv'
  <1>1. /\ running' = c /\ boot' = c /\ flash' = flash
        /\ state' \in [Slot -> {"new", "pending", "valid", "invalid"}]
        /\ state'[c] = IF states[c] = "new" THEN "pending" ELSE states[c]
        /\ state'[Other(c)] = IF states[Other(c)] = "pending" THEN "invalid" ELSE states[Other(c)]
    BY RebootState DEF Reboot
  <1>2. /\ downloading' = FALSE /\ fwOK' = FALSE /\ handle' = None /\ target' = None
        /\ late' = FALSE /\ connected' = FALSE /\ message' = NoMessage
        /\ main' = "loop" /\ mqtt' = "idle" /\ failed' = FALSE
    BY DEF Reboot
  <1>3. TypeOK'
    BY <1>1, <1>2 DEF TypeOK
  <1>4. BootInv'
    BY <1>1, <1>2, OtherFacts DEF BootInv, Spare
  <1>5. ImageInv'
    BY <1>1, <1>2, OtherFacts DEF ImageInv, Spare, Validates, Sound
  <1>6. TrialInv' /\ UpdateInv' /\ WrittenInv'
    BY <1>2 DEF TrialInv, UpdateInv, WrittenInv
  <1> QED
    BY <1>3, <1>4, <1>5, <1>6 DEF IInv

\* A restart comes up with the firmware that runs, or with the one before it, or
\* tries the new one.
LEMMA RestartInv ==
  ASSUME IInv, Reboot(state)
  PROVE  IInv'
  <1> USE DEF IInv
  <1>1. /\ state \in [Slot -> {"new", "pending", "valid", "invalid"}]
        /\ running \in Slot /\ Spare \in Slot /\ Spare # running /\ Other(Spare) = running
    BY OtherFacts DEF TypeOK, Spare
  <1>2. CASE mqtt = "restart"
    <2>1. boot = Spare /\ state[Spare] = "new" /\ Validates(Spare)
      BY <1>2 DEF BootInv, UpdateInv
    <2>2. connected /\ state[running] = "valid" /\ Sound(running)
      BY <1>2 DEF TrialInv, ImageInv
    <2> QED
      BY <1>1, <2>1, <2>2, RebootInv
  <1>3. CASE mqtt # "restart" /\ state[running] = "valid"
    <2>1. boot = running /\ state[Spare] # "new" /\ Validates(running)
      BY <1>3 DEF BootInv, ImageInv
    <2> QED
      BY <1>1, <1>3, <2>1, RebootInv DEF Spare
  <1>4. CASE mqtt # "restart" /\ state[running] = "pending"
    <2>1. boot = running /\ state[Spare] = "valid" /\ Validates(Spare)
      BY <1>1, <1>4, SoundValidates DEF BootInv, ImageInv
    <2> QED
      BY <1>1, <1>4, <2>1, RebootInv DEF Spare
  <1> QED
    BY <1>2, <1>3, <1>4 DEF BootInv

LEMMA MarkInvalidInv ==
  ASSUME IInv, MarkInvalid
  PROVE  IInv'
  <1> USE DEF IInv
  <1> DEFINE states == [state EXCEPT ![boot] = "invalid"]
  <1>1. /\ state \in [Slot -> {"new", "pending", "valid", "invalid"}]
        /\ running \in Slot /\ boot \in Slot /\ Other(boot) \in Slot /\ Other(boot) # boot
        /\ Other(Other(boot)) = boot
    BY OtherFacts DEF TypeOK
  <1>2. Validates(Other(boot)) /\ state[Other(boot)] # "invalid" /\ Reboot(states)
    BY DEF MarkInvalid, Bootable
  <1>3. state[Other(boot)] = "valid"
    <2>1. CASE mqtt = "restart"
      BY <1>1, <2>1, OtherFacts DEF BootInv, Spare, TrialInv
    <2>2. CASE mqtt # "restart"
      BY <1>2, <2>2 DEF BootInv, Spare
    <2> QED
      BY <2>1, <2>2
  <1>4. /\ states \in [Slot -> {"new", "pending", "valid", "invalid"}]
        /\ states[boot] = "invalid" /\ states[Other(boot)] = "valid"
    BY <1>1, <1>3
  <1> HIDE DEF states
  <1> QED
    BY <1>1, <1>2, <1>4, RebootInv

-----------------------------------------------------------------------------
(* The watchdog, and the events of the MQTT client *)

LEMMA InvInit == Init => IInv
  <1> SUFFICES ASSUME Init PROVE IInv
    OBVIOUS
  <1>1. First \in Images \ (Faulty \cup Corrupt) /\ NumSlices \in Nat \ {0}
    BY FirmwareAssumption
  <1>2. flash["app0"] = Whole(First) /\ flash["app1"] = <<>>
    BY DEF Init, Slot
  <1>3. Sound("app0") /\ Validates("app0")
    BY <1>1, <1>2, SoundValidates DEF Sound, Slot
  <1>4. TypeOK
    <2>1. flash \in [Slot -> Seq(Images \X (1..NumSlices))] /\ \A s \in Slot : Len(flash[s]) <= NumSlices
      <3>1. <<>> \in Seq(Images \X (1..NumSlices)) /\ Len(<<>>) = 0
        OBVIOUS
      <3>2. Whole(First) \in Seq(Images \X (1..NumSlices)) /\ Len(Whole(First)) = NumSlices
        BY <1>1, WholeFacts
      <3>3. flash = [s \in Slot |-> IF s = "app0" THEN Whole(First) ELSE <<>>]
        BY DEF Init
      <3> QED
        BY <1>1, <3>1, <3>2, <3>3
    <2> QED
      BY <2>1 DEF Init, TypeOK, Slot, NoMessage
  <1> QED
    BY <1>3, <1>4, OtherFacts DEF Init, IInv, BootInv, ImageInv, TrialInv, UpdateInv, WrittenInv,
       Spare, Slot

LEMMA MainInv ==
  ASSUME IInv, watchdog \/ TenMinutes \/ forceRollback
  PROVE  IInv'
  <1> USE DEF IInv, TypeOK, BootInv, ImageInv, TrialInv, UpdateInv, WrittenInv, Spare, Validates,
              Sound, partitions, updater
  <1>1. CASE watchdog
    BY <1>1 DEF watchdog
  <1>2. CASE TenMinutes
    BY <1>2 DEF TenMinutes
  <1>3. CASE forceRollback
    BY <1>3 DEF forceRollback
  <1> QED
    BY <1>1, <1>2, <1>3

LEMMA RollbackInv ==
  ASSUME IInv, RollbackByMain \/ RollbackByMqtt
  PROVE  IInv'
  <1>1. CASE MarkInvalid
    BY <1>1, MarkInvalidInv
  <1>2. CASE \/ main = "rollback" /\ CannotRollBack /\ main' = "loop" /\ UNCHANGED mqtt
             \/ mqtt = "rollback" /\ CannotRollBack /\ mqtt' = "idle" /\ UNCHANGED main
    BY <1>2 DEF IInv, TypeOK, BootInv, ImageInv, TrialInv, UpdateInv, WrittenInv, Spare, Validates,
       Sound, partitions, updater, CannotRollBack
  <1> QED
    BY <1>1, <1>2 DEF RollbackByMain, RollbackByMqtt

LEMMA ConnectInv ==
  ASSUME IInv, Connect
  PROVE  IInv'
  <1>1. Sound(running)
    BY SoundImage DEF Connect, IInv, ImageInv, TypeOK
  <1> QED
    BY <1>1 DEF Connect, IInv, TypeOK, BootInv, ImageInv, TrialInv, UpdateInv, WrittenInv, Spare,
       Validates, Sound, partitions

LEMMA SeemsOKInv ==
  ASSUME IInv, seemsOK
  PROVE  IInv'
  <1> USE DEF IInv
  <1>1. boot = running /\ running \in Slot /\ Spare \in Slot /\ Spare # running
    BY OtherFacts DEF seemsOK, BootInv, TypeOK, Spare
  <1>2. state'[running] = "valid" /\ state'[Spare] = state[Spare]
    BY <1>1 DEF seemsOK, BootInv, TypeOK
  <1>3. state' \in [Slot -> {"new", "pending", "valid", "invalid"}]
    BY <1>1 DEF seemsOK, TypeOK
  <1> QED
    BY <1>1, <1>2, <1>3 DEF seemsOK, TypeOK, BootInv, ImageInv, TrialInv, UpdateInv, WrittenInv, Spare,
       Validates, Sound, updater

LEMMA DisconnectInv ==
  ASSUME IInv, Disconnect
  PROVE  IInv'
  BY DEF Disconnect, cancelDownload, IInv, TypeOK, BootInv, ImageInv, TrialInv, UpdateInv, WrittenInv,
     Spare, Validates, Sound, partitions

LEMMA PublishInv ==
  ASSUME IInv, NEW v \in Images, Publish(v)
  PROVE  IInv'
  <1>1. message' = <<v, 1>> /\ message' # NoMessage /\ message'[2] = 1
    BY DEF Publish, NoMessage
  <1>2. message' \in Images \X (1..NumSlices)
    BY <1>1, FirmwareAssumption
  <1> QED
    BY <1>1, <1>2 DEF Publish, IInv, TypeOK, BootInv, ImageInv, TrialInv, UpdateInv, WrittenInv, Spare,
       Validates, Sound, partitions, updater

-----------------------------------------------------------------------------
(* A slice of an image *)

\* What writeBinary() does to the partition it writes to, of what has been
\* received before.
LEMMA WriteFacts ==
  ASSUME IInv, Receive
  PROVE  /\ handle' \in {None, Spare} /\ target' \in Slot \cup {None}
         /\ {downloading', failed'} \subseteq BOOLEAN
         /\ handle' # None => downloading' /\ target' = Spare
         /\ state' \in [Slot -> {"new", "pending", "valid", "invalid"}]
         /\ state'[running] = state[running] /\ state'[Spare] \in {"valid", "invalid"}
         /\ flash' \in [Slot -> Seq(Images \X (1..NumSlices))]
         /\ flash'[running] = flash[running]
         /\ Len(flash'[Spare]) <= NumSlices
         /\ handle' # None => Len(flash'[Spare]) <= message[2]
         /\ ~failed' => handle' # None /\ flash'[Spare] = Part(message[1], message[2])
  <1> DEFINE v == message[1]
             n == message[2]
  <1>1. /\ message = <<v, n>> /\ v \in Images /\ n \in 1..NumSlices /\ NumSlices \in Nat \ {0}
        /\ n \in Nat /\ n - 1 \in Nat /\ n - 1 + 1 = n
    BY FirmwareAssumption DEF Receive, IInv, TypeOK, NoMessage
  <1>2. /\ running \in Slot /\ Spare \in Slot /\ Spare # running /\ Slot = {running, Spare}
        /\ None \notin Slot
    BY OtherFacts DEF IInv, TypeOK, Spare, Slot
  <1>3. mqtt = "idle" /\ message # NoMessage
    BY DEF Receive
  <1>4. state[running] = "valid" /\ state[Spare] \in {"valid", "invalid"}
    BY <1>3 DEF IInv, TrialInv, BootInv
  <1>5. ASSUME NEW contents \in Seq(Images \X (1..NumSlices)), Len(contents) <= n - 1,
               NEW open \in {None, Spare}, Write(open, contents)
        PROVE  /\ handle' \in {None, Spare}
               /\ handle' # None => open = Spare
               /\ flash' \in [Slot -> Seq(Images \X (1..NumSlices))]
               /\ flash'[running] = flash[running]
               /\ Len(flash'[Spare]) <= NumSlices
               /\ handle' # None => Len(flash'[Spare]) <= n
               /\ ~failed' => /\ handle' # None /\ ~failed
                              /\ flash'[Spare] = Append(contents, message)
               /\ failed' \in BOOLEAN
    <2>1. /\ Append(contents, message) \in Seq(Images \X (1..NumSlices))
          /\ Len(Append(contents, message)) = Len(contents) + 1
      BY <1>1, <1>5
    <2>2. flash \in [Slot -> Seq(Images \X (1..NumSlices))] /\ Len(flash[Spare]) <= NumSlices
      BY <1>2 DEF IInv, TypeOK
    <2>3. failed \in BOOLEAN
      BY DEF IInv, TypeOK
    <2>4. CASE /\ open # None
               /\ handle' = open
               /\ flash' = [flash EXCEPT ![open] = Append(contents, message)]
               /\ UNCHANGED failed
      BY <1>1, <1>2, <1>5, <2>1, <2>2, <2>3, <2>4
    <2>5. CASE /\ handle' = None
               /\ flash' = IF open = None THEN flash ELSE [flash EXCEPT ![open] = contents]
               /\ failed' = TRUE
      BY <1>1, <1>2, <1>5, <2>2, <2>5
    <2> QED
      BY <1>5, <2>4, <2>5 DEF Write
  <1>6. CASE CannotStart
    BY <1>2, <1>4, <1>6 DEF CannotStart, IInv, TypeOK, UpdateInv
  <1>7. CASE ~downloading /\ startOTAUpdate /\ Write(target', <<>>)
    <2>1. target' = Spare /\ downloading' = TRUE
      BY <1>7 DEF startOTAUpdate, Spare
    <2>2. /\ state' \in [Slot -> {"new", "pending", "valid", "invalid"}]
          /\ state'[running] = state[running] /\ state'[Spare] \in {"valid", "invalid"}
      BY <1>2, <1>4, <1>7 DEF startOTAUpdate, Spare, IInv, TypeOK
    <2> DEFINE contents == <<>>
    <2>3. contents \in Seq(Images \X (1..NumSlices)) /\ Len(contents) <= n - 1
      BY <1>1
    <2>4. ~failed => Append(contents, message) = Part(v, n)
      <3>1. ~failed => n = 1
        BY <1>3, <1>7 DEF IInv, WrittenInv, UpdateInv
      <3> QED
        BY <1>1, <3>1, PartFacts, Zenon
    <2>5. Write(Spare, contents) /\ Spare \in {None, Spare}
      BY <1>7, <2>1
    <2> HIDE DEF contents
    <2>6. /\ handle' \in {None, Spare}
          /\ flash' \in [Slot -> Seq(Images \X (1..NumSlices))]
          /\ flash'[running] = flash[running]
          /\ Len(flash'[Spare]) <= NumSlices
          /\ handle' # None => Len(flash'[Spare]) <= n
          /\ ~failed' => handle' # None /\ ~failed /\ flash'[Spare] = Append(contents, message)
          /\ failed' \in BOOLEAN
      BY <1>5, <2>3, <2>5, Zenon
    <2>7. downloading' /\ {downloading', failed'} \subseteq BOOLEAN
      BY <2>1, <2>6
    <2> QED
      BY <1>2, <2>1, <2>2, <2>4, <2>6, <2>7
  <1>8. CASE /\ downloading
             /\ Write(handle, IF handle = None THEN <<>> ELSE flash[handle])
             /\ UNCHANGED <<state, downloading, target>>
    <2> DEFINE contents == IF handle = None THEN <<>> ELSE flash[handle]
    <2>1. handle \in {None, Spare} /\ (handle # None => target = Spare /\ Len(flash[handle]) <= n - 1)
      BY <1>3 DEF IInv, UpdateInv
    <2>2. contents \in Seq(Images \X (1..NumSlices)) /\ Len(contents) <= n - 1
      BY <1>1, <1>2, <2>1 DEF IInv, TypeOK
    <2>3. ~failed => contents = Part(v, n - 1)
      BY <1>3, <1>8 DEF IInv, WrittenInv
    <2>4. Append(Part(v, n - 1), message) = Part(v, n)
      <3>1. Append(Part(v, n - 1), <<v, n - 1 + 1>>) = Part(v, n - 1 + 1)
        BY <1>1, PartFacts
      <3> QED
        BY <1>1, <3>1
    <2>5. /\ downloading' = downloading /\ target' = target /\ state' = state
          /\ downloading \in BOOLEAN /\ target \in Slot \cup {None}
          /\ state \in [Slot -> {"new", "pending", "valid", "invalid"}]
      BY <1>8 DEF IInv, TypeOK
    <2>6. Write(handle, contents)
      BY <1>8
    <2>7. handle \in {None, Spare}
      BY <2>1
    <2> HIDE DEF contents
    <2>8. /\ handle' \in {None, Spare}
          /\ handle' # None => handle = Spare
          /\ flash' \in [Slot -> Seq(Images \X (1..NumSlices))]
          /\ flash'[running] = flash[running]
          /\ Len(flash'[Spare]) <= NumSlices
          /\ handle' # None => Len(flash'[Spare]) <= n
          /\ ~failed' => handle' # None /\ ~failed /\ flash'[Spare] = Append(contents, message)
          /\ failed' \in BOOLEAN
      BY <1>5, <2>2, <2>6, <2>7, Zenon
    <2>9. ~failed => Append(contents, message) = Part(v, n)
      BY <2>3, <2>4, Zenon
    <2>10. downloading' /\ {downloading', failed'} \subseteq BOOLEAN
      <3>1. downloading' = TRUE
        BY <1>8 DEF IInv, TypeOK
      <3> QED
        BY <2>8, <3>1
    <2>11. target' \in Slot \cup {None} /\ (handle' # None => target' = Spare)
      BY <1>2, <2>1, <2>5, <2>8
    <2> QED
      BY <1>4, <2>5, <2>8, <2>9, <2>10, <2>11
  <1> QED
    BY <1>6, <1>7, <1>8 DEF Receive, writeBinary

LEMMA ReceiveInv ==
  ASSUME IInv, Receive
  PROVE  IInv'
  <1> DEFINE last == message[2] = NumSlices
  <1>1. /\ running \in Slot /\ Spare \in Slot /\ Spare # running /\ Slot = {running, Spare}
        /\ None \notin Slot
    BY OtherFacts DEF IInv, TypeOK, Spare, Slot
  <1>2. /\ mqtt = "idle" /\ message # NoMessage /\ connected
        /\ state[running] = "valid" /\ boot = running
    BY DEF Receive, IInv, TrialInv, BootInv
  <1>3. /\ boot' = boot /\ running' = running /\ fwOK' = fwOK /\ late' = late
        /\ connected' = connected /\ main' = main /\ Spare' = Spare
    BY DEF Receive, Spare
  <1>4. /\ message \in Images \X (1..NumSlices) /\ message[2] \in 1..NumSlices
        /\ NumSlices \in Nat \ {0}
    BY <1>2, FirmwareAssumption DEF IInv, TypeOK
  <1>5. /\ last => mqtt' = "end" /\ message' = message
        /\ ~last => mqtt' = "idle" /\ message' = <<message[1], message[2] + 1>>
    BY <1>2 DEF Receive
  <1>6. /\ message' \in Images \X (1..NumSlices) /\ message' # NoMessage
        /\ message'[1] = message[1]
        /\ message[2] = IF mqtt' = "end" THEN NumSlices ELSE message'[2] - 1
        /\ mqtt' = "end" => message'[2] = NumSlices
        /\ mqtt' = "idle" => message'[2] # 1
        /\ mqtt' \in {"idle", "end"}
    BY <1>4, <1>5 DEF NoMessage
  <1>7. TypeOK'
    BY <1>1, <1>3, <1>6, WriteFacts DEF IInv, TypeOK
  <1>8. BootInv'
    BY <1>2, <1>3, <1>6, WriteFacts DEF BootInv
  <1>9. ImageInv'
    BY <1>2, <1>3, WriteFacts DEF IInv, ImageInv, Validates, Sound
  <1>10. TrialInv'
    BY <1>2, <1>3, WriteFacts DEF TrialInv
  <1>11. UpdateInv'
    BY <1>3, <1>6, WriteFacts DEF UpdateInv
  <1>12. WrittenInv'
    BY <1>3, <1>6, WriteFacts DEF WrittenInv
  <1> QED
    BY <1>7, <1>8, <1>9, <1>10, <1>11, <1>12 DEF IInv

LEMMA EndUpdateInv ==
  ASSUME IInv, EndUpdate
  PROVE  IInv'
  <1>1. handle # None /\ Validates(handle) => target = Spare /\ Validates(Spare)
    BY DEF IInv, UpdateInv
  <1> QED
    BY <1>1 DEF EndUpdate, IInv, TypeOK, BootInv, ImageInv, TrialInv, UpdateInv, WrittenInv, Spare,
       Validates, Sound, partitions

LEMMA SetBootInv ==
  ASSUME IInv, SetBoot
  PROVE  IInv'
  <1> USE DEF IInv
  <1>1. /\ running \in Slot /\ Spare \in Slot /\ Spare # running
        /\ target = Spare /\ message = NoMessage /\ handle = None
    BY OtherFacts DEF SetBoot, TypeOK, UpdateInv, Spare
  <1>2. connected /\ state[running] = "valid"
    BY DEF SetBoot, TrialInv
  <1>3. CASE /\ boot' = target
             /\ state' = [state EXCEPT ![target] = "new"]
             /\ mqtt' = "restart"
             /\ UNCHANGED failed
    <2>1. /\ state' \in [Slot -> {"new", "pending", "valid", "invalid"}]
          /\ state'[Spare] = "new" /\ state'[running] = "valid"
      BY <1>1, <1>2, <1>3 DEF TypeOK
    <2>2. mqtt = "setBoot" /\ UNCHANGED <<flash, running, updater, late, connected, message, main>>
      BY DEF SetBoot
    <2> QED
      BY <1>1, <1>2, <1>3, <2>1, <2>2 DEF TypeOK, BootInv, ImageInv, TrialInv, UpdateInv, WrittenInv,
         Spare, Validates, Sound, updater
  <1>4. CASE mqtt' = "idle" /\ failed' = TRUE /\ UNCHANGED <<boot, state>>
    BY <1>1, <1>2, <1>4 DEF SetBoot, TypeOK, BootInv, ImageInv, TrialInv, UpdateInv, WrittenInv,
       Spare, Validates, Sound, updater
  <1> QED
    BY <1>3, <1>4 DEF SetBoot

-----------------------------------------------------------------------------
LEMMA InvNext ==
  ASSUME IInv, [Next]_vars
  PROVE  IInv'
  <1>1. CASE watchdog \/ TenMinutes \/ forceRollback
    BY <1>1, MainInv
  <1>2. CASE RollbackByMain \/ RollbackByMqtt
    BY <1>2, RollbackInv
  <1>3. CASE Restart \/ RestartUpdated
    BY <1>3, RestartInv DEF Restart, RestartUpdated
  <1>4. CASE Connect \/ seemsOK \/ Disconnect \/ \E v \in Images : Publish(v)
    BY <1>4, ConnectInv, SeemsOKInv, DisconnectInv, PublishInv
  <1>5. CASE Receive \/ EndUpdate \/ SetBoot
    BY <1>5, ReceiveInv, EndUpdateInv, SetBootInv
  <1>6. CASE UNCHANGED vars
    BY <1>6 DEF vars, partitions, updater, IInv, TypeOK, BootInv, ImageInv, TrialInv, UpdateInv,
       WrittenInv, Spare, Validates, Sound
  <1> QED
    BY <1>1, <1>2, <1>3, <1>4, <1>5, <1>6 DEF Next, Main, Mqtt, processOTAUpdate

LEMMA InvAlways == Spec => []IInv
  BY InvInit, InvNext, PTL DEF Spec

\* The partitions, and where the tasks are, stay what the types say: an update
\* never writes more than an image has.
THEOREM FirmwareTypeCorrect == Spec => []TypeOK
  <1>1. IInv => TypeOK
    BY DEF IInv
  <1> QED
    BY <1>1, InvAlways, PTL

\* As long as a firmware is on trial the bootloader has one to go back to that did
\* connect, whatever is published, cut off, rolled back or restarted, and also if
\* esp_ota_begin() did not drop the state of the partition (firmwareOTA.cpp:22-24).
THEOREM TrialHasFallbackAlways == Spec => []TrialHasFallback
  <1>1. ASSUME IInv, state[boot] \in {"new", "pending"}
        PROVE  Sound(Other(boot)) /\ state[Other(boot)] = "valid"
    <2>1. running \in Slot /\ Other(Spare) = running
      BY <1>1, OtherFacts DEF IInv, TypeOK, Spare
    <2>2. CASE mqtt = "restart"
      BY <1>1, <2>1, <2>2 DEF IInv, BootInv, ImageInv, TrialInv
    <2>3. CASE mqtt # "restart"
      BY <1>1, <2>3 DEF IInv, BootInv, ImageInv, Spare
    <2> QED
      BY <2>2, <2>3
  <1>2. IInv => TrialHasFallback
    BY <1>1 DEF TrialHasFallback, Sound
  <1> QED
    BY <1>2, InvAlways, PTL

\* A firmware that is connected to the broker is confirmed, however the watchdog and
\* the connection race (firmwareOTA.cpp:34-36).
THEOREM ConnectedIsConfirmedAlways == Spec => []ConnectedIsConfirmed
  <1>1. IInv => ConnectedIsConfirmed
    BY DEF IInv, TrialInv, ConnectedIsConfirmed
  <1> QED
    BY <1>1, InvAlways, PTL

\* An image is whole when it has been received, unless a step of its download failed,
\* whatever was downloaded and given up before.
THEOREM WholeImageWrittenAlways == Spec => []WholeImageWritten
  <1>1. IInv => WholeImageWritten
    BY PartFacts DEF IInv, UpdateInv, WrittenInv, WholeImageWritten
  <1> QED
    BY <1>1, InvAlways, PTL
================================================================================
