---------------------------- MODULE Startup_proofs ----------------------------
(***************************************************************************)
(* The boots can be put in order by their count as long as NVS keeps it,   *)
(* for every value of the constants of Startup: however often the          *)
(* controller restarts, by itself or not, and however often a count cannot *)
(* be read.                                                                *)
(***************************************************************************)
EXTENDS Startup, TLAPS

Counts ==
  /\ main \in {"count", "clock", "disk", "wait", "loop"}
  /\ stored \in Nat /\ bootcount \in Nat /\ lastStamp \in Nat
  /\ forgotten \in BOOLEAN

\* As long as NVS has kept every count, it is never behind a boot that got to the
\* disk, and ahead of all of them from the time a boot is counted to the time it
\* gets there.
CountInv ==
  /\ Counts
  /\ forgotten \/ lastStamp <= stored
  /\ forgotten \/ main = "count" \/ bootcount \in {0, stored}
  /\ forgotten \/ main \notin {"clock", "disk"} \/ bootcount = 0 \/ lastStamp < bootcount

LEMMA CountInit == Init => CountInv
<1> SUFFICES ASSUME Init PROVE CountInv
  OBVIOUS
<1>1. forgotten \in BOOLEAN
  BY Zenon DEF Init
<1>2. main = "count" /\ stored = 0 /\ bootcount = 0 /\ lastStamp = 0
  BY DEF Init
<1> QED
  BY <1>1, <1>2 DEF CountInv, Counts

\* A restart keeps what is on the disk and in NVS, where the count that was being
\* written may have come or not.
LEMMA RestartKeepsCount ==
  ASSUME CountInv, NEW time, Restart(time), stored' \in {stored, stored + 1}
  PROVE  CountInv'
BY DEF CountInv, Counts, Restart

LEMMA CountNext == CountInv /\ [Next]_vars => CountInv'
<1> SUFFICES ASSUME CountInv, [Next]_vars PROVE CountInv'
  OBVIOUS
<1>1. CASE getBootcountFromNVS
  <2>1. main' = "clock" /\ UNCHANGED lastStamp
    BY <1>1 DEF getBootcountFromNVS
  <2>2. CASE bootcount' = NextCount /\ stored' = NextCount /\ UNCHANGED forgotten
    BY <2>1, <2>2 DEF NextCount, CountInv, Counts
  <2>3. CASE bootcount' = 0 /\ UNCHANGED <<stored, forgotten>>
    BY <2>1, <2>3 DEF CountInv, Counts
  <2>4. CASE bootcount' \in Nat /\ stored' \in Nat /\ forgotten' = TRUE
    <3>1. forgotten' /\ forgotten' \in BOOLEAN
      BY <2>4, Zenon
    <3>2. main' \in {"count", "clock", "disk", "wait", "loop"} /\ lastStamp' \in Nat
      BY <2>1 DEF CountInv, Counts
    <3> QED
      BY <2>4, <3>1, <3>2, Zenon DEF CountInv, Counts
  <2> QED
    <3>1. NextCount \in Nat /\ stored \in Nat /\ 1 \in Nat
      BY DEF NextCount, CountInv, Counts
    <3> QED
      BY <1>1, <2>2, <2>3, <2>4, <3>1, Zenon DEF getBootcountFromNVS, CountBoot
<1>2. CASE initTimeOffline
  BY <1>2 DEF initTimeOffline, nvs, CountInv, Counts
<1>3. CASE initDisk
  <2>1. lastStamp' \in {lastStamp, bootcount} /\ main' = "wait" /\ UNCHANGED <<stored, bootcount, forgotten>>
    BY <1>3 DEF initDisk
  <2>2. stored \in Nat /\ bootcount \in Nat /\ lastStamp' \in Nat /\ forgotten' \in BOOLEAN
    BY <2>1 DEF CountInv, Counts
  <2>3. main = "disk"
    BY <1>3 DEF initDisk
  <2>4. CASE forgotten'
    BY <2>1, <2>2, <2>4, Zenon DEF CountInv, Counts
  <2>5. CASE ~forgotten'
    <3>1. lastStamp <= stored /\ bootcount \in {0, stored}
      BY <2>1, <2>3, <2>5, Zenon DEF CountInv
    <3>2. lastStamp' <= stored'
      BY <2>1, <2>2, <3>1
    <3> QED
      BY <2>1, <2>2, <3>1, <3>2, Zenon DEF CountInv, Counts
  <2> QED
    BY <2>4, <2>5
<1>4. CASE initTime
  BY <1>4 DEF initTime, nvs, CountInv, Counts
<1>5. CASE WaitForTime
  <2>1. CASE main' = main /\ UNCHANGED nvs
    BY <2>1 DEF nvs, CountInv, Counts
  <2>2. CASE Restart(systemTime) /\ UNCHANGED <<stored, crashes>>
    BY <2>2, RestartKeepsCount
  <2> QED
    BY <1>5, <2>1, <2>2 DEF WaitForTime
<1>6. CASE UNCHANGED <<main, nvs>>
  BY <1>6 DEF nvs, CountInv, Counts
<1>7. CASE Crash
  <2>1. PICK time : Restart(time)
    BY <1>7 DEF Crash
  <2>2. stored' \in {stored, stored + 1}
    BY <1>7 DEF Crash, NextCount
  <2> QED
    BY <2>1, <2>2, RestartKeepsCount
<1>8. loop \/ checkTimeSync \/ NtpAnswer \/ Lose \/ Drift \/ UNCHANGED vars => UNCHANGED <<main, nvs>>
  BY DEF loop, checkTimeSync, NtpAnswer, Lose, Drift, vars, nvs
<1> QED
  BY <1>1, <1>2, <1>3, <1>4, <1>5, <1>6, <1>7, <1>8 DEF Next, MainStep

\* logmanager.cpp:39-42: until NVS is erased, or does not keep a count, every boot
\* has a greater count than all earlier ones with messages on the disk, or 0.
THEOREM BootsInOrderAlways == Spec => []BootsInOrder
<1>1. CountInv => BootsInOrder
  <2> SUFFICES ASSUME CountInv, main = "disk", ~forgotten, bootcount <= lastStamp
               PROVE  bootcount = 0
    BY Zenon DEF BootsInOrder
  <2>1. bootcount = 0 \/ lastStamp < bootcount
    BY Zenon DEF CountInv
  <2> QED
    BY <2>1 DEF CountInv, Counts
<1> QED
  BY CountInit, CountNext, <1>1, PTL DEF Spec

-----------------------------------------------------------------------------
Connections == [state : {"off", "connecting", "up"}, ticks : 0..Full]
HardwareClocks == [state : {"absent", "stopped", "running"}, off : 0..(ClockWrap - 1)]

LEMMA Remainder ==
  ASSUME NEW a \in Nat, NEW b \in Nat \ {0}
  PROVE  a % b \in 0..(b - 1)
OBVIOUS

LEMMA FullType == Full \in Nat /\ 0 <= Full
BY StartupAssumption DEF Full

LEMMA ResetType == netReset \in Connections /\ Off \in Connections
BY FullType DEF netReset, Off, Connections

LEMMA ElapseType ==
  ASSUME NEW w \in Connections
  PROVE  Elapse(w) \in Connections
BY FullType, StartupAssumption DEF Elapse, Connections

\* The system time is set by the time that loop() begins, and stays so.
TimeIsSet == main = "loop" => systemTime # Unset

TypeInv == TypeOK /\ TimeIsSet

LEMMA TypeInit == Init => TypeInv
<1> SUFFICES ASSUME Init PROVE TypeInv
  OBVIOUS
<1>1. {now, lastNetCheck, lastNetOK} \subseteq 0..(MillisWrap - 1)
  BY StartupAssumption DEF Init
<1>2. wifi \in Connections
  BY ResetType DEF Init
<1>3. hw \in HardwareClocks
  BY StartupAssumption DEF Init, HardwareClocks
<1>4. attempts \in 0..MaxAttempts /\ outage \in Nat /\ systemTime \in 0..ClockWrap
  BY StartupAssumption DEF Init, Unset
<1>5. {stored, bootcount, lastStamp} \subseteq Nat
  BY DEF Init
<1>6. forgotten \in BOOLEAN /\ timeOK \in BOOLEAN
  BY Zenon DEF Init
<1>7. main = "count"
  BY DEF Init
<1> QED
  BY <1>1, <1>2, <1>3, <1>4, <1>5, <1>6, <1>7 DEF TypeInv, TypeOK, TimeIsSet, Connections, HardwareClocks

LEMMA LaterType ==
  ASSUME TypeOK, TimePasses
  PROVE  now' \in 0..(MillisWrap - 1) /\ outage' \in Nat
<1>1. now \in Nat /\ MillisWrap \in Nat \ {0}
  BY StartupAssumption DEF TypeOK
<1>2. (now + 1) % MillisWrap \in 0..(MillisWrap - 1)
  BY <1>1, Remainder
<1> QED
  BY <1>2 DEF TimePasses, Later, TypeOK

\* What a tick does, whatever becomes of the connection before it.
LEMMA TickType ==
  ASSUME TypeOK, NEW w \in Connections, Tick(w)
  PROVE  /\ now' \in 0..(MillisWrap - 1) /\ outage' \in Nat
         /\ wifi' \in Connections
         /\ systemTime' \in 0..ClockWrap /\ (systemTime # Unset => systemTime' # Unset)
<1>1. wifi' \in Connections
  BY ElapseType DEF Tick
<1>2. systemTime' = systemTime \/ systemTime' = 0
  BY DEF Tick
<1> QED
  BY <1>1, <1>2, LaterType, StartupAssumption DEF Tick, TypeOK, Unset

LEMMA UpdateType ==
  ASSUME TypeOK, systemTime # Unset, update
  PROVE  hw' \in HardwareClocks
BY StartupAssumption DEF update, TypeOK, Unset, HardwareClocks

LEMMA RestartType ==
  ASSUME TypeInv, NEW time \in {systemTime, Unset}, Restart(time), stored' \in Nat
  PROVE  TypeInv'
<1>1. wifi' \in Connections /\ hw' = hw /\ outage' = outage /\ lastStamp' = lastStamp
  BY ResetType DEF Restart
<1>2. {now, lastNetCheck, lastNetOK}' \subseteq 0..(MillisWrap - 1) /\ attempts' \in 0..MaxAttempts
  BY StartupAssumption DEF Restart
<1>3. systemTime' \in 0..ClockWrap
  BY StartupAssumption DEF Restart, TypeInv, TypeOK, Unset
<1>4. {stored, bootcount, lastStamp}' \subseteq Nat
  BY <1>1 DEF Restart, TypeInv, TypeOK
<1>5. forgotten' \in BOOLEAN /\ timeOK' \in BOOLEAN
  BY Zenon DEF Restart, TypeInv, TypeOK
<1>6. main' = "count"
  BY DEF Restart
<1> QED
  BY <1>1, <1>2, <1>3, <1>4, <1>5, <1>6 DEF TypeInv, TypeOK, TimeIsSet, Connections

LEMMA TypeNext == TypeInv /\ [Next]_vars => TypeInv'
<1> SUFFICES ASSUME TypeInv, [Next]_vars PROVE TypeInv'
  OBVIOUS
<1> USE DEF TypeInv
<1>1. CASE getBootcountFromNVS
  <2>1. stored' \in Nat /\ bootcount' \in Nat /\ lastStamp' \in Nat
    BY <1>1 DEF getBootcountFromNVS, CountBoot, NextCount, TypeOK
  <2>2. forgotten' \in BOOLEAN
    BY <1>1, Zenon DEF getBootcountFromNVS, TypeOK
  <2>3. main' = "clock" /\ UNCHANGED <<attempts, timers, network, clocks>>
    BY <1>1 DEF getBootcountFromNVS
  <2> QED
    BY <2>1, <2>2, <2>3 DEF timers, network, clocks, TypeOK, TimeIsSet
<1>2. CASE initTimeOffline
  <2>1. systemTime' \in 0..ClockWrap
    BY <1>2, StartupAssumption DEF initTimeOffline, TypeOK
  <2>2. timeOK' \in BOOLEAN
    BY <1>2 DEF initTimeOffline, TypeOK
  <2>3. main' = "disk" /\ UNCHANGED <<attempts, timers, network, hw, nvs>>
    BY <1>2 DEF initTimeOffline
  <2> QED
    BY <2>1, <2>2, <2>3 DEF timers, network, nvs, TypeOK, TimeIsSet
<1>3. CASE initDisk
  <2>1. lastStamp' \in Nat
    BY <1>3 DEF initDisk, TypeOK
  <2>2. forgotten' \in BOOLEAN
    BY <1>3 DEF initDisk, TypeOK
  <2>3. wifi' \in Connections
    BY <1>3, ResetType DEF initDisk
  <2>4. main' = "wait" /\ UNCHANGED <<attempts, timers, outage, clocks, stored, bootcount>>
    BY <1>3 DEF initDisk
  <2> QED
    BY <2>1, <2>2, <2>3, <2>4 DEF timers, clocks, TypeOK, TimeIsSet, Connections
<1>4. CASE initTime
  <2>1. hw' \in HardwareClocks
    BY <1>4, UpdateType DEF initTime
  <2> QED
    BY <1>4, <2>1 DEF initTime, timers, network, nvs, counters, TypeOK, TimeIsSet, HardwareClocks
<1>5. CASE WaitForTime
  <2>1. wifi \in Connections
    BY DEF TypeOK, Connections
  <2>2. CASE Tick(wifi) /\ UNCHANGED <<main, attempts, lastNetCheck, lastNetOK, timeOK, hw, nvs, counters>>
    BY <1>5, <2>1, <2>2, TickType DEF WaitForTime, nvs, TypeOK, TimeIsSet, Connections
  <2>3. CASE /\ attempts < MaxAttempts /\ attempts' = NextAttempt(attempts)
             /\ TimePasses
             /\ wifi' = IF ResetDue(NextAttempt(attempts)) THEN netReset ELSE Elapse(wifi)
             /\ UNCHANGED <<systemTime, main, lastNetCheck, lastNetOK, timeOK, hw, nvs, counters>>
    <3>1. wifi' \in Connections
      BY <2>1, <2>3, ResetType, ElapseType
    <3>2. attempts' \in 0..MaxAttempts
      BY <2>3, StartupAssumption DEF TypeOK, NextAttempt
    <3> QED
      BY <1>5, <2>3, <3>1, <3>2, LaterType DEF WaitForTime, nvs, TypeOK, TimeIsSet, Connections
  <2>4. CASE Restart(systemTime) /\ UNCHANGED <<stored, crashes>>
    BY <2>4, RestartType DEF TypeOK
  <2> QED
    BY <1>5, <2>2, <2>3, <2>4 DEF WaitForTime
<1>6. CASE loop
  <2>1. wifi \in Connections /\ netReset \in Connections
    BY ResetType DEF TypeOK, Connections
  <2>2. PICK w \in Connections : Tick(w)
    BY <1>6, <2>1 DEF loop, checkNetConnection
  <2>3. {lastNetCheck, lastNetOK}' \subseteq {now, lastNetCheck, lastNetOK}
    BY <1>6 DEF loop, checkNetConnection
  <2> QED
    BY <1>6, <2>2, <2>3, TickType DEF loop, nvs, counters, TypeOK, TimeIsSet, Connections
<1>7. CASE checkTimeSync
  <2>1. hw' \in HardwareClocks
    BY <1>7, UpdateType DEF checkTimeSync, TimeIsSet
  <2> QED
    BY <1>7, <2>1 DEF checkTimeSync, timers, network, nvs, counters, TypeOK, TimeIsSet, HardwareClocks
<1>8. CASE NtpAnswer
  BY <1>8, StartupAssumption DEF NtpAnswer, timers, network, nvs, counters, TypeOK, TimeIsSet, Unset
<1>9. CASE Lose
  BY <1>9, ResetType, StartupAssumption DEF Lose, timers, clocks, nvs, TypeOK, TimeIsSet, Connections
<1>10. CASE Drift
  <2>1. PICK step \in {1, ClockWrap - 1} :
          \/ systemTime # Unset /\ systemTime' = (systemTime + step) % ClockWrap /\ UNCHANGED hw
          \/ hw' = [hw EXCEPT !.off = (@ + step) % ClockWrap] /\ UNCHANGED systemTime
    BY <1>10 DEF Drift
  <2>2. systemTime + step \in Nat /\ hw.off + step \in Nat /\ ClockWrap \in Nat \ {0}
    BY <2>1, StartupAssumption DEF TypeOK
  <2>3. (systemTime + step) % ClockWrap \in 0..(ClockWrap - 1)
        /\ (hw.off + step) % ClockWrap \in 0..(ClockWrap - 1)
    BY <2>2, Remainder
  <2>4. hw' \in HardwareClocks /\ systemTime' \in 0..ClockWrap
        /\ (systemTime # Unset => systemTime' # Unset)
    BY <2>1, <2>2, <2>3 DEF TypeOK, HardwareClocks, Unset
  <2> QED
    BY <1>10, <2>4 DEF Drift, timers, network, nvs, TypeOK, TimeIsSet, HardwareClocks
<1>11. CASE Crash
  <2>1. PICK time \in {systemTime, Unset} : Restart(time)
    BY <1>11 DEF Crash
  <2>2. stored' \in Nat
    BY <1>11 DEF Crash, NextCount, TypeOK
  <2> QED
    BY <2>1, <2>2, RestartType
<1>12. CASE UNCHANGED vars
  BY <1>12 DEF vars, timers, network, clocks, nvs, counters, TypeOK, TimeIsSet
<1> QED
  BY <1>1, <1>2, <1>3, <1>4, <1>5, <1>6, <1>7, <1>8, <1>9, <1>10, <1>11, <1>12 DEF Next, MainStep

\* Every variable keeps its type: the timers and clocks their width, the count of
\* boots that is read back, and the state of the connection.
THEOREM StartupTypeCorrect == Spec => []TypeOK
<1>1. TypeInv => TypeOK
  BY DEF TypeInv
<1> QED
  BY TypeInit, TypeNext, <1>1, PTL DEF Spec
================================================================================
