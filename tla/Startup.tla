-------------------------------- MODULE Startup --------------------------------
(***************************************************************************)
(* How the controller comes up and stays up: setup() and loop()            *)
(* (tramela.cpp) with what they call of the network manager                *)
(* (networkmanager.cpp), of the time manager (timemanager.cpp) and for the *)
(* count of boots (TimeStamper in logmanager.cpp).                         *)
(*                                                                         *)
(* Time goes by in ticks: one attempt of setup() to get the time takes a   *)
(* tick, and so does an iteration of loop() with all those up to the next  *)
(* tick.  Clocks are given by how far they are off, modulo ClockWrap.  The *)
(* WiFi library, which may or may not reconnect by itself, and the SNTP    *)
(* client are external.                                                    *)
(***************************************************************************)
EXTENDS Naturals

CONSTANTS
  MillisWrap,        \* 2^32, of millis()
  CheckInterval,     \* CHECK_NET_INTERVAL
  NetTimeout,        \* NET_TIMEOUT
  AttemptsPerReset,  \* 20
  MaxAttempts,       \* 60
  ConnectTime,       \* from WiFi.begin() to the IP address, with the network there
  NtpTime,           \* from there to the first answer of the NTP server
  ClockWrap,         \* 2^32, of the time in seconds
  Tolerance,         \* 10 seconds
  WrongClocks,       \* how far the hardware clock may be off at first
  Outages,           \* how long the network may not be there
  MaxLosses,         \* bound on the connections lost
  MaxDrifts,         \* bound on how often a clock goes wrong by one
  MaxNVSFaults,      \* bound on the failures of NVS
  MaxCrashes         \* bound on the restarts that setup() does not ask for

ASSUME StartupAssumption ==
  /\ {MillisWrap, CheckInterval, NetTimeout, AttemptsPerReset, MaxAttempts} \subseteq Nat \ {0}
  /\ {ConnectTime, NtpTime, ClockWrap, Tolerance} \subseteq Nat \ {0}
  /\ WrongClocks \subseteq 0..(ClockWrap - 1)
  /\ Outages \subseteq Nat /\ {MaxLosses, MaxDrifts, MaxNVSFaults, MaxCrashes} \subseteq Nat
  /\ NetTimeout + 2 * CheckInterval + 2 < MillisWrap
  \* The network is fast enough for the time-outs: without this, nothing comes up.
  /\ ConnectTime + NtpTime < AttemptsPerReset /\ AttemptsPerReset <= MaxAttempts
  /\ ConnectTime <= NetTimeout

Unset == ClockWrap  \* the system time before anybody has set it

VARIABLES
  main,                    \* where the main task is
  attempts,                \* in setup()
  now,                     \* millis()
  lastNetCheck, lastNetOK,
  wifi,                    \* state of the connection, and ticks spent on it
  outage,                  \* ticks until the network is there
  systemTime,              \* Unset, or how far it is off
  timeOK,                  \* TimeManager::timeOK
  hw,                      \* the hardware clock, and how far it is off
  stored,                  \* the count of boots in NVS, 0 if there is none
  bootcount,               \* TimeStamper::bootcount
  forgotten,               \* NVS was erased, or did not keep a count (history)
  lastStamp,               \* the greatest count of the boots that got to the disk (history)
  losses, drifts, nvsFaults, crashes

timers == <<now, lastNetCheck, lastNetOK>>
network == <<wifi, outage>>
clocks == <<systemTime, timeOK, hw>>
nvs == <<stored, bootcount, forgotten, lastStamp>>
counters == <<losses, drifts, nvsFaults, crashes>>
vars == <<main, attempts, timers, network, clocks, nvs, counters>>

Off == [state |-> "off", ticks |-> 0]

Init ==
  /\ main = "count" /\ attempts = 0
  /\ now = 0 /\ lastNetCheck = 0 /\ lastNetOK = 0
  /\ wifi = Off /\ outage \in Outages
  /\ systemTime = Unset /\ timeOK = FALSE
  /\ hw \in [state : {"absent", "stopped", "running"}, off : WrongClocks]
  /\ stored = 0 /\ bootcount = 0 /\ forgotten = FALSE /\ lastStamp = 0
  /\ losses = 0 /\ drifts = 0 /\ nvsFaults = 0 /\ crashes = 0

-----------------------------------------------------------------------------
(* The network, for one tick *)

netReset == [state |-> "connecting", ticks |-> 0]

\* WiFiGotIP() calls configNTP(), and some time later there is an answer.
Full == ConnectTime + NtpTime

Elapse(w) ==
  IF w.state = "off" \/ outage > 0 \/ w.ticks = Full THEN w
  ELSE [state |-> IF w.ticks + 1 >= ConnectTime THEN "up" ELSE "connecting", ticks |-> w.ticks + 1]

\* Mutant: millis() is taken for a number that grows for ever.
Later_NoWrap(t) == t + 1

Later(t) == (t + 1) % MillisWrap

Since(t) == (now + MillisWrap - t) % MillisWrap

TimePasses ==
  /\ now' = Later(now)
  /\ outage' = IF outage > 0 THEN outage - 1 ELSE 0

\* The connection is w before the tick.
Tick(w) ==
  /\ TimePasses
  /\ wifi' = Elapse(w)
  /\ systemTime' = IF wifi'.ticks = Full /\ w.ticks < Full THEN 0 ELSE systemTime

\* The SNTP client asks again now and then.
NtpAnswer ==
  /\ wifi.ticks = Full /\ systemTime # 0
  /\ systemTime' = 0
  /\ UNCHANGED <<main, attempts, timers, network, timeOK, hw, nvs, counters>>

\* The library connects again, or does not.
Lose ==
  /\ wifi.state # "off" /\ losses < MaxLosses
  /\ losses' = losses + 1
  /\ wifi' \in {netReset, Off}
  /\ outage' \in Outages
  /\ UNCHANGED <<main, attempts, timers, clocks, nvs, drifts, nvsFaults, crashes>>

-----------------------------------------------------------------------------
(* The clocks *)

\* Mutant: the difference counts only if the system is ahead.
Apart_Ahead(a, b) == (a + ClockWrap - b) % ClockWrap \in Tolerance..(ClockWrap \div 2)

\* Differences are unsigned.
Apart(a, b) ==
  /\ (a + ClockWrap - b) % ClockWrap >= Tolerance
  /\ (b + ClockWrap - a) % ClockWrap >= Tolerance

\* update(): a clock that is stopped falls behind until it is set, which starts it.
update ==
  hw' = IF hw.state # "absent" /\ (hw.state = "stopped" \/ Apart(systemTime, hw.off))
          THEN [state |-> "running", off |-> systemTime]
          ELSE hw

Drift ==
  /\ drifts < MaxDrifts
  /\ drifts' = drifts + 1
  /\ \E step \in {1, ClockWrap - 1} :
       \/ /\ systemTime # Unset
          /\ systemTime' = (systemTime + step) % ClockWrap
          /\ UNCHANGED hw
       \/ /\ hw.state = "running"
          /\ hw' = [hw EXCEPT !.off = (@ + step) % ClockWrap]
          /\ UNCHANGED systemTime
  /\ UNCHANGED <<main, attempts, timers, network, timeOK, nvs, losses, nvsFaults, crashes>>

-----------------------------------------------------------------------------
(* setup() *)

NextCount == stored + 1

\* Mutant: the new count is not written.
CountBoot_NotSet == stored' = stored /\ bootcount' = NextCount

CountBoot == stored' = NextCount /\ bootcount' = NextCount

NVSFault == nvsFaults < MaxNVSFaults /\ nvsFaults' = nvsFaults + 1

\* getBootcountFromNVS(): all goes well; the count cannot be read; it cannot be
\* written, or not be committed, and is there the next time or is not; or NVS has
\* to be erased.
getBootcountFromNVS ==
  /\ main = "count" /\ main' = "clock"
  /\ \/ CountBoot /\ UNCHANGED <<nvsFaults, forgotten>>
     \/ NVSFault /\ bootcount' = 0 /\ UNCHANGED <<stored, forgotten>>
     \/ NVSFault /\ bootcount' = NextCount /\ stored' = NextCount /\ UNCHANGED forgotten
     \/ NVSFault /\ bootcount' = NextCount /\ stored' = stored /\ forgotten' = TRUE
     \/ NVSFault /\ bootcount' = 1 /\ stored' = 1 /\ forgotten' = TRUE
  /\ UNCHANGED <<attempts, timers, network, clocks, lastStamp, losses, drifts, crashes>>

initTimeOffline ==
  /\ main = "clock" /\ main' = "disk"
  /\ IF hw.state = "running"
       THEN systemTime' = hw.off /\ timeOK' = TRUE
       ELSE UNCHANGED <<systemTime, timeOK>>
  /\ UNCHANGED <<attempts, timers, network, hw, nvs, counters>>

\* The messages logged so far, which have the count in their stamp, go to the disk
\* if there is one, and then initWiFi() begins.
initDisk ==
  /\ main = "disk" /\ main' = "wait"
  /\ \/ lastStamp' = IF bootcount > lastStamp THEN bootcount ELSE lastStamp
     \/ UNCHANGED lastStamp
  /\ wifi' = netReset
  /\ UNCHANGED <<attempts, timers, outage, clocks, stored, bootcount, forgotten, counters>>

\* initTime() succeeds, and what is left of setup() takes no time.
initTime ==
  /\ main = "wait" /\ main' = "loop"
  /\ systemTime # Unset
  /\ timeOK' = TRUE
  /\ update
  /\ UNCHANGED <<attempts, timers, network, systemTime, nvs, counters>>

\* A restart.  The system time survives one that is due to the software.
Restart(time) ==
  /\ main' = "count" /\ attempts' = 0
  /\ now' = 0 /\ lastNetCheck' = 0 /\ lastNetOK' = 0
  /\ wifi' = Off
  /\ systemTime' = time /\ timeOK' = FALSE
  /\ bootcount' = 0
  /\ UNCHANGED <<outage, hw, forgotten, lastStamp, losses, drifts, nvsFaults>>

\* Mutant: every attempt is the first one.
NextAttempt_First(n) == 1

NextAttempt(n) == n + 1

ResetDue(n) == n % AttemptsPerReset = 0

\* initTime() waits for two seconds, and the time comes, or it does not.
WaitForTime ==
  /\ main = "wait" /\ systemTime = Unset
  /\ \/ /\ Elapse(wifi).ticks = Full
        /\ Tick(wifi)
        /\ UNCHANGED <<main, attempts, lastNetCheck, lastNetOK, timeOK, hw, nvs, counters>>
     \/ /\ Elapse(wifi).ticks < Full /\ attempts < MaxAttempts
        /\ attempts' = NextAttempt(attempts)
        /\ TimePasses
        /\ wifi' = IF ResetDue(NextAttempt(attempts)) THEN netReset ELSE Elapse(wifi)
        /\ UNCHANGED <<systemTime, main, lastNetCheck, lastNetOK, timeOK, hw, nvs, counters>>
     \/ /\ Elapse(wifi).ticks < Full /\ attempts = MaxAttempts
        /\ Restart(systemTime)
        /\ UNCHANGED <<stored, crashes>>

-----------------------------------------------------------------------------
(* loop() *)

\* Mutant: it does not wait for the library to reconnect.
checkNetConnection_AtOnce ==
  IF Since(lastNetCheck) <= CheckInterval
    THEN UNCHANGED <<lastNetCheck, lastNetOK>> /\ Tick(wifi)
    ELSE /\ lastNetCheck' = now
         /\ lastNetOK' = now
         /\ Tick(IF wifi.state # "up" THEN netReset ELSE wifi)

checkNetConnection ==
  IF Since(lastNetCheck) <= CheckInterval
    THEN UNCHANGED <<lastNetCheck, lastNetOK>> /\ Tick(wifi)
    ELSE LET offline == wifi.state # "up" /\ Since(lastNetOK) > NetTimeout
         IN  /\ lastNetCheck' = now
             /\ lastNetOK' = IF wifi.state = "up" \/ offline THEN now ELSE lastNetOK
             /\ Tick(IF offline THEN netReset ELSE wifi)

loop ==
  /\ main = "loop"
  /\ checkNetConnection
  /\ UNCHANGED <<main, attempts, timeOK, hw, nvs, counters>>

\* Every so often.
checkTimeSync ==
  /\ main = "loop"
  /\ update
  /\ UNCHANGED <<main, attempts, timers, network, systemTime, timeOK, nvs, counters>>

-----------------------------------------------------------------------------
\* The count may or may not have been written when the power fails.
Crash ==
  /\ crashes < MaxCrashes /\ crashes' = crashes + 1
  /\ \E time \in {systemTime, Unset} : Restart(time)
  /\ stored' \in {stored} \cup (IF main = "count" THEN {NextCount} ELSE {})

MainStep ==
  getBootcountFromNVS \/ initTimeOffline \/ initDisk \/ initTime \/ WaitForTime \/ loop

Next == MainStep \/ checkTimeSync \/ NtpAnswer \/ Lose \/ Drift \/ Crash

Spec == Init /\ [][Next]_vars

\* The main task runs, the hardware clock gets looked at, the NTP server answers.
FairSpec ==
  /\ Spec
  /\ WF_vars(MainStep) /\ WF_vars(checkTimeSync) /\ WF_vars(NtpAnswer)

-----------------------------------------------------------------------------
TypeOK ==
  /\ main \in {"count", "clock", "disk", "wait", "loop"}
  /\ attempts \in 0..MaxAttempts
  /\ {now, lastNetCheck, lastNetOK} \subseteq 0..(MillisWrap - 1)
  /\ wifi \in [state : {"off", "connecting", "up"}, ticks : 0..Full]
  /\ outage \in Nat
  /\ systemTime \in 0..ClockWrap /\ timeOK \in BOOLEAN
  /\ hw \in [state : {"absent", "stopped", "running"}, off : 0..(ClockWrap - 1)]
  /\ {stored, bootcount, lastStamp} \subseteq Nat
  /\ forgotten \in BOOLEAN

\* logmanager.cpp:39-42, the boot count is there "so that the server can order
\* them": a boot has a greater count than all earlier ones with messages on the
\* disk, or shows by BOOT#0 that it has none; restarts at any time, also while it is
\* counted, and counts that could not be read in other boots change nothing.  From
\* the first time that NVS is erased, or does not keep a count that was given out,
\* no order is left to rely on.
BootsInOrder == main = "disk" /\ bootcount <= lastStamp => bootcount = 0 \/ forgotten

\* tramela.cpp:50-71: however long there is no network, and whatever state the
\* hardware clock is in, setup() comes to its end.
ComesUp == main # "loop" ~> main = "loop"

\* networkmanager.cpp:71-75: a connection that the library does not restore is
\* restored, and one that is being restored is given the time it takes.
Reconnects == wifi.state # "up" ~> wifi.state = "up"

\* CODE_OVERVIEW.md, main loop, 3: the hardware clock ends up right, whatever it
\* was at first.
HardwareClockRight ==
  <>[](hw.state # "absent" => hw.state = "running" /\ ~Apart(hw.off, 0))
================================================================================
