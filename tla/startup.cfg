CONSTANTS
  MillisWrap = 8
  CheckInterval = 1
  NetTimeout = 3
  AttemptsPerReset = 5
  MaxAttempts = 10
  ConnectTime = 3
  NtpTime = 1
  ClockWrap = 8
  Tolerance = 2
  WrongClocks = {0, 3}
  Outages = {0, 12}
  MaxLosses = 1
  MaxDrifts = 1
  MaxNVSFaults = 1
  MaxCrashes = 1
SPECIFICATION FairSpec
INVARIANTS TypeOK BootsInOrder
PROPERTIES ComesUp Reconnects HardwareClockRight
