CONSTANTS
  s1 = s1
  s2 = s2
  Stores = {s1, s2}
  Remotes <- OnePair
  LivenessInterval = 2
  IdleSupportFromInterval = 2
  SupportWithdrawalGracePeriod = 0
  MaxOffset = 3
  ClockRegression = TRUE
  WriteErrors = {"heartbeat", "withdraw", "batch"}
  Enabled = {s1}
  MaxClock = 5
  MaxInFlight = 1
  MaxCrashes = 1
SPECIFICATION Spec
\* Stores may stay down, and the bounded clocks end every behaviour.
CHECK_DEADLOCK FALSE
INVARIANTS AssertionsHold CheckInFindsStore
