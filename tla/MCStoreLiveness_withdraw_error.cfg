CONSTANTS
  s1 = s1
  s2 = s2
  Stores = {s1, s2}
  Remotes <- OnePair
  LivenessInterval = 2
  IdleSupportFromInterval = 9
  SupportWithdrawalGracePeriod = 0
  MaxOffset = 3
  ClockRegression = FALSE
  WriteErrors = {"withdraw"}
  Enabled = {s1}
  MaxClock = 6
  MaxInFlight = 2
  MaxCrashes = 1
SPECIFICATION Spec
INVARIANTS
  DurableSupport
\* Stores may stay down, and the bounded clocks end every behaviour.
CHECK_DEADLOCK FALSE
