SPECIFICATION LatchesSpec
CONSTANTS
  r1 = r1
  r2 = r2
  r3 = r3
  r4 = r4
  k1 = k1
  k2 = k2
  Requests = {r1, r2, r3, r4}
  Workloads <- MCWorkloads
  Signalers = {s1, s2}
  Waiters = {w1, w2, w3}
  Idempotent = TRUE
  NoChan = NoChan
  ClosedC = ClosedC
INVARIANTS Isolation OptimisticSawAll NoLeakedLatches
PROPERTIES ImplementsBroadcast WaitsEnd SignalWakes
