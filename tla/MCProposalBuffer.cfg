CONSTANTS
  Requests = {w1, w2, i3, i4}
  Writers = {w1, w2}
  Kinds = {"write", "untracked", "change", "lease"}
  Inputs <- MCInputs
  Targets <- MCTargets
  MaxLogical = 1
  MaxWall = 6
  LeaseLength = 2
  MaxLease = 3
  MaxGeneration = 1
  MaxWire = 2
  ArrMinSize = 1
  ArrMaxSize = 2
  ArrShrinkDelay = 2
  MayDestroy = TRUE
  Untracked = Untracked
  Nobody = Nobody
  Clients = {r1, r2, r3}
  ClientTimestamps <- MCClientTimestamps
  NoToken = NoToken
SPECIFICATION ProposalsSpec
SYMMETRY Symmetry
CHECK_DEADLOCK FALSE
INVARIANTS NoLeakedTokens AppliesAtMostOnce ClosedTimestampsHold BufferIsServed
PROPERTIES ImplementsTracker
