CONSTANTS
  n1 = n1
  n2 = n2
  a = a
  b = b
  c = c
  Nodes = {n1, n2}
  Stores = {a, c}
  NodeOf <- Placement
  Remotes <- ToC
  Queues = {q1, q2, q3}
  NoQueue = NoQueue
  NoStore = NoStore
  SendBufferSize = 1
  MaxBatch = 1
  MaxStream = 1
  MaxReceived = 1
  Tripped = {n1}
  FailureKinds = {"breaker", "dial", "idle", "stream"}
  MaxFailures = 3
  Stopping = {}
  MaxNumber = 0
SPECIFICATION RecoverySpec
PROPERTIES
  HeartbeatsRecover
