CONSTANTS
  n1 = n1
  n2 = n2
  a = a
  b = b
  c = c
  Nodes = {n1, n2}
  Stores = {a, b, c}
  NodeOf <- Placement
  Remotes <- ToC
  Queues = {q1, q2, q3, q4}
  NoQueue = NoQueue
  NoStore = NoStore
  SendBufferSize = 2
  MaxBatch = 2
  MaxStream = 2
  MaxReceived = 1
  Tripped = {n1}
  FailureKinds = {"breaker", "dial", "idle"}
  MaxFailures = 2
  Stopping = {}
  MaxNumber = 3
SPECIFICATION BothSettings
SYMMETRY Symmetry
\* A node that quiesces stops for good.
CHECK_DEADLOCK FALSE
INVARIANTS QueueIsServed WorkerFindsQueue NoLostWakeup
PROPERTIES InOrder
