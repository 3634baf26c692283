SPECIFICATION RecvSpec
CONSTANTS
  e1 = e1
  e2 = e2
  Free = Free
  Unlinker = Unlinker
  Ranges <- OneRange
  Batches = {}
  SystemRanges = {}
  ShardSize = 2
  PriorityWorkers = 1
  NumWorkers = 1
  MaxTicks = 1
  ChunkSize = 1
  Kinds <- RequestsOnly
  Enqueuers <- TwoEnqueuers
  MaxLen = 2
  MaxQueues = 3
INVARIANTS
  NoStrandedMessages
SYMMETRY Symmetry
