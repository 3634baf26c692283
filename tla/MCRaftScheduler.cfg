SPECIFICATION MCSpec
CONSTANTS
  e1 = e1
  Free = Free
  Panic = Panic
  Ranges = {1, 2}
  Batches <- BothRanges
  ShardSize = 2
  PriorityWorkers = 1
  NumWorkers = 2
  SystemRanges = {1}
  Enqueuers = {e1}
  MaxTicks = 1
  ChunkSize = 2
  Kinds = {"Tick", "Piggyback", "Request"}
INVARIANTS ExclusiveProcessing NoLostWork OptimalConcurrency
PROPERTIES ChunksAreFifo
