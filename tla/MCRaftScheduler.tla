------------------------- MODULE MCRaftScheduler -------------------------
(* A small scheduler for TLC: two ranges, one of which may get priority,   *)
(* and two workers in the regular shard; and the queue of a shard, in      *)
(* chunks. A behaviour is about one kind of work, or about the queue.      *)
EXTENDS RaftScheduler

CONSTANTS e1, Panic

VARIABLES
  about,     \* a kind of work, or "RangeIDQueue"
  count, chunks, answer

queueVars == <<count, chunks, answer>>

BothRanges == {<<1, 2>>}

ChunkedQueue == INSTANCE RangeIDQueue WITH
  Values <- Ranges, None <- NoRange, ChunkSize <- 2, MaxItems <- 5

MCInit ==
  /\ Init
  /\ ChunkedQueue!Init
  /\ about \in Kinds \cup {"RangeIDQueue"}

(* Calls are for the kind of work the behaviour is about; priorities       *)
(* change only for ticks.                                                  *)
SchedulerNext ==
  /\ Next
  /\ \A e \in Enqueuers : caller'[e].kind \in {about, NoCall.kind}
  /\ about = "Tick" \/ UNCHANGED priorityIDs

MCNext ==
  /\ \/ about \in Kinds /\ SchedulerNext /\ UNCHANGED queueVars
     \/ about = "RangeIDQueue" /\ ChunkedQueue!Next /\ UNCHANGED schedVars
  /\ UNCHANGED about

MCSpec == MCInit /\ [][MCNext]_<<schedVars, queueVars, about>>

(* The chunked queue of a shard is a FIFO queue: Push and PopFront of the  *)
(* chunks are Push and PopFront of the sequence they hold; neither panics, *)
(* nor does len say that a queue with elements is empty.                   *)
ChunksAreFifo == ChunkedQueue!ImplementsFifo
=============================================================================
