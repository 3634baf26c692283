---------------------------- MODULE RaftScheduler ----------------------------
(***************************************************************************)
(* The scheduler of raft processing of a store,                            *)
(* pkg/kv/kvserver/scheduler.go: shards, each with a mutex, a condition    *)
(* variable, a FIFO queue of ranges and the flags of what is owed to each  *)
(* range; workers that pop a range, clear its flags, process it outside of *)
(* the mutex and queue it again when it was enqueued meanwhile; callers    *)
(* of Enqueue* that set flags under the mutex and signal after it.         *)
(*                                                                         *)
(* An action is one critical section, or one step outside of the mutex.    *)
(* The time a range was queued at (begin) only feeds a latency metric and  *)
(* is left out. The queue is a sequence here; module RangeIDQueue models   *)
(* its chunks.                                                             *)
(***************************************************************************)
EXTENDS Naturals, Sequences, FiniteSets, FiniteSetsExt

CONSTANTS
  Ranges,           \* range IDs
  Enqueuers,        \* goroutines that call Enqueue*
  Batches,          \* the range IDs a caller may put in a batch, in order
  SystemRanges,     \* the ranges that may get, and lose, priority
  NumWorkers,       \* the arguments of newRaftScheduler
  ShardSize,
  PriorityWorkers,
  MaxTicks,
  ChunkSize,        \* enqueueChunkSize
  Kinds,            \* the kinds of work that are enqueued
  Free              \* nobody holds the mutex of a shard

ASSUME SchedulerAssumption ==
  /\ Ranges \subseteq Nat
  /\ Batches \subseteq Seq(Ranges)
  /\ SystemRanges \subseteq Ranges
  /\ NumWorkers \in Nat /\ ShardSize \in Nat /\ PriorityWorkers \in Nat
  /\ MaxTicks \in Nat \ {0}
  /\ ChunkSize \in Nat \ {0}
  /\ Kinds \subseteq {"Ready", "Request", "Tick", "Piggyback"}
  /\ Free \notin Enqueuers /\ Free \notin Nat \X Nat
  /\ Enqueuers \cap (Nat \X Nat) = {}

(* newRaftScheduler: the number of shards without the priority shard 0. *)
RegularShards ==
  IF ShardSize > 0 /\ NumWorkers > ShardSize
    THEN (NumWorkers - 1) \div ShardSize + 1
    ELSE 1

NumShards == RegularShards + 1

Shards == 0 .. RegularShards

AtLeastOne(n) == IF n = 0 THEN 1 ELSE n

(* The workers of a shard: the remainder goes to the first regular shards. *)
ShardWorkers(s) ==
  IF s = 0
    THEN AtLeastOne(PriorityWorkers)
    ELSE AtLeastOne(NumWorkers \div RegularShards
                      + (IF s - 1 < NumWorkers % RegularShards THEN 1 ELSE 0))

(* A worker is named by its shard and its number in the shard. *)
Workers == {w \in Shards \X (1 .. NumWorkers + PriorityWorkers + 1) : w[2] <= ShardWorkers(w[1])}

WorkersOf(s) == {w \in Workers : w[1] = s}

VARIABLES
  mutex,        \* per shard, who holds the mutex, or Free
  queue,        \* per shard, the queued range IDs
  state,        \* per shard, the raftScheduleState of each range
  stopped,      \* per shard
  priorityIDs,  \* the ranges of the priority shard
  worker,       \* per worker, where it is and the range it processes
  caller,       \* per enqueuer, the Enqueue* call in progress
  quiescing,    \* the stopper's ShouldQuiesce channel is closed
  stopStep,     \* progress of waitQuiesce: two steps per shard
  owed          \* history: the work that exists and no processing has begun for

schedVars == <<mutex, queue, state, stopped, priorityIDs, worker, caller,
               quiescing, stopStep, owed>>

NotScheduled == [flags |-> {}, ticks |-> 0]

NoRange == 0

(* shardIndex *)
ShardIndex(id, priorityRanges) ==
  IF id \in priorityRanges THEN 0 ELSE 1 + (id % (NumShards - 1))

(* A call has its range IDs and the shard of each; the shards are done one *)
(* after the other: ids[next] is the first that may be left in this shard, *)
(* i the position in the chunk, count what is to be signaled.              *)
NoCall == [pc |-> "idle", kind |-> "Ready", ids |-> <<>>, shards |-> <<>>,
           shard |-> 0, next |-> 1, i |-> 0, count |-> 0]

Init ==
  /\ mutex = [s \in Shards |-> Free]
  /\ queue = [s \in Shards |-> <<>>]
  /\ state = [s \in Shards |-> [id \in Ranges |-> NotScheduled]]
  /\ stopped = [s \in Shards |-> FALSE]
  /\ priorityIDs = {}
  /\ worker = [w \in Workers |->
                 [pc |-> "new", id |-> NoRange, flags |-> {}, ticks |-> 0]]
  /\ caller = [e \in Enqueuers |-> NoCall]
  /\ quiescing = FALSE
  /\ stopStep = 0
  /\ owed = [id \in Ranges |-> {}]

-----------------------------------------------------------------------------
(* Enqueue* calls. *)

(* An Enqueue* call begins when its work exists; it assigns the ranges to  *)
(* shards with the priorities of now: shardIndex of enqueue1, and Add of a *)
(* raftSchedulerBatch, which caches the priority ranges.                   *)
BeginCall(e, kind, ids) ==
  /\ caller[e].pc = "idle"
  /\ caller' = [caller EXCEPT ![e] =
       [NoCall EXCEPT !.pc = "enqueue", !.kind = kind, !.ids = ids,
                      !.shards = [k \in DOMAIN ids |-> ShardIndex(ids[k], priorityIDs)]]]
  /\ owed' = [id \in Ranges |->
                IF \E i \in DOMAIN ids : ids[i] = id THEN owed[id] \cup {kind} ELSE owed[id]]
  /\ UNCHANGED <<mutex, queue, state, stopped, priorityIDs, worker, quiescing, stopStep>>

(* EnqueueRaftReady, EnqueueRaftRequest, EnqueueRACv2PiggybackAdmitted *)
EnqueueOne(e) ==
  \E kind \in Kinds \ {"Tick"}, id \in Ranges : BeginCall(e, kind, <<id>>)

(* EnqueueRaftTicks, EnqueueRaftRequests *)
EnqueueBatch(e) ==
  \E kind \in Kinds \cap {"Tick", "Request"}, ids \in Batches : BeginCall(e, kind, ids)

(* The state enqueue1Locked stores for a range: a flag that is already set *)
(* changes nothing, a tick is counted up to maxTicks.                      *)
Scheduled(st, kind) ==
  LET ticks == IF kind = "Tick" THEN st.ticks + 1 ELSE st.ticks
  IN IF kind \in st.flags /\ kind # "Tick"
       THEN st
       ELSE [flags |-> st.flags \cup {kind, "Queued"},
             ticks |-> IF ticks > MaxTicks THEN MaxTicks ELSE ticks]

(* The range is pushed only when it was neither queued nor in processing. *)
NewlyQueued(st, kind) == "Queued" \notin st.flags /\ "Queued" \in Scheduled(st, kind).flags

(* The positions of the range IDs that a call has left in its shard. *)
Left(c) == {k \in DOMAIN c.ids : c.shards[k] = c.shard /\ k >= c.next}

(* One iteration of enqueueN, or enqueue1: the mutex is held from the      *)
(* first range of a chunk to its last.                                     *)
Enqueue1Locked(e) ==
  LET c == caller[e]
      s == c.shard
      endOfChunk == (c.i + 1) % ChunkSize = 0
  IN /\ c.pc = "enqueue"
     /\ mutex[s] \in {Free, e}
     /\ \E k \in Left(c) :
          LET id == c.ids[k]
              st == state[s][id]
              last == Left(c) = {k}
          IN /\ \A j \in Left(c) : k <= j
             /\ state' = [state EXCEPT ![s][id] = Scheduled(st, c.kind)]
             /\ queue' = [queue EXCEPT ![s] = IF NewlyQueued(st, c.kind) THEN Append(@, id) ELSE @]
             /\ mutex' = [mutex EXCEPT ![s] = IF endOfChunk \/ last THEN Free ELSE e]
             /\ caller' = [caller EXCEPT ![e] =
                  [c EXCEPT !.next = k + 1,
                            !.i = (c.i + 1) % ChunkSize,
                            !.count = IF NewlyQueued(st, c.kind) THEN c.count + 1 ELSE c.count,
                            !.pc = IF last THEN "signal" ELSE "enqueue"]]
     /\ UNCHANGED <<stopped, priorityIDs, worker, quiescing, stopStep, owed>>

(* The next shard of enqueueBatch, or the return of the call. *)
NextShard(c) ==
  IF c.shard + 1 < NumShards
    THEN [c EXCEPT !.pc = "enqueue", !.shard = c.shard + 1, !.next = 1, !.i = 0, !.count = 0]
    ELSE NoCall

(* enqueueN for a shard without ranges: no lock, nothing to signal. *)
SkipShard(e) ==
  /\ caller[e].pc = "enqueue"
  /\ Left(caller[e]) = {}
  /\ caller' = [caller EXCEPT ![e] = NextShard(caller[e])]
  /\ UNCHANGED <<mutex, queue, state, stopped, priorityIDs, worker, quiescing, stopStep, owed>>

Waiting(s) == {w \in WorkersOf(s) : worker[w].pc = "wait"}

Wake(ws) == worker' = [w \in Workers |->
                         IF w \in ws THEN [worker[w] EXCEPT !.pc = "lock"] ELSE worker[w]]

(* Mutant: one Signal for all the ranges of the call. *)
Signal_Once(e) ==
  LET c == caller[e]
      s == c.shard
  IN /\ c.pc = "signal"
     /\ \/ c.count > 0 /\ \E w \in Waiting(s) : Wake({w})
        \/ (c.count = 0 \/ Waiting(s) = {}) /\ UNCHANGED worker
     /\ caller' = [caller EXCEPT ![e] = NextShard(c)]
     /\ UNCHANGED <<mutex, queue, state, stopped, priorityIDs, quiescing, stopStep, owed>>

(* signal: a broadcast when every worker is needed, else one Signal per    *)
(* range, each of which wakes one waiting worker, if there is one.         *)
Signal(e) ==
  LET c == caller[e]
      s == c.shard
  IN /\ c.pc = "signal"
     /\ \/ /\ c.count >= ShardWorkers(s)
           /\ Wake(Waiting(s))
           /\ caller' = [caller EXCEPT ![e] = NextShard(c)]
        \/ /\ c.count < ShardWorkers(s)
           /\ c.count > 0
           /\ \/ \E w \in Waiting(s) : Wake({w})
              \/ Waiting(s) = {} /\ UNCHANGED worker
           /\ caller' = [caller EXCEPT ![e].count = @ - 1]
        \/ /\ c.count = 0
           /\ UNCHANGED worker
           /\ caller' = [caller EXCEPT ![e] = NextShard(c)]
     /\ UNCHANGED <<mutex, queue, state, stopped, priorityIDs, quiescing, stopStep, owed>>

-----------------------------------------------------------------------------
(* The workers. *)

(* Start: the stopper refuses the task once it quiesces. *)
StartWorker(w) ==
  /\ worker[w].pc = "new"
  /\ worker' = [worker EXCEPT ![w].pc = IF quiescing THEN "done" ELSE "lock"]
  /\ UNCHANGED <<mutex, queue, state, stopped, priorityIDs, caller, quiescing, stopStep, owed>>

(* Mutant: a worker takes a range and leaves left as the range's state. *)
TakeLeaving(w, left(_)) ==
  LET s == w[1]
      id == Head(queue[s])
  IN /\ worker[w].pc \in {"lock", "loop"}
     /\ mutex[s] \in {Free, w}
     /\ queue[s] # <<>>
     /\ mutex' = [mutex EXCEPT ![s] = Free]
     /\ queue' = [queue EXCEPT ![s] = Tail(@)]
     /\ worker' = [worker EXCEPT ![w] =
          [pc |-> "process", id |-> id,
           flags |-> state[s][id].flags \ {"Queued"}, ticks |-> state[s][id].ticks]]
     /\ state' = [state EXCEPT ![s][id] = left(@)]
     /\ UNCHANGED <<stopped, priorityIDs, caller, quiescing, stopStep, owed>>

(* Mutant: the range is removed from the state map when it is popped. *)
WorkerLoop_Forgets(w) == TakeLeaving(w, LAMBDA st : NotScheduled)

(* The inner loop of worker, with the mutex held: leave when the shard is  *)
(* stopped, pop a range and take its state, or wait. cond.Wait and the     *)
(* pop release the mutex in the same critical section.                     *)
WorkerLoop(w) ==
  LET s == w[1]
      id == Head(queue[s])
  IN /\ \/ worker[w].pc = "lock" /\ mutex[s] = Free
        \/ worker[w].pc = "loop" /\ mutex[s] = w
     /\ mutex' = [mutex EXCEPT ![s] = Free]
     /\ \/ /\ stopped[s]
           /\ worker' = [worker EXCEPT ![w].pc = "done"]
           /\ UNCHANGED <<queue, state>>
        \/ /\ ~stopped[s]
           /\ queue[s] # <<>>
           /\ queue' = [queue EXCEPT ![s] = Tail(@)]
           /\ worker' = [worker EXCEPT ![w] =
                [pc |-> "process", id |-> id,
                 flags |-> state[s][id].flags \ {"Queued"}, ticks |-> state[s][id].ticks]]
           /\ state' = [state EXCEPT ![s][id] = [flags |-> {"Queued"}, ticks |-> 0]]
        \/ /\ ~stopped[s]
           /\ queue[s] = <<>>
           /\ worker' = [worker EXCEPT ![w].pc = "wait"]
           /\ UNCHANGED <<queue, state>>
     /\ UNCHANGED <<stopped, priorityIDs, caller, quiescing, stopStep, owed>>

(* The local state of a worker holds what it has still to call, in the     *)
(* order of the code: requests, ticks, piggybacked messages, ready. Each   *)
(* of the first three may ask for ready processing.                        *)
Process(w, kind, flags, ticks) ==
  /\ worker[w].pc = "process"
  /\ kind \in worker[w].flags
  /\ worker' = [worker EXCEPT ![w].flags = flags, ![w].ticks = ticks]
  /\ owed' = [owed EXCEPT ![worker[w].id] = @ \ {kind}]
  /\ UNCHANGED <<mutex, queue, state, stopped, priorityIDs, caller, quiescing, stopStep>>

ProcessRequestQueue(w) ==
  \E ready \in SUBSET {"Ready"} :
    Process(w, "Request", (worker[w].flags \ {"Request"}) \cup ready, worker[w].ticks)

(* All the ticks that were counted: the loop ends with none left. *)
ProcessTick(w) ==
  /\ "Request" \notin worker[w].flags
  /\ \E ready \in SUBSET {"Ready"} :
       Process(w, "Tick", (worker[w].flags \ {"Tick"}) \cup ready, 0)

ProcessRACv2PiggybackedAdmitted(w) ==
  /\ worker[w].flags \cap {"Request", "Tick"} = {}
  /\ \E ready \in SUBSET {"Ready"} :
       Process(w, "Piggyback", (worker[w].flags \ {"Piggyback"}) \cup ready, worker[w].ticks)

ProcessReady(w) ==
  /\ worker[w].flags = {"Ready"}
  /\ Process(w, "Ready", {}, worker[w].ticks)

(* Mutant: the state is dropped without a look at what came meanwhile. *)
WorkerFinish_Drops(w) ==
  /\ worker[w].pc = "process"
  /\ worker[w].flags = {}
  /\ mutex[w[1]] = Free
  /\ mutex' = [mutex EXCEPT ![w[1]] = w]
  /\ state' = [state EXCEPT ![w[1]][worker[w].id] = NotScheduled]
  /\ worker' = [worker EXCEPT ![w] = [pc |-> "loop", id |-> NoRange, flags |-> {}, ticks |-> 0]]
  /\ UNCHANGED <<queue, stopped, priorityIDs, caller, quiescing, stopStep, owed>>

(* The end of an iteration: with the mutex, forget the range or queue it   *)
(* again, without a signal; the mutex is kept for the next iteration.      *)
WorkerFinish(w) ==
  LET s == w[1]
      id == worker[w].id
      requeue == state[s][id].flags # {"Queued"}
  IN /\ worker[w].pc = "process"
     /\ worker[w].flags = {}
     /\ mutex[s] = Free
     /\ mutex' = [mutex EXCEPT ![s] = w]
     /\ state' = IF requeue THEN state ELSE [state EXCEPT ![s][id] = NotScheduled]
     /\ queue' = [queue EXCEPT ![s] = IF requeue THEN Append(@, id) ELSE @]
     /\ worker' = [worker EXCEPT ![w] = [pc |-> "loop", id |-> NoRange, flags |-> {}, ticks |-> 0]]
     /\ UNCHANGED <<stopped, priorityIDs, caller, quiescing, stopStep, owed>>

WorkerStep(w) ==
  \/ WorkerLoop(w)
  \/ ProcessRequestQueue(w)
  \/ ProcessTick(w)
  \/ ProcessRACv2PiggybackedAdmitted(w)
  \/ ProcessReady(w)
  \/ WorkerFinish(w)

-----------------------------------------------------------------------------
(* Priorities (setDescLockedRaftMuLocked, unlinkReplicaByRangeIDLocked) and *)
(* shutdown.                                                               *)

AddPriorityID(id) ==
  /\ id \notin priorityIDs
  /\ priorityIDs' = priorityIDs \cup {id}
  /\ UNCHANGED <<mutex, queue, state, stopped, worker, caller, quiescing, stopStep, owed>>

RemovePriorityID(id) ==
  /\ id \in priorityIDs
  /\ priorityIDs' = priorityIDs \ {id}
  /\ UNCHANGED <<mutex, queue, state, stopped, worker, caller, quiescing, stopStep, owed>>

Quiesce ==
  /\ ~quiescing
  /\ quiescing' = TRUE
  /\ UNCHANGED <<mutex, queue, state, stopped, priorityIDs, worker, caller, stopStep, owed>>

(* waitQuiesce: stop the shards one after the other, each under its mutex, *)
(* and broadcast after the mutex is released.                              *)
StopShard ==
  LET s == stopStep \div 2
  IN /\ quiescing
     /\ s \in Shards
     /\ \/ /\ stopStep % 2 = 0
           /\ mutex[s] = Free
           /\ stopped' = [stopped EXCEPT ![s] = TRUE]
           /\ UNCHANGED worker
        \/ /\ stopStep % 2 = 1
           /\ Wake(Waiting(s))
           /\ UNCHANGED stopped
     /\ stopStep' = stopStep + 1
     /\ UNCHANGED <<mutex, queue, state, priorityIDs, caller, quiescing, owed>>

CallerStep(e) == Enqueue1Locked(e) \/ SkipShard(e) \/ Signal(e)

Next ==
  \/ \E e \in Enqueuers : EnqueueOne(e) \/ EnqueueBatch(e) \/ CallerStep(e)
  \/ \E w \in Workers : StartWorker(w) \/ WorkerStep(w)
  \/ \E id \in SystemRanges : AddPriorityID(id) \/ RemovePriorityID(id)
  \/ Quiesce
  \/ StopShard

Spec == Init /\ [][Next]_schedVars

-----------------------------------------------------------------------------
(* Properties *)

Processing(s) == {w \in WorkersOf(s) : worker[w].pc = "process"}

InQueue(s, id) == \E i \in DOMAIN queue[s] : queue[s][i] = id

(* In a shard a range is processed by at most one worker at a time, is not *)
(* queued while it is processed, and is queued once: the Queued flag stays *)
(* set while a worker has the range, whatever Enqueue* calls come.         *)
ExclusiveProcessing ==
  \A s \in Shards :
    /\ \A i, j \in DOMAIN queue[s] : queue[s][i] = queue[s][j] => i = j
    /\ \A v, w \in Processing(s) : worker[v].id = worker[w].id => v = w
    /\ \A w \in Processing(s) : ~InQueue(s, worker[w].id)

(* The call is still to enqueue the range. *)
Announces(c, id) ==
  \E k \in DOMAIN c.ids :
    /\ c.ids[k] = id
    /\ c.shards[k] > c.shard \/ k \in Left(c)

Announced(kind, id) ==
  \E e \in Enqueuers : caller[e].kind = kind /\ Announces(caller[e], id)

Flagged(kind, id) ==
  \E s \in Shards :
    /\ kind \in state[s][id].flags
    /\ InQueue(s, id) \/ \E w \in Processing(s) : worker[w].id = id

Taken(kind, id) ==
  \E w \in Workers : /\ worker[w].pc = "process"
                     /\ worker[w].id = id
                     /\ kind \in worker[w].flags

(* Work that exists is never forgotten: until its processing begins, the   *)
(* call that announces it is under way, or a range that is queued or in    *)
(* processing carries its flag, or the worker that took the flag is still  *)
(* to call the processor. The early return of enqueue1Locked and the       *)
(* clearing of the flags by the worker race with each other here.          *)
NoLostWork ==
  \A id \in Ranges : \A kind \in owed[id] :
    Announced(kind, id) \/ Flagged(kind, id) \/ Taken(kind, id)

Asleep(s) == {w \in WorkersOf(s) : worker[w].pc \in {"wait", "done"}}

(* The calls of Signal still to come: as many for an enqueuer as it counts. *)
PendingSignals(s) ==
  UNION {{e} \X (1 .. caller[e].count) : e \in {x \in Enqueuers : caller[x].shard = s}}

(* The derivation in the comment of worker: with the signals on their way, *)
(* as many workers are awake as the queued and processed ranges can use.   *)
OptimalConcurrency ==
  \A s \in Shards :
    ~quiescing =>
      Cardinality(WorkersOf(s) \ Asleep(s)) + Cardinality(PendingSignals(s))
        >= Min({ShardWorkers(s), Len(queue[s]) + Cardinality(Processing(s))})

=============================================================================
