# TLA+ models of CockroachDB's replication layer

TLA+ specifications of the parts of this repository that keep a range replicated and
isolated: Store Liveness (`pkg/kv/kvserver/storeliveness`), raft (`pkg/raft`), and what
surrounds raft in a store (`pkg/kv/kvserver`: the raft scheduler, the receive queues, the
proposal buffer with its closed timestamp tracker, the latches). TLC checks them on small
instances; TLAPS proves the central safety properties for every instance.
`PROJECT.json` maps every definition to the lines it models, and lists the runs, the
mutants, the hazards and the theorems.

Commands, in this directory:

    tlc -workers 2 -config MCStoreLiveness_support.cfg MCStoreLiveness
    tlapm StoreLivenessProofs.tla

## 1. The system and its parts

A CockroachDB node runs one or more stores. A range is replicated between stores by a raft
group. A store schedules the raft processing of its ranges on a pool of workers; a write
takes latches, is evaluated, goes through the proposal buffer into raft and applies. Raft
leaders, and the leases on top of them, rest on Store Liveness: on knowing that a remote
store will not act against them for some time.

| Component | State | Operations | Interacts with |
|---|---|---|---|
| Store Liveness requester (`requester_state.go`) | `RequesterMeta` (persisted), the `supportFrom` map, `recentlyQueried` flags | add and remove stores, generate heartbeats, handle responses, check an update out and in | main loop; raft through SupportFrom |
| Store Liveness supporter (`supporter_state.go`) | `SupporterMeta` and `supportFor` (persisted) | handle heartbeats, withdraw support, write, read back | main loop; raft through SupportFor |
| SupportManager (`support_manager.go`) | main loop, receive queue, `storesToAdd`, grace period | restart, heartbeat, expiry and idle ticks, handle a batch of messages | Transport, disk, HLC |
| Transport (`transport.go`) | send queues per destination, handlers per store | SendAsync, workers, incoming streams | gRPC, node dialer, stopper |
| HLC (`util/hlc`) | one clock per node | Now, Update, SleepUntil; timestamp arithmetic | everything |
| raft (`raft.go`, `log.go`) | term, vote, log, commit index, progress, lead epoch; HardState and log on disk | elections, replication, commit, transfer, fortification | Store Liveness, storage, network |
| raft configuration (`confchange`, `quorum`) | voters, outgoing voters, learners, staged learners | Simple, EnterJoint, LeaveJoint; quorum functions | raft |
| raft flow control (`tracker`) | Progress of a follower, ring buffer of appends in flight | send, acknowledge, reject, snapshot | raft |
| Raft scheduler (`scheduler.go`) | per shard: mutex, condition variable, queue, flags of each range | Enqueue*, workers, priorities, stop | receive queues, store |
| Raft receive queues (`store_raft.go`) | a map of queues of received messages | append, drain, delete | scheduler, replicas |
| Proposal buffer (`replica_proposal_buf.go` and the write path) | the array of proposals, assigned lease index and closed timestamp | insert, flush, refresh, repropose, apply | tracker, raft, lease |
| Closed timestamps tracker (`closedts/tracker`) | two buckets: timestamp and reference count | Track, Untrack, LowerBound | proposal buffer |
| Latches (`spanlatch`) | read set and trees of latches, done and poison signals | Acquire, AcquireOptimistic, CheckOptimisticNoConflicts, WaitUntilAcquired, WaitFor, Poison, Release | requests |

The other components (SQL, storage, transactions, leases, gossip, ...) are listed in
`PROJECT.json` with the reason why they are left out.

**What is hard.** Every store is requester and supporter at once, with its own clock:
promises of support are in flight while either end crashes, restarts with a clock that went
backwards, removes the other as idle, or fails to write. Raft's messages are lost, late and
repeated, and it acknowledges writes that reach the disk asynchronously. In a store,
callers, workers and flushes race on flags, queues and lock-free counters, where a wake-up,
a flag or a reference count that is missed stalls a range for good.

**What makes it correct.**

* Support reported on the requester is *durable*: the supporter reports the same epoch
  until the reported expiration; periods of different epochs are *disjoint*; what a
  supporter provides never regresses, also across restarts; no assertion of a handler
  fires. The Transport loses messages only in documented ways.
* At most one leader per term; what is committed never differs and survives elections; a
  leader that a quorum fortified is not replaced while it is supported; flow control never
  counts what a follower lacks, never overruns its window and never stalls; the quorums
  before and after a configuration change overlap.
* No range is processed by two workers at once, no work that was announced is forgotten,
  enough workers are awake, no received message is left behind.
* No command writes below a closed timestamp, none applies twice, no request stays in the
  tracker, and nobody waits for ever on the buffer.
* Conflicting requests never hold latches at once; an optimistic evaluation that is let
  through overlapped with no conflict; waits end; no latch is leaked.

## 2. Modules

| Module | Content |
|---|---|
| `StoreLiveness`, `StoreLivenessInv` | the support fabric and its inductive invariants |
| `StoreLivenessTransport` | Transport, receive queue, sending side of the main loop |
| `HlcTimestamp` | order and arithmetic of timestamps (wall, logical) |
| `Raft` | a raft group |
| `RaftQuorum`, `RaftConfChange` | quorum functions; the Changer |
| `Replication` | Progress of one follower and the handlers that drive it |
| `InflightWindow`, `Inflights` | what Progress relies on; the ring buffer that implements it |
| `RaftScheduler` | shards, workers and callers |
| `Fifo`, `RangeIDQueue` | a queue; the chunked queue that implements it |
| `RaftReceiveQueues` | the receive queues composed with `RaftScheduler` |
| `Tracker`, `LockfreeTracker` | the Tracker interface; the lock-free tracker that implements it |
| `ProposalBuffer` | the write path of a replica, over `Tracker` |
| `Broadcast`, `Signal` | what a signal promises; `signal.go`, which implements it |
| `SpanLatch` | the latch manager, over atomic signals |
| `MC...` | the instances that TLC checks |
| `...Proofs` | theorems and proofs, section 6 |

How they compose:

* `RaftReceiveQueues` EXTENDS `RaftScheduler`: its next-state relation interleaves both, and
  its handlers make the scheduler's calls.
* `ProposalBuffer` uses the tracker through `Tracker`; `LockfreeTracker` is shown to
  implement `Tracker`. In the same way `Replication` keeps the window that `Inflights` is
  shown to implement, `RaftScheduler` the queue that `RangeIDQueue` is shown to implement,
  and `SpanLatch` the signals that `Signal` is shown to implement.
* `Raft` uses of Store Liveness that support is withdrawn and given again with a higher
  epoch, which `StoreLiveness` is about. `Replication` is the flow control `Raft` leaves out.
* `StoreLiveness` has a network that is a set from which messages are taken in any order or
  lost; `StoreLivenessTransport` models how the code implements that network, without the
  content of messages. In it each accepted message is delivered at most once (it is in one
  of `messages`, a batch, a stream or `received`) or lost; `InOrder` is more than
  `StoreLiveness` uses.

**Several instances in one state graph.** Several MC modules have a variable that Init
chooses and no step changes (`part`, `about`; `conf` in `Raft` and `Replication`, `load` in
`SpanLatch`, `setting` in `MCStoreLivenessTransport`). It selects one
setting, workload or component; the variables of the others stay as they are. The reachable
states are the union of those of the instances, and a property is checked in all of them,
or in those its definition names. Settings differ in what may happen and in the bounds, so
that each stays small, and no setting can do what the code cannot.

### StoreLiveness

*State.* `clock`, the four `disk...` variables and the in-memory copies keep the names of
the protos' fields. `requested` is the key set of the `supportFrom` map and `supportFrom`
its states (the zero state for a store that is no key, which is also what
`handleHeartbeatResponse` assumes for such a store). `inProgress` is the in-progress view
of both updates while `handleMessages` runs, `leaked` the handlers whose update was never
checked in. `answer` is a history variable: the support that `SupportFrom` last reported.

*Time.* An HLC timestamp is a natural number, 0 is the empty one. `Now` returns a value
above the previous reading, and an action that reads the clock picks any such value.
Clocks of different stores are related only by the messages they exchange. At a restart
the physical clock is any value (`ClockRegression`) or not below the last one.

*Actions.* One per handler of the main loop: `HeartbeatTickDisabled`, `SendHeartbeats`
(maybeAddStores, MaxRequested forwarded and written, one message per store),
`WithdrawSupport`, `RemoveIdleStores`, `ReceiveHeartbeat` and `ReceiveHeartbeatResp` (one
message of a batch on the in-progress view), `CommitBatch` (write, check-in, responses).
`SupportFrom` and `SupportFromUnknown` are calls from raft and happen at any time, also
in the middle of a batch. `Start` and `FinishStart` are `onRestart` before and after
`SleepUntil`. `Crash` may happen anywhere, `CrashInWithdrawSupport` between two of the
writes of a withdrawal, which are not one batch. `SendHeartbeatsWriteError`,
`BatchWriteError` and `WithdrawSupportWriteError` are the error returns of the writes:
the first two leave the update checked out, so that the next `checkOutUpdate` panics
(`PanicOnCheckOut`), the third is checked in anyway.

*Abstractions.* A message carries the sender's clock at the time it was generated; the
Transport reads the clock later, when it sends the batch, and a later reading only forwards
the receiver's clock further, which a step of the receiver can do as well. An undrained
message of the receive queue is one that has not been handled. Messages may be lost and
reordered, but not duplicated: gRPC streams do not, and the Transport does not retry.
Writes outside of a batch go to the engine directly and are synced by it; a batch is
committed with sync: each is atomic and durable. `writeSupporterMeta` precedes the states of
the withdrawn stores, whose order is that of a Go map: `WriteWithdrawal` lets any subset of
them be on disk. A store that is down keeps `supportFor` in the model, although nobody can
read it, so that `NoSupportRegression` compares what is read back with what was last
reported. `IdleAssumption`: `IdleSupportFromInterval >= LivenessInterval`; the code has one
minute (`config.go`) against a few seconds, and `DisjointSupport` depends on it.

### StoreLivenessTransport

*State.* `queues` is the map of every node's Transport from destination to queue,
`messages` the channel of a queue, `worker` the goroutine started for it, `stream` what
it has sent and the receiver has not read, `received` and `sig` the receive queue of a
SupportManager. `loop`, `outgoing` and `call` are the program counter and the locals of
the main loop of a store, which calls `SendAsync` for one message after the other.

*Actions.* `SendAsync` is split where another goroutine can come in between: the breaker
(`BreakerTripped`, `BreakerTrips`) and the `Load` (`SendAsync`), the `LoadOrStore`, the
start of the worker (`StartProcessNewQueue`, `StartRefused`), the send on the channel
(`Enqueue`). A worker looks its queue up (`WorkerGetQueue`), dials and opens the stream
(`Connect`, `ConnectError`), pulls messages and sends batches (`PullMessage`,
`SendBatch`), leaves its loop (`IdleTimeout`, `WorkerQuiesces`, `StreamError`), and at
last closes the stream and deletes the queue (`WorkerDone`). `HandleMessage` is the
receiving Transport up to `receiveQueue.Append`; `ReceiveSig` and `Drain` are the two
steps of the loop, with the answers to the drained heartbeats.

*Abstractions.* A queue that nothing refers to may be allocated again (`Fresh`), which
keeps the states finite while behaviours are infinite. A batch is a sequence of
messages put on the stream at once; its boundaries are not kept. `CloseAndRecv` returns
when the receiver has read the whole stream or the stream has failed (gRPC; external).
The receive queue, unbounded in the code, is bounded by `MaxReceived`. Nodes in `Tripped`
are never reached; the runs use it to switch the responses off. Message numbers are history
and saturate at `MaxNumber`.

### Raft

*State.* `raft[p]` is the volatile record of a peer (the fields of `raft` and `raftLog` that
matter, `acc` is `accTerm`), `stable[p]` its HardState and log on disk. `out` and `after` in
the record are `raft.msgs` and `raft.msgsAfterAppend`. `msgs` is every message sent: any may
arrive late, again, or never (`Sent` leaves out those that the setting loses, `Pending` forgets those that cannot change anything any more: the
receiver ignores them, or its answer comes too late for a sender at the last term). `support` is the Store Liveness support between the peers'
stores. `elected`, `ledger`, `decided`, `pledges` and `failed` are history.

*Actions.* A handler is an operator from record to record, named as in the code
(`handleAppendEntries`, `stepVote`, `AppRespAtLeader`, `becomeFollower`, ...); an action is one
call of Step or Tick with one Ready: the messages of `out` go out, those of `after` once the
write is durable, at once or, with `NonBlockingSync`, in a later `Persist`. `Restart` begins
from `stable`. Appends and heartbeats carry the leader's Match, and `checkMatch` compares it with
the follower's log. An assertion that fails is recorded in `failed`; the peer keeps the state it had
and takes no step until it is restarted.

*Abstractions.* No flow control (`LeaderSends`: a leader may send any append that some
`Progress.Next` allows, with entries or without; rejections and repeated acknowledgements, which only
move Next, are in `Replication`), no snapshots, no log compaction, no configuration changes, no learners, no
quiescence; election timeouts may fire at any time. The network of a setting never delivers
the messages in `Lost`: losing a message for ever is one of the things a network may do, and
it prunes the states without pruning what a loss can cause.

### RaftQuorum and RaftConfChange

`RaftQuorum` has the sorting algorithm of `MajorityConfig.CommittedIndex` (and of the support
expiration) and the vote counts, as operators. `RaftConfChange` has the configuration, the
set of tracked peers, and one action per change of up to two steps, simple or joint; `wanted`
is history: the role that the last change that named a peer gave it.

### Replication and Inflights

`Replication` is the leader's `Progress` (`pr`) of a follower, both logs, appends and answers
under way, at most one heartbeat, and the snapshot. Actions: proposals, maybeSendAppend,
heartbeats, receipt of each message at either end, application of entries, compaction, snapshot and
its report, loss, a restart of the follower. `OthersAcknowledge` stands for the other voters, whose
acknowledgements move the commit index. A behaviour begins with the election: the leader keeps its
log, which may be compacted, its applied and its commit index, and the follower what it has. The
follower may know more to be committed than the leader does; `decided` is how far the group had got.
`ElectionsAssumption` says what the terms before guarantee (section 6). A snapshot is at the applied
index of the leader's replica (replica_raftstorage.go:252). The window is limited by its count; the limit
in bytes is in `Inflights`.
`Inflights` is the ring buffer: `Add`, `FreeLE`, `reset` with growth and wrap-around, bytes
included; `InflightWindow` is the sequence it stands for.

### RaftScheduler, RangeIDQueue, RaftReceiveQueues

An action of `RaftScheduler` is one critical section of a shard's mutex, or one step outside
of it. `state[s][id]` is the raftScheduleState (`flags`, `ticks`), `queue[s]` the queue,
`worker` and `caller` the goroutines with their locals: a caller of an Enqueue* function has
the range IDs, the shard that each was put in when the batch was filled, and how many it has
queued newly, which is how often it signals. Chunks of `enqueueN` end at every `ChunkSize`-th ID,
where the mutex is free for others. `owed` is history: work that was announced and not yet
processed.

`RangeIDQueue` is the queue in chunks with its separate count. `RaftReceiveQueues` adds the map
from range to queue object and the handlers: `LoadOrCreate`, `Append` (which may find the queue
deleted and try again), `Drain`, `Recycle`, and the two deletions.

### LockfreeTracker and ProposalBuffer

`LockfreeTracker` has one action per atomic operation of `Track`, on `bucket`, of which the
pointers `b1` and `b2` name one each; `Untrack` and `LowerBound` run while no `Track` does, as the callers' lock guarantees.

`ProposalBuffer` follows a request: lease check and `TrackEvaluatingRequest`, evaluation, `Insert`
(with a slot, waiting for one, or flushing itself), `FlushLockedWithRaftGroup` proposal by
proposal (rejections, lease index, closed timestamp, token), the way through raft (`wire`:
delivered in any order, or lost), `CheckForcedErr` and application, reproposal under the same or
a new lease index, refresh, the side transport's `BumpSideTransportClosed`, lease changes and
destruction. The tracker is `Tracker` with any answer of `LowerBound` it allows.

### SpanLatch and Signal

A request of `SpanLatch` is sequenced under the mutex (`readSet` flushed into `readTree` when a
snapshot needs it, `snap` taken, latches inserted), waits latch by latch outside of it
(`waitingOn`), with cancellation and poisoning, holds, and is removed. Optimistic requests hold
first and check, or wait, later. `met` and `earlier` are history. The interval btree is a set of
latches; its snapshots are immutable as the btree's reference counts make them.
`Signal` has each atomic operation of `signal.go` on `s.a` and `s.c`, also the idempotent form.

## 3. Runs

| Run | Instance | Checks |
|---|---|---|
| `store_liveness` | 2 stores, `s1` requests from `s2`; clocks to 6, LivenessInterval 3, idle interval 3, 1 message per round in flight; clock regressions, failing heartbeat and batch writes, 1 crash | `DurableSupport`, `DisjointSupport`, `NoSupportRegression` |
| `store_errors` | the same, but every write may fail; clocks to 5, both intervals 2, so that stores are dropped and added again | `AssertionsHold`, `CheckInFindsStore` |
| `transport` | 2 stores on one node send to a third; `failures`: buffers of 1, 2 failures of any kind, the node may stop; `ordered`: one sender, buffers of 2, no stream fails, 3 message numbers | `QueueIsServed`, `WorkerFindsQueue`, `NoLostWakeup`, `InOrder` |
| `recovery` | one sender, 3 failures of any kind, fair | `HeartbeatsRecover` |
| `scheduler` | 2 ranges, one may get priority; 1 caller; 2 workers in the regular shard, 1 in the priority shard; one kind of work at a time, or the chunked queue with chunks of 2 and 5 items | `ExclusiveProcessing`, `NoLostWork`, `OptimalConcurrency`, `ChunksAreFifo` |
| `receive_queues` | 1 range, 2 handlers, 1 worker, queues of 2, 3 queue objects | `NoStrandedMessages` |
| `proposals` | `tracker`: 3 requests at 3 timestamps; `closing`: 2 writes, 2 timestamps, 2 targets; `leases`: 2 requests, 3 leases, reproposals; `slots`: 4 inserters, an array of 1 to 2 slots, destruction | `NoLeakedTokens`, `AppliesAtMostOnce`, `ClosedTimestampsHold`, `BufferIsServed`, `ImplementsTracker` |
| `raft` | 3 peers; settings `elections`, `log`, `tail`, `turns`, `transfer`, `fortified` | `ElectionSafety`, `CommittedAgree`, `LeaderCompleteness`, `LogOfAcceptedLeader`, `LogAssertions`, `TransferTargetCaughtUp`, `FortifiedLeaderIsUnique` |
| `replication` | `flow`: a leader of term 3 and a follower whose log diverges and whose commit index is ahead, or that has nothing while the leader's log is compacted; 4 entries, 1 loss, 1 compaction, channels reordered, or in order and fair (`live`); `window`: a ring of 3; `changes`: 4 peers, changes of 2 steps | `MatchIsDurable`, `WindowAhead`, `RolesAsWanted`, `QuorumsAreCounted`, `ImplementsWindow`, `QuorumsOverlap`, `FollowerCatchesUp` |
| `latches` | 4 requests, 2 keys, workloads `Mix` and `Chain`; a signal with 2 signalers and 3 waiters | `Isolation`, `OptimisticSawAll`, `NoLeakedLatches`, `ImplementsBroadcast`, `WaitsEnd`, `SignalWakes` |
| `withdraw_error` | LivenessInterval 2, writes of withdrawals fail | `DurableSupport`: **violated** |
| `raft_sync` | 3 peers, 2 values, non-blocking sync, 1 restart | `CommittedAgree`: **violated** |

Every property of a passing run has a mutant in `PROJECT.json`: a plausible change of the code,
such as not waiting for MaxRequested after a restart, replacing `LoadOrStore` by a store, voting
twice in a term, signaling once for two ranges, or freeing one message too few, under which
TLC finds it violated.

**Why these bounds.**

* *Store Liveness.* The properties relate one requester and one supporter: every field is kept
  per pair, except the meta fields of a store, and the theorems hold for any number of stores. A
  withdrawal, a new epoch and its expiration need two liveness intervals plus the readings in
  between; with LivenessInterval 3 support overlaps several readings of both clocks, and with
  clocks to 6 a first period can expire, be withdrawn and be followed by one at the next epoch. A store
  is dropped at the second idle tick, which in `store_liveness` comes too late; in `store_errors` it
  comes in time, also with a response under way and to be followed by another request. That a store
  is added again at an epoch that the withdrawal of another store has raised takes a third store:
  `DisjointSupport` for this case rests on its proof.
  `MaxInFlight` bounds the network only when a new heartbeat round starts; responses come on top.
  `MaxCrashes` counts panics too. Deadlock is not checked: the bounded clocks end every behaviour
  and a store may stay down.
* *Transport.* With buffers of one, a full channel, a full batch and a blocked stream are all
  reached by a second message. Four queue identities are enough for one queue in the map, one
  held by each caller and one whose stream is still being read. The `ordered` setting has no
  stream failures because the code promises no order then (the comment on `Stream`: order holds
  only within one RPC call); three numbers let two messages share a stream while a third is sent on
  its successor. A node that quiesces stops, so deadlock is not checked; in `recovery` it is.
* *Scheduler.* Two ranges in one shard with two workers race for each other's wake-ups; a third
  shard or range would only repeat that. One caller suffices because its batch is a sequence of
  critical sections with signals at the end, between which the workers, and the scheduling of
  the ready flag by a processor, come in; two handlers call at once in `receive_queues`. Kinds of
  work do not interact except for ticks, which are counted, so a behaviour has one kind (and the
  ready flag). Chunks of 2 and 5 items reach a full, an emptied and a dropped chunk.
* *Proposals.* Three timestamps make a third bucket wanted while two are in use. Two writes and
  two targets reach a flush between tracking and insertion at either side of a target. Three
  lease sequences let a command be proposed under a lease, rejected under the next and retried
  under the own lease acquired again. One or two slots and four inserters are a full and an overfull
  buffer with waiters. `InPart` of `MCProposalBuffer` keeps each part to the kinds of requests it is about.
* *Raft.* Three peers: in `elections` two candidates for one term, leaders that
  step down, disks that lag and two restarts; in `log` and `tail` (two terms) a log that is overwritten
  behind nothing, and behind a shared entry, which needs a second leader that missed the first term's
  entries; in `turns` four terms with two leaders in turns, the least in which an entry of an older
  term reaches a quorum and is overwritten all the same, so that `maybeCommit` must look at the
  term; in `transfer` a target that must catch up while proposals go on; in `fortified` pre-votes
  against a supported leader, one withdrawal, one restart. Only `elections` has the non-blocking sync
  (and `raft_sync`, where it fails). The messages in `Lost` (`MCLost`) are those whose loss makes each
  scenario; heartbeats, empty appends and rejected votes where nothing depends on them; and in `tail` and
  `transfer` the answers to stale appends, which only tell of a term (`TermOnly`).
* *Replication.* The follower's log diverges by two entries behind one that it knows to be committed
  and the leader does not, so a probe is rejected at least once and the hint matters; 4 entries with
  windows of 1 and 2 fill the window; a compaction, before the election or after it, makes a snapshot
  necessary. A ring of 3 with byte limit 3 grows, wraps and is full by count and by
  bytes. Four peers and changes of two steps reach every role, staging, and a second change of
  the same peer.
* *Latches.* `Mix` has a blind write, a read-modify-write whose context ends, an optimistic scan
  with limits and a barrier; `Chain` a stuck write, one that waits behind it, and two that fail
  fast behind that one, which is the case poisoning has to travel for.

*Symmetry.* Queue identities and the senders in `transport`, the writers in `proposals`, the
handlers in `receive_queues` are interchangeable in every definition and property. None is used
where a liveness property is checked.

**Fairness.** Only liveness runs assume any, and only what the code's scheduling gives.

* `recovery`: goroutines that can run are scheduled: weak fairness of the steps of the main loop,
  of workers and of the receiver. `SendHeartbeats` and `ReceiveSig` have strong fairness: the ticker
  fires again and again and the `select` of `startLoop` picks among ready channels at random, with
  the signal enabled again whenever no tick is pending. Nothing forces a failure, and `MaxFailures`
  bounds their number: the property is about what happens once they cease.
* `replication`, setting `live`: the leader's tick sends heartbeats, what is not lost arrives and is
  handled, and the snapshot queue ends with a report (weak fairness of each). Proposals,
  compactions and losses are bounded and have none.
* `latches`: requests that wait are goroutines that run; a request that holds latches finishes,
  unless it is in `Stuck`, and then it is poisoned, which is the contract of the circuit breaker
  that calls `Poison`. `Signal`: callers of `signal` and `signalChan` are goroutines that run.

## 4. What the properties say

`DurableSupport` is the contract of the fabric towards raft; `DisjointSupport` and
`NoSupportRegression` are action properties over the answers of the two API calls.
`AssertionsHold` are the assertions in `handleHeartbeat`, and those of `handleHeartbeatResponse` for
stores that are in `supportFrom`, also again, over every message in flight. A response of a store
that is not there does fail an assertion, and the process panics (section 5): that is the step
`PanicOnHeartbeatResp`. `CheckInFindsStore` is the map lookup in `checkInUpdate` that would dereference
nil if such a response got that far. In the Transport, `QueueIsServed` says that no message is
put where nobody would ever send it from, `WorkerFindsQueue` that the `log.Fatalf` of the worker is
unreachable and that a worker never deletes another one's queue, `NoLostWakeup` that the two-step
receive of signal and messages cannot miss one, `InOrder` that a successor of an idle queue does not
overtake it, and `HeartbeatsRecover` that the whole recovers.

In raft, `ElectionSafety`, `CommittedAgree` and `LeaderCompleteness` are the classical ones; the first
holds with asynchronous writes too, the other two are checked with the blocking sync of the log, and
`CommittedAgree` fails without (section 5). `LogOfAcceptedLeader`, with blocking sync as well, is the
comment on `raftLog.accTerm`, `LogAssertions` the panics of the log (`checkMatch`, `commitTo`,
`maybeAppend`), `TransferTargetCaughtUp` what `MsgTimeoutNow` relies on, `FortifiedLeaderIsUnique` the ground
of leader leases. In flow control, `MatchIsDurable` and `WindowAhead` are the invariants in the comments
of `Progress`. `QuorumsAreCounted` checks the quorum algorithms against their definitions over all
acknowledgements and votes of each configuration that is reached.

`NoLostWork` is what the early return of `enqueue1Locked` rests on; `OptimalConcurrency` is the
derivation in the comment of `worker`; `NoStrandedMessages` that only the first append triggers.
`ClosedTimestampsHold` states the two assertions of `replica_app_batch.go` for every entry that can
apply next. The comment before each definition says more.

## 5. Findings

* `withdraw_error`: `withdrawSupport` (support_manager.go:279) logs a failed write and
  checks the update in. In TLC's behaviour, the supporter withdraws epoch 1 only in
  memory and answers a heartbeat with epoch 2; it crashes and comes back supporting
  epoch 1, extends it and tells the requester so, and raft there is told of support for
  epoch 1; then the delayed answer with epoch 2 arrives, the requester asks for epoch 2,
  and the supporter moves to it although epoch 1 was reported until later. The other two
  write paths return without checking in.
* `raft_sync`: with non-blocking synchronization of the raft log, a candidate's `MsgVote` goes out
  before its own term and vote are durable (only responses are held back, raft.go:551), and the
  votes of the other peers make it leader. If it crashes then, it restarts at the older term,
  campaigns for the same term again, is given the same votes again, and writes a different entry at
  the same index and term, which is committed although another peer has committed the first.

Observations without a run:

* A response under way while its store is removed as idle meets the zero state and fails an
  assertion of `handleHeartbeatResponse` (requester_state.go:342-374), whatever it says: the zero epoch
  is below that of every response. `AssertionsHold` is about stores that are in the map.
* `Store.Start` passes an identity without `StoreID` to the SupportManager (store.go:2207) and registers
  the handler under the real one, so responses find no handler.
* `service.proto:55-58` says that `MessageBatch.Now` "is not necessary for the correctness of the Store
  Liveness algorithm". `DisjointSupport` does depend on it, as the mutant that does not forward the
  clock shows: a requester hears of a withdrawal that the supporter's faster clock allowed, and
  SupportFrom reports the next epoch before its own clock has reached the previous expiration.
* `raftReceiveQueues.Delete` (store_raft.go:155) deletes the map entry after the queue; two deletions of
  a range may overlap, and the second then removes a queue that was created in between, with
  messages that are not drained any more. `NoStrandedMessages` is about queues in the map.
* `supportingFortifiedLeader` asserts that the epoch of `SupportFor` is not below `leadEpoch` (raft.go:1121),
  while `SupportFor` answers 0 after a withdrawal. In `Raft` such a peer stops, as the process would.
* A message of a higher term that is not the leader's makes a peer that supports a fortified leader
  change terms (raft.go:1288), against the assertion in `reset`; likewise.
* The comments "In StateSnapshot, Next == PendingSnapshot + 1" (progress.go:48) and on SentCommit (56)
  do not hold after a rejection in that state: `MaybeDecrTo` (254) lowers Next.

## 6. What is proved

Every theorem holds for every value of the constants that satisfies the named assumptions of the
module: types, and five that say something of the code: `IdleAssumption` (section 2),
`SignalersAssumption` (only an idempotent signal is given more than once), `LoadAssumption` (a
request reads only what it declared), `ConstantsAssumption` of `ProposalBuffer` (a lease lasts, the
buffer has a slot) and `ElectionsAssumption` of `Replication` (when a leader is elected, its log and that
of the follower are from earlier terms and agree up to any entry they have in common, and the leader
has all that was decided, what the follower knows of it included: raft's log matching and leader
completeness, which `Raft` is about). In particular they hold for any number of stores, peers, ranges, workers,
requests, crashes and failures, and for any bounds.

| Module | Theorem | States |
|---|---|---|
| `StoreLivenessProofs` | `TypeCorrect` | `Spec => []TypeOK` |
| | `SupportIsDurable` | `Spec => []DurableSupport`, unless writes of withdrawals fail |
| | `SupportIsDisjoint` | `Spec => DisjointSupport`, likewise |
| | `SupportNeverRegresses` | `Spec => NoSupportRegression`, likewise |
| | `HandlerAssertionsHold` | `Spec => []AssertionsHold` |
| | `CheckInAlwaysFindsStore` | `Spec => []CheckInFindsStore` |
| `StoreLivenessTransportProofs` | `QueuesAreServed` | `Spec => []QueueIsServed` |
| | `WorkersFindTheirQueue` | `Spec => []WorkerFindsQueue` |
| | `WakeupsAreNotLost` | `Spec => []NoLostWakeup` |
| `RaftProofs` | `ElectionsAreSafe` | `Spec => []ElectionSafety` |
| | `VotesAreSound` | the inductive invariant behind it |
| `RaftSchedulerProofs` | `ProcessingIsExclusive` | `Spec => []ExclusiveProcessing` |
| | `WorkIsNotLost` | `Spec => []NoLostWork` |
| | `TicksMatchFlags` | the assertion on ticks in `worker` |
| | `ConcurrencyIsOptimal` | `Spec => []OptimalConcurrency` |
| | `MessagesAreDrained` | `RecvSpec => []NoStrandedMessages` |
| `SpanLatchProofs` | `LatchesIsolate` | `Spec => []Isolation` |
| | `OptimisticIsIsolated` | `Spec => []OptimisticSawAll` |
| | `LatchesAreNotLeaked` | `Spec => []NoLeakedLatches` |
| | `SignalNeverPanics` | no signal is given twice, no channel closed twice |
| | `SignalRefinement` | `SignalSpec => ImplementsBroadcast` |
| `LockfreeTrackerProofs` | `TypeCorrect`, `OrderedBuckets`, `NoEmptyInitializedBucket` | the implementation invariants in the comment of `Track` |
| | `Refinement` | `TrackerSpec => ImplementsTracker` |
| `ReplicationProofs` | `MatchedIsDurable` | `Spec => []MatchIsDurable` |
| | `WindowStaysAhead` | `Spec => []WindowAhead` |
| | `RingTypeCorrect` | the window lies inside the buffer |
| | `RingRefinement` | `InflightsSpec => ImplementsWindow` |
| `ProposalBufferProofs` | `NoWriteBelowClosed` | `Spec => []ClosedTimestampsHold` |
| | `CommandsApplyOnce` | `Spec => []AppliesAtMostOnce` |
| | `TokensAreReturned` | `Spec => []NoLeakedTokens` |
| | `SlotsAreFlushed` | `Spec => []BufferIsServed` |

**Store Liveness.** `DurableSupport` relates an answer given on one store to the state of another, so
nothing is inductive before everything a promise passes through is covered: the supporter's batch in
progress, its responses not yet sent, the responses in flight, the requester's batch, its
`supportFrom`, the answer. `Inv` (`StoreLivenessInv`) calls a promise *live* if it can still reach
raft: its requester runs, has not reached the expiration, and does not yet request a later epoch
(`Floor`). `PromisesAreCovered` says that a live promise is covered by the supporter's disk: by the
persisted state, or by a MaxWithdrawn that has passed it, to which every clock that is up has been
forwarded (`ClocksCaughtUp`). It also says that a live promise is superseded only with news of its
end: any response with a later epoch carries a clock beyond its expiration. This is where the clock
in the messages is needed: hearing of the later epoch forwards the requester's clock, and the promise
is no longer live. `RequestsArePersisted` and `EpochsArePersisted` bound every expiration and every
supported epoch by what the requester has on disk: so a restarted requester, which waits for
MaxRequested and increments MaxEpoch, has no live promise and is above all earlier ones.
`ReportsAreKnown` carries the answer along, and `IdleSupportExpires` shows that what
`removeIdleStores` forgets has expired. `MemoryIsDurable` is the part that a failing write of a
withdrawal breaks, hence the hypothesis (section 5). There is one lemma per action; most change one
store, and `QuietStep`, `QuietAt` and `InvAt` reduce them to the conjuncts that mention it.
`SupportNeverRegresses` adds that the disk is never behind what a store that is down last reported.

That no assertion of a handler fires, and that `checkInUpdate` finds the stores it changes, is a second
argument, with no hypothesis (`HandlerInv`). On the requester every round of heartbeats asks for a later
expiration and an epoch that is not lower, so what it requested only grows (`RequestsGrow`); on the
supporter what is provided comes from a heartbeat that was sent (`ProvidedFromHeartbeats`), and a
response beyond that is a withdrawal, with the next epoch and expiration zero. `OrderKept` puts the two
together: whatever order responses come in, the fields compared by the assertions are in order. A
response from a store that is no key of `supportFrom` is outside of `AssertionsHold`: it fails the checks
of the handler, so it never becomes part of the update that is checked in.

**Transport.** Two callers may both find no queue, but only one of them creates it, and from then on
nobody else can start its worker (`StartersOwnTheirQueue`); a queue serves one link
(`QueuesAreDistinct`), so the deletion by a worker, or by a caller whose worker was refused, removes
exactly its own. With `QueueIsServed` and `WorkerFindsQueue` these are inductive.

**Raft.** `ElectionInv` follows the vote of a peer. A grant is held in `after` until the vote it stands
for is on disk; then it joins `pledges`. The vote on disk is a lower bound of the vote in memory, and
stands behind all that was pledged; a grant is added only for the vote in memory; so there is one vote
per term among the grants that were sent and those held back together, also when a crash throws the
latter away. A candidate was pledged every vote it counted, a leader those of a quorum, and two
quorums of a finite set of peers have one in common. Handlers are operators from record to record, so
each has a lemma; most are `Inert`, they do not touch what elections are about. Note that the theorem
covers `NonBlockingSync`, where `CommittedAgree` fails (`raft_sync`): the same peer is elected twice.

**Scheduler.** All turns on the Queued flag: in a shard, a range has it if and only if it is in the queue
or a worker processes it (`FlagsHold`), and no other flag is set without it. Whoever finds it unset may
push the range, which keeps it queued once; who finds it set may leave the range alone, since the
worker looks at the flags again, under the mutex, before it forgets the range. `CallInv` says what a
caller has still to announce: nothing of the shard it signals. `TicksHold` is inductive by itself, and
is the assertion that race builds make.

`OptimalConcurrency` says that as many workers of a shard are awake, or about to be woken, as there are
ranges in its queue, as far as there are workers. A worker goes to sleep only when the queue is empty;
who pushes a range counts a signal for it, a caller that pushes many gives one broadcast or one signal
for each; a worker that puts a range back has stopped processing it, so the sum does not change.
`CountsHold` says of a call that has counted signals that it has something left to enqueue in the shard, or
gives them next. The signals under way are a set, which `SignalsFinite` shows to be finite, so that their
number is a number.

**Receive queues.** A step of `RaftReceiveQueues` is a step of the scheduler or leaves it alone, so the
scheduler's invariant holds there too (`RecvUsesScheduler`). `RecvInv` adds that a queue object never
serves two ranges (`QueuesHaveOneRange`), so the handler that is about to enqueue for a queue enqueues
the range whose queue it is; that an object is empty when it is created; and that a worker inside
`processRequestQueue` still has the request flag, and one without work has none (`DrainersProcess`), so
the flag is consumed exactly with the drain. The drain to come is then passed on from handler to
caller, to the state of the shard, to the worker, and ends in a `Drain` that empties the queue, or in
the deletion of the queue from the map.

**Proposal buffer.** `Inv` follows a request. Until it is sequenced it has a token: a write is tracked,
above everything that is assigned to be closed, and the lower bound of the tracker keeps it so
(`TrackedHolds`). When a flush sequences it, its lease index is above and its closed timestamp not
below those of all that were sequenced before, and its write is above what these close (`InOrder`,
`SequencedHolds`); so it does not matter in which order raft delivers them, or which it loses. From then
on all entries of one generation are copies of one another, and once one of them is applied or rejected
the others are dead (`EntryHolds`); only then may the command be proposed with another index
(`RetryHolds`), as the next generation. A new lease kills everything proposed before it, and starts
above all that the earlier ones closed (`BoundsHold`), also what the side transport closed, which acts
only when nothing is in flight. `SlotsAreServed` is about the array: an allocation beyond the size means
that a request is about to flush, and every slot taken since the last flush began has an update check
behind it. Of the tracker only `Tracker` is used. Steps that leave the lease and what is applied and
assigned alone share one lemma (`RequestsKept`), which asks for each request whether it stays, moves,
starts or is retried; sequencing, application and a new lease each have their own.

**Replication.** `Inv` of `ReplicationProofs` makes one kind of claim, that the follower's log agrees with
the leader's up to an index (`Agreed`): of `Match`, of the match that an append or a heartbeat carries, of
the index that an answer accepts, of what the follower has committed. No step of either side makes such a
claim false, which is why lost, old and reordered messages do no harm. Nothing is claimed of the two
commit indexes against each other: the follower's may be ahead, but not of what was `decided` before the
election or committed by the leader since, and the leader's log holds that. An append that overwrites part of
the follower's log does so from the first entry that differs, and nothing beyond it was claimed
(`DiffersAbove`). New claims come from an append or a snapshot that fits: there the terms are equal, so by
log matching all before is equal (`FitsAgrees`); log matching of the two logs is itself part of `Inv`. A
heartbeat may commit what it does not carry, because `accTerm` equals the term only if the whole log of the
follower agrees, also when it is recovered from the last entry after a restart. On the leader's side each
operator from state to state has a lemma: whatever state `Progress` is in, and whether a rejection is
stale or not, the result satisfies `ProgressHolds`. The appends of one acknowledgement are sent in a loop,
and that the state holds after each of them is an induction over the natural numbers, which
goes through by way of a least counterexample (`NatMin`, from the well-foundedness of `<`).

**Latches.** Of two requests present in the trees, one has the other's latches in its snapshot, at
least those it may conflict with (`SnapshotsHold`): a read sequenced after another read has not seen it
and need not. The one that has seen the other holds only after having waited for it, or having found
that what it really read does not conflict. For optimistic requests, which run first and check later,
`MetHolds` says that everybody who held latches meanwhile and conflicts is in the snapshot (`Seen`), so
that the check finds it: released requests stay in the snapshot.

**Refinements.** The tracker: buckets in order, counts equal to the requests in them, an empty bucket
initialized only by a `Track` about to join it, and what a `Track` in flight has chosen still valid when
it acts (`InFlightChoice`). The ring buffer: two places of the window never share a cell, also while
the buffer is shorter than `Size` and grows; freeing stops at the first message that is not covered,
which is right because the indexes are in order. The signal: who is about to close the channel is
alone (`Closers`), and nobody was handed a closed channel before the signal (`CallersSaw`).

Each invariant was also checked with TLC, on the instance of the run that checks the property.

## 7. What is only model-checked

* Liveness (`HeartbeatsRecover`, `FollowerCatchesUp`, `WaitsEnd`, `SignalWakes`): the prover has no rules for
  fairness.
* `CommittedAgree`, `LeaderCompleteness`, `LogOfAcceptedLeader`, `LogAssertions`, `TransferTargetCaughtUp`,
  `FortifiedLeaderIsUnique`: they need invariants on logs, ledgers and quorums of acknowledgements on
  top of `ElectionInv`, and, for the first three, the hypothesis that the sync is blocking.
* `QuorumsAreCounted` is about sorting, which needs induction over data; `ChunksAreFifo` needs facts on
  concatenations of chunks.
* `InOrder` needs an order on everything in the pipeline of a link.
* `RolesAsWanted`, `QuorumsOverlap`: in reach, not proved yet.

## 8. What is not modelled

* Of Store Liveness: metrics, logging, the version gate (a store may be in `Enabled` or not),
  encodings of keys and protos, errors of reads at start, writes into an uncommitted batch that fail
  (memory only). The idle ticker is a least distance between two clock readings, which a late tick or a
  clock that jumps need not keep. Of the HLC: the upper bound check, which panics. Eventual withdrawal: clocks are
  bounded counters, so behaviours of `StoreLiveness` end.
* Of raft: snapshots inside the group, quiescence, proposal forwarding, learners, the application of
  configuration changes at different times by different peers; several followers in one `Replication`.
* Of the receive queues: that a range which is unlinked loses its priority (`RemovePriorityID`); no range of
  `RaftReceiveQueues` has any, and `RaftScheduler` has the action.
* Of the write path: lease transfers and extensions, application in batches, admission control, and
  how followers use closed timestamps; the refresh after a snapshot was applied (replica_raft.go:1514-1531),
  which ends what the snapshot may contain with an ambiguous error; the rejection of writes below the
  GC threshold and of probes (forced_error.go:246-265), which only keeps more commands from applying; in a flush
  the sanity check (`log.Fatalf`) that a request does not write below the lower bound of the tracker (replica_proposal_buf.go:459-471) and the errors of marshalling
  and of decoding configuration changes, after which the proposal has failed.
* The other components of `PROJECT.json`: SQL, storage and the like are out of reach of a model checker;
  transaction recovery, the wait queue, the lock table, leases and node liveness are candidates.

## 9. Plan

1. `RolesAsWanted` and `QuorumsOverlap` of `RaftConfChange`.
2. `InOrder` of the Transport.
3. Log invariants of `Raft` with blocking sync, towards `CommittedAgree`.
4. An abstract specification of the support fabric that `StoreLiveness` implements; eventual withdrawal in
   a model with differences of clocks.
