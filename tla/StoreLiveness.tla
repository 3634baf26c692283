---------------------------- MODULE StoreLiveness ----------------------------
(***************************************************************************)
(* The Store Liveness fabric (pkg/kv/kvserver/storeliveness): every store   *)
(* runs one SupportManager, which requests support from remote stores with  *)
(* heartbeats and provides support to the stores that heartbeat it.         *)
(*                                                                          *)
(* Timestamps are HLC readings; 0 is the empty timestamp.  hlc.Clock.Now    *)
(* returns a value above every earlier reading, so an action that reads the *)
(* clock picks any later value: the time that passed since the last         *)
(* reading.  A message carries the clock of its sender (MessageBatch.Now),  *)
(* which the receiving Transport forwards its own clock to.                 *)
(*                                                                          *)
(* The receive queue is folded into the network: a queued message is one    *)
(* that has not been handled yet.  A batch of drained messages is handled   *)
(* message by message on the inProgress view, then written to disk and      *)
(* checked in; callers of SupportFor and SupportFrom run in between.        *)
(***************************************************************************)
EXTENDS Integers, FiniteSets

CONSTANTS
  Stores,                       \* the stores of the cluster, one per node
  Remotes,                      \* Remotes[s]: the stores that raft on s queries with SupportFrom
  LivenessInterval,             \* Options.LivenessInterval
  IdleSupportFromInterval,      \* least time between two executions of removeIdleStores
  SupportWithdrawalGracePeriod, \* Options.SupportWithdrawalGracePeriod
  MaxOffset,                    \* hlc.Clock's maxOffset
  ClockRegression,              \* may the clock of a node regress when it restarts
  WriteErrors,                  \* the operations whose disk writes may fail
  Enabled,                      \* the stores on which SupportFromEnabled may be true
  MaxClock,                     \* bound on every clock
  MaxInFlight,                  \* bound on the messages in flight when a heartbeat round starts
  MaxCrashes                    \* bound on the number of crashes and panics

Operations == {"heartbeat", "withdraw", "batch"}

ASSUME ConstantsAssumption ==
  /\ Remotes \in [Stores -> SUBSET Stores]
  /\ LivenessInterval \in Nat \ {0}
  /\ IdleSupportFromInterval \in Nat
  /\ SupportWithdrawalGracePeriod \in Nat
  /\ MaxOffset \in Nat
  /\ ClockRegression \in BOOLEAN
  /\ WriteErrors \subseteq Operations
  /\ Enabled \subseteq Stores
  /\ MaxClock \in Nat
  /\ MaxInFlight \in Nat
  /\ MaxCrashes \in Nat

\* removeIdleStores runs on a ticker of one minute, LivenessInterval is a few
\* seconds: between two executions every answer given before the first expires.
ASSUME IdleAssumption == IdleSupportFromInterval >= LivenessInterval

VARIABLES
  status,           \* "down", "starting" (onRestart is waiting) or "running"
  clock,            \* the HLC of the store's node
  diskMaxEpoch,     \* the persisted RequesterMeta.MaxEpoch
  diskMaxRequested, \* the persisted RequesterMeta.MaxRequested
  diskMaxWithdrawn, \* the persisted SupporterMeta.MaxWithdrawn
  diskSupportFor,   \* the persisted SupportStates
  maxEpoch,         \* requesterState.meta.MaxEpoch
  maxRequested,     \* requesterState.meta.MaxRequested
  requested,        \* the keys of requesterState.supportFrom
  supportFrom,      \* requesterState.supportFrom[t].state, the zero state if t is no key
  recentlyQueried,  \* the keys whose recentlyQueried flag is set
  storesToAdd,      \* SupportManager.storesToAdd
  maxWithdrawn,     \* supporterState.meta.MaxWithdrawn
  supportFor,       \* supporterState.supportFor, the zero state if t is no key
  minWithdrawalTS,  \* SupportManager.minWithdrawalTS
  idleTS,           \* when removeIdleStores last ran, or the loop started
  inProgress,       \* the inProgress views of the batch being handled
  leaked,           \* the state handlers whose update was never checked in
  network,          \* messages sent and not yet handled
  crashes,          \* number of crashes and panics so far
  answer            \* history: the latest support SupportFrom reported to raft

disk == <<diskMaxEpoch, diskMaxRequested, diskMaxWithdrawn, diskSupportFor>>
requesterVars == <<maxEpoch, maxRequested, requested, supportFrom, recentlyQueried, storesToAdd>>
supporterVars == <<maxWithdrawn, supportFor, minWithdrawalTS>>
vars == <<status, clock, disk, requesterVars, supporterVars, idleTS,
          inProgress, leaked, network, crashes, answer>>

Timestamps == Nat
Epochs == Nat
SupportState == [epoch : Epochs, expiration : Timestamps]
ZeroState == [epoch |-> 0, expiration |-> 0]
Message == [type : {"MsgHeartbeat", "MsgHeartbeatResp"}, from : Stores, to : Stores,
            epoch : Epochs, expiration : Timestamps, now : Timestamps]
Response == [to : Stores, epoch : Epochs, expiration : Timestamps]
Update == [open : {TRUE}, maxEpoch : Epochs, supportFrom : [Stores -> SupportState],
           supportFor : [Stores -> SupportState], responses : SUBSET Response]

\* No update is checked out.
NoUpdate == [open |-> FALSE, maxEpoch |-> 0, supportFrom |-> [t \in Stores |-> ZeroState],
             supportFor |-> [t \in Stores |-> ZeroState], responses |-> {}]

\* hlc.Timestamp.Forward
Forward(ts, other) == IF ts < other THEN other ELSE ts

\* hlc.Clock.Now: the readings the clock of s may return next.
Now(s) == (clock[s] + 1)..MaxClock

Init ==
  /\ status = [s \in Stores |-> "down"]
  /\ clock = [s \in Stores |-> 0]
  /\ diskMaxEpoch = [s \in Stores |-> 0]
  /\ diskMaxRequested = [s \in Stores |-> 0]
  /\ diskMaxWithdrawn = [s \in Stores |-> 0]
  /\ diskSupportFor = [s \in Stores |-> [t \in Stores |-> ZeroState]]
  /\ maxEpoch = [s \in Stores |-> 0]
  /\ maxRequested = [s \in Stores |-> 0]
  /\ requested = [s \in Stores |-> {}]
  /\ supportFrom = [s \in Stores |-> [t \in Stores |-> ZeroState]]
  /\ recentlyQueried = [s \in Stores |-> {}]
  /\ storesToAdd = [s \in Stores |-> {}]
  /\ maxWithdrawn = [s \in Stores |-> 0]
  /\ supportFor = [s \in Stores |-> [t \in Stores |-> ZeroState]]
  /\ minWithdrawalTS = [s \in Stores |-> 0]
  /\ idleTS = [s \in Stores |-> 0]
  /\ inProgress = [s \in Stores |-> NoUpdate]
  /\ leaked = [s \in Stores |-> {}]
  /\ network = {}
  /\ crashes = 0
  /\ answer = [s \in Stores |-> [t \in Stores |-> ZeroState]]

------------------------------------------------------------------------------
(* The Fabric API.                                                            *)

\* SupportManager.SupportFor(t) on s, a pair of the epoch and whether t is supported.
SupportFor(s, t) ==
  IF supportFor[s][t].expiration = 0 THEN <<0, FALSE>> ELSE <<supportFor[s][t].epoch, TRUE>>

\* SupportFrom for a store that is a key of supportFrom.
SupportFrom(s, t) ==
  /\ status[s] = "running"
  /\ t \in Remotes[s] \cap requested[s]
  /\ recentlyQueried' = [recentlyQueried EXCEPT ![s] = @ \cup {t}]
  /\ answer' = [answer EXCEPT ![s][t] =
                  IF supportFrom[s][t].expiration = 0 THEN @ ELSE supportFrom[s][t]]
  /\ UNCHANGED <<status, clock, disk, maxEpoch, maxRequested, requested, supportFrom,
                 storesToAdd, supporterVars, idleTS, inProgress, leaked, network, crashes>>

\* SupportFrom for a store that is not: it is added before the next heartbeats.
SupportFromUnknown(s, t) ==
  /\ status[s] = "running"
  /\ t \in Remotes[s] \ requested[s]
  /\ storesToAdd' = [storesToAdd EXCEPT ![s] = @ \cup {t}]
  /\ UNCHANGED <<status, clock, disk, maxEpoch, maxRequested, requested, supportFrom,
                 recentlyQueried, supporterVars, idleTS, inProgress, leaked, network,
                 crashes, answer>>

------------------------------------------------------------------------------
(* Crash and restart.                                                         *)

\* The process of s ends: everything that is not on disk is gone.  Nobody reads
\* supportFor until Start overwrites it; it keeps what SupportFor last reported
\* so that the value read back from disk can be compared with it.
LoseMemory(s) ==
  /\ status' = [status EXCEPT ![s] = "down"]
  /\ maxEpoch' = [maxEpoch EXCEPT ![s] = 0]
  /\ maxRequested' = [maxRequested EXCEPT ![s] = 0]
  /\ requested' = [requested EXCEPT ![s] = {}]
  /\ supportFrom' = [supportFrom EXCEPT ![s] = [t \in Stores |-> ZeroState]]
  /\ recentlyQueried' = [recentlyQueried EXCEPT ![s] = {}]
  /\ storesToAdd' = [storesToAdd EXCEPT ![s] = {}]
  /\ maxWithdrawn' = [maxWithdrawn EXCEPT ![s] = 0]
  /\ UNCHANGED supportFor
  /\ minWithdrawalTS' = [minWithdrawalTS EXCEPT ![s] = 0]
  /\ idleTS' = [idleTS EXCEPT ![s] = 0]
  /\ inProgress' = [inProgress EXCEPT ![s] = NoUpdate]
  /\ leaked' = [leaked EXCEPT ![s] = {}]
  /\ crashes < MaxCrashes
  /\ crashes' = crashes + 1

Crash(s) ==
  /\ status[s] # "down"
  /\ LoseMemory(s)
  /\ UNCHANGED <<clock, disk, network, answer>>

\* checkOutUpdate panics on an update that was never checked back in.
PanicOnCheckOut(s) ==
  /\ leaked[s] # {}
  /\ LoseMemory(s)
  /\ UNCHANGED <<clock, disk, network, answer>>

\* UpdateAndCheckMaxOffset(MaxWithdrawn): the clock that read physical at the restart.
StartClock_NotForwarded(s, physical) == physical
StartClock(s, physical) == Forward(physical, diskMaxWithdrawn[s])

\* onRestart up to SleepUntil: read both states from disk, forward the clock,
\* which may have regressed, to MaxWithdrawn.  Further behind than MaxOffset,
\* Start returns an error and the store stays down.
Start(s) ==
  /\ status[s] = "down"
  /\ \E physical \in (IF ClockRegression THEN 0 ELSE clock[s])..MaxClock :
       /\ MaxOffset = 0 \/ diskMaxWithdrawn[s] - physical <= MaxOffset
       /\ clock' = [clock EXCEPT ![s] = StartClock(s, physical)]
  /\ status' = [status EXCEPT ![s] = "starting"]
  /\ maxEpoch' = [maxEpoch EXCEPT ![s] = diskMaxEpoch[s]]
  /\ maxRequested' = [maxRequested EXCEPT ![s] = diskMaxRequested[s]]
  /\ maxWithdrawn' = [maxWithdrawn EXCEPT ![s] = diskMaxWithdrawn[s]]
  /\ supportFor' = [supportFor EXCEPT ![s] = diskSupportFor[s]]
  /\ UNCHANGED <<disk, requested, supportFrom, recentlyQueried, storesToAdd, minWithdrawalTS,
                 idleTS, inProgress, leaked, network, crashes, answer>>

\* SleepUntil(MaxRequested) returns when the clock has passed MaxRequested.
SleepUntilDone_NoWait(s, now) == TRUE
SleepUntilDone(s, now) == maxRequested[s] < now

\* onRestart from the end of SleepUntil: the clock has reached MaxRequested and
\* is read once more for the grace period; MaxEpoch is incremented and written.
FinishStart(s) ==
  /\ status[s] = "starting"
  /\ \E now \in Now(s) :
       /\ SleepUntilDone(s, now)
       /\ clock' = [clock EXCEPT ![s] = now]
       /\ minWithdrawalTS' = [minWithdrawalTS EXCEPT ![s] = now + SupportWithdrawalGracePeriod]
       /\ idleTS' = [idleTS EXCEPT ![s] = now]
  /\ status' = [status EXCEPT ![s] = "running"]
  /\ maxEpoch' = [maxEpoch EXCEPT ![s] = @ + 1]
  /\ diskMaxEpoch' = [diskMaxEpoch EXCEPT ![s] = maxEpoch[s] + 1]
  /\ UNCHANGED <<diskMaxRequested, diskMaxWithdrawn, diskSupportFor, maxRequested, requested, supportFrom, recentlyQueried, storesToAdd,
                 maxWithdrawn, supportFor, inProgress, leaked, network, crashes, answer>>

------------------------------------------------------------------------------
(* The main loop of SupportManager, one goroutine: while a batch is being     *)
(* handled nothing else runs.                                                 *)

LoopReady(s) == status[s] = "running" /\ ~inProgress[s].open

\* The support addStore requests: none yet, for the current epoch.
NewSupport_ZeroEpoch(s) == ZeroState
NewSupport(s) == [epoch |-> maxEpoch[s], expiration |-> 0]

\* maybeAddStores: requesterStateHandler.addStore for every store of storesToAdd.
AddStores(s) ==
  LET added == storesToAdd[s] \ requested[s]
  IN  /\ requested' = [requested EXCEPT ![s] = @ \cup added]
      /\ supportFrom' = [supportFrom EXCEPT ![s] =
           [t \in Stores |-> IF t \in added THEN NewSupport(s) ELSE @[t]]]
      /\ recentlyQueried' = [recentlyQueried EXCEPT ![s] = @ \cup added]
      /\ storesToAdd' = [storesToAdd EXCEPT ![s] = {}]

\* A heartbeat tick while SupportFromEnabled is false only adds stores.
HeartbeatTickDisabled(s) ==
  /\ LoopReady(s)
  /\ "requester" \notin leaked[s]
  /\ storesToAdd[s] # {}
  /\ AddStores(s)
  /\ UNCHANGED <<status, clock, disk, maxEpoch, maxRequested, supporterVars, idleTS,
                 inProgress, leaked, network, crashes, answer>>

\* A heartbeat tick: MaxRequested is forwarded and written before any heartbeat is sent.
SendHeartbeats(s) ==
  /\ s \in Enabled
  /\ Cardinality(network) < MaxInFlight
  /\ LoopReady(s)
  /\ "requester" \notin leaked[s]
  /\ AddStores(s)
  /\ \E now \in Now(s) :
       LET newMaxRequested == Forward(maxRequested[s], now + LivenessInterval)
       IN  /\ clock' = [clock EXCEPT ![s] = now]
           /\ maxRequested' = [maxRequested EXCEPT ![s] = newMaxRequested]
           /\ diskMaxRequested' = [diskMaxRequested EXCEPT ![s] = newMaxRequested]
           /\ network' = network \cup
                {[type |-> "MsgHeartbeat", from |-> s, to |-> t, now |-> now,
                  epoch |-> supportFrom'[s][t].epoch, expiration |-> newMaxRequested] :
                 t \in requested'[s]}
  /\ UNCHANGED <<status, diskMaxEpoch, diskMaxWithdrawn, diskSupportFor, maxEpoch,
                 supporterVars, idleTS, inProgress, leaked, crashes, answer>>

\* The write fails: no heartbeat is sent and the update is not checked in.
SendHeartbeatsWriteError(s) ==
  /\ "heartbeat" \in WriteErrors
  /\ s \in Enabled
  /\ LoopReady(s)
  /\ "requester" \notin leaked[s]
  /\ AddStores(s)
  /\ \E now \in Now(s) : clock' = [clock EXCEPT ![s] = now]
  /\ leaked' = [leaked EXCEPT ![s] = @ \cup {"requester"}]
  /\ UNCHANGED <<status, disk, maxEpoch, maxRequested, supporterVars, idleTS,
                 inProgress, network, crashes, answer>>

\* requesterStateHandler.removeIdleStores
RemoveIdleStores(s) ==
  /\ LoopReady(s)
  /\ "requester" \notin leaked[s]
  /\ \E now \in Now(s) :
       /\ idleTS[s] + IdleSupportFromInterval <= now
       /\ clock' = [clock EXCEPT ![s] = now]
       /\ idleTS' = [idleTS EXCEPT ![s] = now]
  /\ requested' = [requested EXCEPT ![s] = @ \cap recentlyQueried[s]]
  /\ supportFrom' = [supportFrom EXCEPT ![s] =
       [t \in Stores |-> IF t \in recentlyQueried[s] THEN @[t] ELSE ZeroState]]
  /\ recentlyQueried' = [recentlyQueried EXCEPT ![s] = {}]
  /\ UNCHANGED <<status, disk, maxEpoch, maxRequested, storesToAdd, supporterVars,
                 inProgress, leaked, network, crashes, answer>>

------------------------------------------------------------------------------
(* Withdrawing support.                                                       *)

\* The stores whose support maybeWithdrawSupport withdraws at now.
Expired(s, now) == {t \in Stores : /\ supportFor[s][t].expiration # 0
                                   /\ supportFor[s][t].expiration <= now}

\* supportFor after withdrawing from the stores of W.
Withdraw(states, W) ==
  [t \in Stores |-> IF t \in W THEN [epoch |-> states[t].epoch + 1, expiration |-> 0]
                               ELSE states[t]]

\* supporterStateForUpdate.write, cut short after MaxWithdrawn and the states of W.
WriteWithdrawal(s, now, W) ==
  /\ diskMaxWithdrawn' = [diskMaxWithdrawn EXCEPT ![s] = Forward(maxWithdrawn[s], now)]
  /\ diskSupportFor' = [diskSupportFor EXCEPT ![s] =
       [t \in Stores |-> IF t \in W THEN Withdraw(supportFor[s], W)[t] ELSE @[t]]]
  /\ UNCHANGED <<diskMaxEpoch, diskMaxRequested>>

CanWithdraw(s, now) ==
  /\ LoopReady(s)
  /\ "supporter" \notin leaked[s]
  /\ minWithdrawalTS[s] <= now
  /\ Expired(s, now) # {}

CheckInWithdrawal(s, now) ==
  /\ clock' = [clock EXCEPT ![s] = now]
  /\ maxWithdrawn' = [maxWithdrawn EXCEPT ![s] = Forward(@, now)]
  /\ supportFor' = [supportFor EXCEPT ![s] = Withdraw(@, Expired(s, now))]
  /\ UNCHANGED <<status, requesterVars, minWithdrawalTS, idleTS, inProgress, leaked,
                 network, crashes, answer>>

WithdrawSupport(s) ==
  \E now \in Now(s) :
    /\ CanWithdraw(s, now)
    /\ WriteWithdrawal(s, now, Expired(s, now))
    /\ CheckInWithdrawal(s, now)

\* The first write, or a later one, fails: the error is logged and the update
\* is checked in all the same.
WithdrawSupportWriteError(s) ==
  /\ "withdraw" \in WriteErrors
  /\ \E now \in Now(s) :
       /\ CanWithdraw(s, now)
       /\ \/ UNCHANGED disk
          \/ \E W \in SUBSET Expired(s, now) :
               W # Expired(s, now) /\ WriteWithdrawal(s, now, W)
       /\ CheckInWithdrawal(s, now)

\* The writes are not one batch: the process may end between two of them.
CrashInWithdrawSupport(s) ==
  /\ \E now \in Now(s) :
       /\ CanWithdraw(s, now)
       /\ \E W \in SUBSET Expired(s, now) : WriteWithdrawal(s, now, W)
       /\ clock' = [clock EXCEPT ![s] = now]
  /\ LoseMemory(s)
  /\ UNCHANGED <<network, answer>>

------------------------------------------------------------------------------
(* Handling messages.                                                         *)

\* reset of both updates.
Reset(s) == inProgress' = [inProgress EXCEPT ![s] = NoUpdate]

\* The views of a batch: checked out by its first message.
CheckedOut(s) ==
  IF inProgress[s].open THEN inProgress[s]
  ELSE [open |-> TRUE, maxEpoch |-> maxEpoch[s], supportFrom |-> supportFrom[s],
        supportFor |-> supportFor[s], responses |-> {}]

\* hlc.Clock.Update with the clock of the sender.
ReceivedClock_NotForwarded(s, m) == clock[s]
ReceivedClock(s, m) == Forward(clock[s], m.now)

\* A message for s is taken off the network; Transport.Stream has forwarded the clock.
Receive(s, m) ==
  /\ status[s] = "running"
  /\ leaked[s] = {}
  /\ m.to = s
  /\ clock' = [clock EXCEPT ![s] = ReceivedClock(s, m)]
  /\ network' = network \ {m}

\* handleHeartbeat and its assertion.
HandleHeartbeat_AnyEpoch(ss, m) ==
  IF ss.epoch # m.epoch THEN [epoch |-> m.epoch, expiration |-> m.expiration]
  ELSE [ss EXCEPT !.expiration = Forward(@, m.expiration)]
HandleHeartbeat(ss, m) ==
  IF ss.epoch < m.epoch THEN [epoch |-> m.epoch, expiration |-> m.expiration]
  ELSE IF ss.epoch = m.epoch THEN [ss EXCEPT !.expiration = Forward(@, m.expiration)]
  ELSE ss

HeartbeatAssertion(ss, m) == ss.epoch < m.epoch => ss.expiration < m.expiration

ReceiveHeartbeat(s, m) ==
  LET view  == CheckedOut(s)
      ss    == view.supportFor[m.from]
      ssNew == HandleHeartbeat(ss, m)
  IN  /\ m.type = "MsgHeartbeat"
      /\ Receive(s, m)
      /\ HeartbeatAssertion(ss, m)
      /\ inProgress' = [inProgress EXCEPT ![s] =
           [view EXCEPT !.supportFor[m.from] = ssNew,
                        !.responses = @ \cup {[to |-> m.from, epoch |-> ssNew.epoch,
                                               expiration |-> ssNew.expiration]}]]
      /\ UNCHANGED <<status, disk, requesterVars, supporterVars, idleTS, leaked, crashes, answer>>

\* handleHeartbeatResponse: the new state, the new MaxEpoch and the assertions.
HandleHeartbeatResp(ss, m) ==
  IF ss.epoch < m.epoch THEN [epoch |-> m.epoch, expiration |-> m.expiration]
  ELSE IF ss.epoch = m.epoch THEN [ss EXCEPT !.expiration = Forward(@, m.expiration)]
  ELSE ss

HeartbeatRespAssertions(ss, m) ==
  ss.epoch < m.epoch => ss.epoch = m.epoch - 1 /\ m.expiration = 0

ReceiveHeartbeatResp(s, m) ==
  LET view == CheckedOut(s)
      ss   == view.supportFrom[m.from]
  IN  /\ m.type = "MsgHeartbeatResp"
      /\ Receive(s, m)
      /\ HeartbeatRespAssertions(ss, m)
      /\ inProgress' = [inProgress EXCEPT ![s] =
           [view EXCEPT !.maxEpoch = Forward(@, m.epoch),
                        !.supportFrom[m.from] = HandleHeartbeatResp(ss, m)]]
      /\ UNCHANGED <<status, disk, requesterVars, supporterVars, idleTS, leaked, crashes, answer>>

\* An assertion of handleHeartbeatResponse fails: the process panics.
PanicOnHeartbeatResp(s, m) ==
  /\ m.type = "MsgHeartbeatResp"
  /\ Receive(s, m)
  /\ ~HeartbeatRespAssertions(CheckedOut(s).supportFrom[m.from], m)
  /\ LoseMemory(s)
  /\ UNCHANGED <<disk, answer>>

\* The rest of handleMessages: one synced batch writes what changed, both
\* updates are checked in and the responses sent.  checkInUpdate writes through
\* the pointer it finds in supportFrom, which must be there.
CommitBatch(s) ==
  LET view == inProgress[s]
  IN  /\ view.open
      /\ \A t \in Stores : view.supportFrom[t] # supportFrom[s][t] => t \in requested[s]
      /\ diskMaxEpoch' = [diskMaxEpoch EXCEPT ![s] = view.maxEpoch]
      /\ diskSupportFor' = [diskSupportFor EXCEPT ![s] =
           [t \in Stores |-> IF view.supportFor[t] # supportFor[s][t]
                             THEN view.supportFor[t] ELSE @[t]]]
      /\ maxEpoch' = [maxEpoch EXCEPT ![s] = view.maxEpoch]
      /\ supportFrom' = [supportFrom EXCEPT ![s] = view.supportFrom]
      /\ supportFor' = [supportFor EXCEPT ![s] = view.supportFor]
      /\ Reset(s)
      /\ network' = network \cup
           {[type |-> "MsgHeartbeatResp", from |-> s, to |-> r.to, now |-> clock[s],
             epoch |-> r.epoch, expiration |-> r.expiration] : r \in view.responses}
      /\ UNCHANGED <<status, clock, diskMaxRequested, diskMaxWithdrawn, maxRequested, requested, recentlyQueried, storesToAdd,
                     maxWithdrawn, minWithdrawalTS, idleTS, leaked, crashes, answer>>

\* The commit fails: nothing is written or sent, neither update is checked in.
BatchWriteError(s) ==
  /\ "batch" \in WriteErrors
  /\ inProgress[s].open
  /\ Reset(s)
  /\ leaked' = [leaked EXCEPT ![s] = {"requester", "supporter"}]
  /\ UNCHANGED <<status, clock, disk, requesterVars, supporterVars, idleTS, network,
                 crashes, answer>>

\* Transport loses a message: a full queue, a broken stream, a tripped breaker.
DropMessage(m) ==
  /\ network' = network \ {m}
  /\ UNCHANGED <<status, clock, disk, requesterVars, supporterVars, idleTS, inProgress,
                 leaked, crashes, answer>>

------------------------------------------------------------------------------
Next ==
  \/ \E s \in Stores :
       \/ \E t \in Stores : SupportFrom(s, t) \/ SupportFromUnknown(s, t)
       \/ Crash(s) \/ PanicOnCheckOut(s) \/ Start(s) \/ FinishStart(s)
       \/ HeartbeatTickDisabled(s) \/ SendHeartbeats(s) \/ SendHeartbeatsWriteError(s)
       \/ RemoveIdleStores(s)
       \/ WithdrawSupport(s) \/ WithdrawSupportWriteError(s) \/ CrashInWithdrawSupport(s)
       \/ CommitBatch(s) \/ BatchWriteError(s)
  \/ \E m \in network :
       \/ DropMessage(m)
       \/ \E s \in Stores :
            ReceiveHeartbeat(s, m) \/ ReceiveHeartbeatResp(s, m) \/ PanicOnHeartbeatResp(s, m)

Spec == Init /\ [][Next]_vars

------------------------------------------------------------------------------
(* Properties.                                                                *)

\* The type of every variable; the view of a batch exists only while it is handled:
\* outside of one, both updates are the empty ones that reset left.
TypeOK ==
  /\ status \in [Stores -> {"down", "starting", "running"}]
  /\ clock \in [Stores -> Timestamps]
  /\ diskMaxEpoch \in [Stores -> Epochs]
  /\ diskMaxRequested \in [Stores -> Timestamps]
  /\ diskMaxWithdrawn \in [Stores -> Timestamps]
  /\ diskSupportFor \in [Stores -> [Stores -> SupportState]]
  /\ maxEpoch \in [Stores -> Epochs]
  /\ maxRequested \in [Stores -> Timestamps]
  /\ requested \in [Stores -> SUBSET Stores]
  /\ supportFrom \in [Stores -> [Stores -> SupportState]]
  /\ recentlyQueried \in [Stores -> SUBSET Stores]
  /\ storesToAdd \in [Stores -> SUBSET Stores]
  /\ maxWithdrawn \in [Stores -> Timestamps]
  /\ supportFor \in [Stores -> [Stores -> SupportState]]
  /\ minWithdrawalTS \in [Stores -> Timestamps]
  /\ idleTS \in [Stores -> Timestamps]
  /\ inProgress \in [Stores -> {NoUpdate} \cup Update]
  /\ leaked \in [Stores -> SUBSET {"requester", "supporter"}]
  /\ network \subseteq Message
  /\ crashes \in Nat
  /\ answer \in [Stores -> [Stores -> SupportState]]

\* Support that SupportFrom reported to raft on s is durable: while s and the
\* supporter run and the clock of neither has reached the reported expiration,
\* SupportFor on the supporter reports the same epoch.  It holds across crashes
\* of the supporter, also when its clock regresses.
DurableSupport ==
  \A s, t \in Stores :
    /\ status[s] = "running" /\ clock[s] < answer[s][t].expiration
    /\ status[t] = "running" /\ clock[t] < answer[s][t].expiration
    => SupportFor(t, s) = <<answer[s][t].epoch, TRUE>>

\* Two periods of support from one store are disjoint on the requester's
\* clock: SupportFrom reports a new epoch only after the expiration it
\* reported for the previous one, also when s restarted or dropped t as idle.
DisjointSupport ==
  [][\A s, t \in Stores :
       answer'[s][t].epoch # answer[s][t].epoch =>
         /\ answer'[s][t].epoch > answer[s][t].epoch
         /\ answer[s][t].expiration <= clock[s]]_vars

\* The assertion of handleHeartbeat: a heartbeat for a later epoch never
\* arrives with an expiration that the supported one already reaches.
NoExpirationRegression ==
  \A m \in network :
    m.type = "MsgHeartbeat" /\ status[m.to] = "running" =>
      HeartbeatAssertion(CheckedOut(m.to).supportFor[m.from], m)

\* The assertions of handleHeartbeatResponse hold for a response of a store
\* that is in supportFrom, also if it was dropped and added again since the
\* heartbeat was sent. One of a store that is not there meets the zero state
\* and does fail them, see PanicOnHeartbeatResp.
KnownResponsesAssertions ==
  \A m \in network :
    /\ m.type = "MsgHeartbeatResp"
    /\ status[m.to] = "running"
    /\ m.from \in requested[m.to]
    => HeartbeatRespAssertions(CheckedOut(m.to).supportFrom[m.from], m)

\* However writes fail, messages are lost or delayed and stores restart, no
\* heartbeat fails the assertion of handleHeartbeat, and no response of a store
\* in supportFrom those of handleHeartbeatResponse.
AssertionsHold == NoExpirationRegression /\ KnownResponsesAssertions

\* checkInUpdate dereferences supportFrom[t] for every changed state: a batch
\* never changes the state of a store that is not a key.
CheckInFindsStore ==
  \A s, t \in Stores :
    inProgress[s].open /\ inProgress[s].supportFrom[t] # supportFrom[s][t] => t \in requested[s]

\* The support that SupportFor reports never regresses, neither while the store
\* runs nor when it reads its state back after a crash: within an epoch it only
\* grows, and an epoch that was withdrawn is never supported again.
NoSupportRegression ==
  [][\A s, t \in Stores :
       LET old == supportFor[s][t]
           new == supportFor'[s][t]
       IN  \/ new.epoch > old.epoch
           \/ new.epoch = old.epoch /\ new.expiration >= old.expiration]_vars
===============================================================================
