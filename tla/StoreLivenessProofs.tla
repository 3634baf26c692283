------------------------- MODULE StoreLivenessProofs -------------------------
(* Proofs about StoreLiveness, for every value of its constants: its types;    *)
(* that every action, except WithdrawSupportWriteError, preserves Inv of       *)
(* StoreLivenessInv, with one lemma per action (steps that make no promise     *)
(* share QuietStep); from these DurableSupport, DisjointSupport and            *)
(* NoSupportRegression; and that every action preserves HandlerInv, from which *)
(* AssertionsHold and CheckInFindsStore follow without that exception.         *)
EXTENDS StoreLivenessInv, TLAPS

LEMMA ForwardType == \A a, b \in Nat : Forward(a, b) \in Nat
BY DEF Forward

\* What LoseMemory leaves has the types of the variables it clears.
LEMMA LoseMemoryType ==
  ASSUME TypeOK, NEW s \in Stores, LoseMemory(s)
  PROVE  /\ status' \in [Stores -> {"down", "starting", "running"}]
         /\ maxEpoch' \in [Stores -> Epochs]
         /\ maxRequested' \in [Stores -> Timestamps]
         /\ requested' \in [Stores -> SUBSET Stores]
         /\ supportFrom' \in [Stores -> [Stores -> SupportState]]
         /\ recentlyQueried' \in [Stores -> SUBSET Stores]
         /\ storesToAdd' \in [Stores -> SUBSET Stores]
         /\ maxWithdrawn' \in [Stores -> Timestamps]
         /\ supportFor' \in [Stores -> [Stores -> SupportState]]
         /\ minWithdrawalTS' \in [Stores -> Timestamps]
         /\ idleTS' \in [Stores -> Timestamps]
         /\ inProgress' \in [Stores -> {NoUpdate} \cup Update]
         /\ leaked' \in [Stores -> SUBSET {"requester", "supporter"}]
         /\ crashes' \in Nat
BY DEF TypeOK, LoseMemory, Timestamps, Epochs, SupportState, ZeroState

LEMMA HandleHeartbeatType ==
  ASSUME NEW ss \in SupportState, NEW m \in Message
  PROVE  HandleHeartbeat(ss, m) \in SupportState /\ HandleHeartbeatResp(ss, m) \in SupportState
BY DEF HandleHeartbeat, HandleHeartbeatResp, Forward, SupportState, Message, Timestamps, Epochs

LEMMA WithdrawType ==
  ASSUME NEW states \in [Stores -> SupportState], NEW W
  PROVE  Withdraw(states, W) \in [Stores -> SupportState]
BY DEF Withdraw, SupportState, Timestamps, Epochs

LEMMA CheckedOutType ==
  ASSUME TypeOK, NEW s \in Stores
  PROVE  CheckedOut(s) \in Update
<1>1. CASE inProgress[s].open
  BY <1>1 DEF CheckedOut, TypeOK, NoUpdate
<1>2. CASE ~inProgress[s].open
  BY <1>2 DEF CheckedOut, TypeOK, Update
<1> QED
  BY <1>1, <1>2

LEMMA AddStoresType ==
  ASSUME TypeOK, NEW s \in Stores, AddStores(s)
  PROVE  /\ requested' \in [Stores -> SUBSET Stores]
         /\ supportFrom' \in [Stores -> [Stores -> SupportState]]
         /\ recentlyQueried' \in [Stores -> SUBSET Stores]
         /\ storesToAdd' \in [Stores -> SUBSET Stores]
<1>1. NewSupport(s) \in SupportState
  BY DEF NewSupport, TypeOK, SupportState, Timestamps, Epochs
<1> QED
  BY <1>1 DEF AddStores, TypeOK

LEMMA WriteWithdrawalType ==
  ASSUME TypeOK, NEW s \in Stores, NEW now \in Nat, NEW W, WriteWithdrawal(s, now, W)
  PROVE  /\ diskMaxEpoch' \in [Stores -> Epochs]
         /\ diskMaxRequested' \in [Stores -> Timestamps]
         /\ diskMaxWithdrawn' \in [Stores -> Timestamps]
         /\ diskSupportFor' \in [Stores -> [Stores -> SupportState]]
<1>1. Forward(maxWithdrawn[s], now) \in Timestamps
  BY ForwardType DEF TypeOK, Timestamps
<1>2. Withdraw(supportFor[s], W) \in [Stores -> SupportState]
  BY WithdrawType DEF TypeOK
<1> QED
  BY <1>1, <1>2 DEF WriteWithdrawal, TypeOK

LEMMA CheckInWithdrawalType ==
  ASSUME TypeOK, NEW s \in Stores, NEW now \in Nat, CheckInWithdrawal(s, now)
  PROVE  /\ clock' \in [Stores -> Timestamps]
         /\ maxWithdrawn' \in [Stores -> Timestamps]
         /\ supportFor' \in [Stores -> [Stores -> SupportState]]
<1>1. Forward(maxWithdrawn[s], now) \in Timestamps
  BY ForwardType DEF TypeOK, Timestamps
<1>2. Withdraw(supportFor[s], Expired(s, now)) \in [Stores -> SupportState]
  BY WithdrawType DEF TypeOK
<1> QED
  BY <1>1, <1>2 DEF CheckInWithdrawal, TypeOK, Timestamps

\* A message taken off the network leaves well-typed clocks.
LEMMA ReceiveType ==
  ASSUME TypeOK, NEW s \in Stores, NEW m \in network, Receive(s, m)
  PROVE  clock' \in [Stores -> Timestamps] /\ network' \subseteq Message /\ m \in Message
BY ForwardType DEF Receive, ReceivedClock, TypeOK, Message, Timestamps

LEMMA TypeInit == Init => TypeOK
BY ConstantsAssumption DEF Init, TypeOK, SupportState, ZeroState, Timestamps, Epochs

LEMMA TypeStep == TypeOK /\ [Next]_vars => TypeOK'
<1> USE ConstantsAssumption DEF Timestamps, Epochs
<1> SUFFICES ASSUME TypeOK, [Next]_vars PROVE TypeOK'
  OBVIOUS
<1>1. ASSUME NEW s \in Stores, NEW t \in Stores, SupportFrom(s, t) PROVE TypeOK'
  BY <1>1 DEF SupportFrom, TypeOK, SupportState, disk, supporterVars
<1>2. ASSUME NEW s \in Stores, NEW t \in Stores, SupportFromUnknown(s, t) PROVE TypeOK'
  BY <1>2 DEF SupportFromUnknown, TypeOK, disk, supporterVars
<1>3. ASSUME NEW s \in Stores, Crash(s) PROVE TypeOK'
  BY <1>3, LoseMemoryType DEF Crash, TypeOK, disk
<1>4. ASSUME NEW s \in Stores, PanicOnCheckOut(s) PROVE TypeOK'
  BY <1>4, LoseMemoryType DEF PanicOnCheckOut, TypeOK, disk
<1>5. ASSUME NEW s \in Stores, Start(s) PROVE TypeOK'
  <2>1. PICK physical \in (IF ClockRegression THEN 0 ELSE clock[s])..MaxClock :
          clock' = [clock EXCEPT ![s] = StartClock(s, physical)]
    BY <1>5 DEF Start
  <2>2. physical \in Nat
    BY DEF TypeOK
  <2>3. StartClock(s, physical) \in Nat
    BY <2>2, ForwardType DEF StartClock, TypeOK
  <2>4. clock' \in [Stores -> Timestamps]
    BY <2>1, <2>3 DEF TypeOK
  <2> QED
    BY <1>5, <2>4 DEF Start, TypeOK, disk
<1>6. ASSUME NEW s \in Stores, FinishStart(s) PROVE TypeOK'
  BY <1>6 DEF FinishStart, Now, TypeOK
<1>7. ASSUME NEW s \in Stores, HeartbeatTickDisabled(s) PROVE TypeOK'
  BY <1>7, AddStoresType DEF HeartbeatTickDisabled, TypeOK, disk, supporterVars
<1>8. ASSUME NEW s \in Stores, SendHeartbeats(s) PROVE TypeOK'
  <2>1. PICK now \in Now(s) :
          LET newMaxRequested == Forward(maxRequested[s], now + LivenessInterval)
          IN  /\ clock' = [clock EXCEPT ![s] = now]
              /\ maxRequested' = [maxRequested EXCEPT ![s] = newMaxRequested]
              /\ diskMaxRequested' = [diskMaxRequested EXCEPT ![s] = newMaxRequested]
              /\ network' = network \cup
                   {[type |-> "MsgHeartbeat", from |-> s, to |-> t, now |-> now,
                     epoch |-> supportFrom'[s][t].epoch, expiration |-> newMaxRequested] :
                    t \in requested'[s]}
    BY <1>8 DEF SendHeartbeats
  <2>2. AddStores(s)
    BY <1>8 DEF SendHeartbeats
  <2> DEFINE new == Forward(maxRequested[s], now + LivenessInterval)
  <2>3. now \in Nat /\ new \in Nat
    <3>1. now \in Nat /\ now + LivenessInterval \in Nat
      BY DEF Now, TypeOK
    <3> QED
      BY <3>1, ForwardType DEF TypeOK
  <2> HIDE DEF new
  <2>4. /\ clock' \in [Stores -> Timestamps]
        /\ maxRequested' \in [Stores -> Timestamps]
        /\ diskMaxRequested' \in [Stores -> Timestamps]
    BY <2>1, <2>3 DEF TypeOK, new
  <2>6. network' \subseteq Message
    <3>1. \A t \in requested'[s] : t \in Stores /\ supportFrom'[s][t].epoch \in Epochs
      BY <2>2, AddStoresType DEF SupportState
    <3>2. \A t \in requested'[s] :
            [type |-> "MsgHeartbeat", from |-> s, to |-> t, now |-> now,
             epoch |-> supportFrom'[s][t].epoch, expiration |-> new] \in Message
      BY <3>1, <2>3 DEF Message
    <3> QED
      BY <3>2, <2>1 DEF TypeOK, new
  <2> QED
    BY <1>8, <2>2, <2>4, <2>6, AddStoresType DEF SendHeartbeats, TypeOK, supporterVars
<1>9. ASSUME NEW s \in Stores, SendHeartbeatsWriteError(s) PROVE TypeOK'
  BY <1>9, AddStoresType DEF SendHeartbeatsWriteError, Now, TypeOK, disk, supporterVars
<1>10. ASSUME NEW s \in Stores, RemoveIdleStores(s) PROVE TypeOK'
  <2>1. ZeroState \in SupportState
    BY DEF ZeroState, SupportState
  <2> QED
    BY <1>10, <2>1 DEF RemoveIdleStores, Now, TypeOK, disk, supporterVars
<1>11. ASSUME NEW s \in Stores, WithdrawSupport(s) PROVE TypeOK'
  <2>1. PICK now \in Now(s) :
          WriteWithdrawal(s, now, Expired(s, now)) /\ CheckInWithdrawal(s, now)
    BY <1>11 DEF WithdrawSupport
  <2>2. now \in Nat
    BY DEF Now, TypeOK
  <2> QED
    BY <2>1, <2>2, WriteWithdrawalType, CheckInWithdrawalType
    DEF CheckInWithdrawal, TypeOK, requesterVars
<1>12. ASSUME NEW s \in Stores, WithdrawSupportWriteError(s) PROVE TypeOK'
  <2>1. PICK now \in Now(s) :
          /\ UNCHANGED disk \/ \E W \in SUBSET Expired(s, now) : WriteWithdrawal(s, now, W)
          /\ CheckInWithdrawal(s, now)
    BY <1>12 DEF WithdrawSupportWriteError
  <2>2. now \in Nat
    BY DEF Now, TypeOK
  <2>3. /\ diskMaxEpoch' \in [Stores -> Epochs]
        /\ diskMaxRequested' \in [Stores -> Timestamps]
        /\ diskMaxWithdrawn' \in [Stores -> Timestamps]
        /\ diskSupportFor' \in [Stores -> [Stores -> SupportState]]
    BY <2>1, <2>2, WriteWithdrawalType DEF TypeOK, disk
  <2> QED
    BY <2>1, <2>2, <2>3, CheckInWithdrawalType DEF CheckInWithdrawal, TypeOK, requesterVars
<1>13. ASSUME NEW s \in Stores, CrashInWithdrawSupport(s) PROVE TypeOK'
  <2>1. PICK now \in Now(s) :
          /\ \E W \in SUBSET Expired(s, now) : WriteWithdrawal(s, now, W)
          /\ clock' = [clock EXCEPT ![s] = now]
    BY <1>13 DEF CrashInWithdrawSupport
  <2>2. now \in Nat
    BY DEF Now, TypeOK
  <2> QED
    BY <1>13, <2>1, <2>2, WriteWithdrawalType, LoseMemoryType DEF CrashInWithdrawSupport, TypeOK
<1>14. ASSUME NEW s \in Stores, NEW m \in network, ReceiveHeartbeat(s, m) PROVE TypeOK'
  <2> DEFINE view == CheckedOut(s)
             ssNew == HandleHeartbeat(view.supportFor[m.from], m)
  <2>1. Receive(s, m)
    BY <1>14 DEF ReceiveHeartbeat
  <2>2. view \in Update
    BY CheckedOutType
  <2>3. m \in Message /\ m.from \in Stores
    BY <2>1, ReceiveType DEF Message
  <2>4. ssNew \in SupportState
    BY <2>2, <2>3, HandleHeartbeatType DEF Update
  <2> HIDE DEF view, ssNew
  <2>5. [view EXCEPT !.supportFor[m.from] = ssNew,
                     !.responses = @ \cup {[to |-> m.from, epoch |-> ssNew.epoch,
                                            expiration |-> ssNew.expiration]}] \in Update
    <3>1. [to |-> m.from, epoch |-> ssNew.epoch, expiration |-> ssNew.expiration] \in Response
      BY <2>3, <2>4 DEF Response, SupportState
    <3>2. [view.supportFor EXCEPT ![m.from] = ssNew] \in [Stores -> SupportState]
      BY <2>2, <2>4 DEF Update
    <3> QED
      BY <2>2, <3>1, <3>2 DEF Update
  <2>6. inProgress' \in [Stores -> {NoUpdate} \cup Update]
    BY <1>14, <2>5 DEF ReceiveHeartbeat, TypeOK, view, ssNew
  <2> QED
    BY <1>14, <2>1, <2>6, ReceiveType DEF ReceiveHeartbeat, TypeOK, requesterVars, disk, supporterVars
<1>15. ASSUME NEW s \in Stores, NEW m \in network, ReceiveHeartbeatResp(s, m) PROVE TypeOK'
  <2> DEFINE view == CheckedOut(s)
             ssNew == HandleHeartbeatResp(view.supportFrom[m.from], m)
  <2>1. Receive(s, m)
    BY <1>15 DEF ReceiveHeartbeatResp
  <2>2. view \in Update
    BY CheckedOutType
  <2>3. m \in Message /\ m.from \in Stores
    BY <2>1, ReceiveType DEF Message
  <2>4. ssNew \in SupportState
    BY <2>2, <2>3, HandleHeartbeatType DEF Update
  <2>5. Forward(view.maxEpoch, m.epoch) \in Epochs
    BY <2>2, <2>3, ForwardType DEF Update, Message
  <2> HIDE DEF view, ssNew
  <2>6. [view EXCEPT !.maxEpoch = Forward(view.maxEpoch, m.epoch),
                     !.supportFrom[m.from] = ssNew] \in Update
    BY <2>2, <2>3, <2>4, <2>5 DEF Update
  <2>7. inProgress' \in [Stores -> {NoUpdate} \cup Update]
    BY <1>15, <2>6 DEF ReceiveHeartbeatResp, TypeOK, view, ssNew
  <2> QED
    BY <1>15, <2>1, <2>7, ReceiveType DEF ReceiveHeartbeatResp, TypeOK, requesterVars, disk, supporterVars
<1>16. ASSUME NEW s \in Stores, NEW m \in network, PanicOnHeartbeatResp(s, m) PROVE TypeOK'
  BY <1>16, ReceiveType, LoseMemoryType DEF PanicOnHeartbeatResp, TypeOK, disk
<1>17. ASSUME NEW s \in Stores, CommitBatch(s) PROVE TypeOK'
  <2> DEFINE view == inProgress[s]
  <2>1. view \in Update
    BY <1>17 DEF CommitBatch, TypeOK, NoUpdate
  <2>2. maxEpoch' \in [Stores -> Epochs] /\ supportFrom' \in [Stores -> [Stores -> SupportState]]
        /\ supportFor' \in [Stores -> [Stores -> SupportState]]
    BY <1>17, <2>1 DEF CommitBatch, TypeOK, Update
  <2>3. diskMaxEpoch' \in [Stores -> Epochs] /\ diskSupportFor' \in [Stores -> [Stores -> SupportState]]
    BY <1>17, <2>1 DEF CommitBatch, TypeOK, Update
  <2>4. network' \subseteq Message
    <3>1. \A r \in view.responses :
            [type |-> "MsgHeartbeatResp", from |-> s, to |-> r.to, now |-> clock[s],
             epoch |-> r.epoch, expiration |-> r.expiration] \in Message
      BY <2>1 DEF Update, Response, Message, TypeOK
    <3> QED
      BY <1>17, <3>1 DEF CommitBatch, TypeOK
  <2> QED
    BY <1>17, <2>2, <2>3, <2>4 DEF CommitBatch, Reset, TypeOK
<1>18. ASSUME NEW s \in Stores, BatchWriteError(s) PROVE TypeOK'
  BY <1>18 DEF BatchWriteError, Reset, TypeOK, requesterVars, disk, supporterVars
<1>19. ASSUME NEW m \in network, DropMessage(m) PROVE TypeOK'
  BY <1>19 DEF DropMessage, TypeOK, requesterVars, disk, supporterVars
<1>20. CASE UNCHANGED vars
  BY <1>20 DEF vars, requesterVars, disk, supporterVars, TypeOK
<1> QED
  BY <1>1, <1>2, <1>3, <1>4, <1>5, <1>6, <1>7, <1>8, <1>9, <1>10, <1>11, <1>12, <1>13,
     <1>14, <1>15, <1>16, <1>17, <1>18, <1>19, <1>20 DEF Next

\* Every variable always has its type.
THEOREM TypeCorrect == Spec => []TypeOK
BY TypeInit, TypeStep, PTL DEF Spec

------------------------------------------------------------------------------
(* Steps. *)

LEMMA StateType ==
  ASSUME NEW ss \in SupportState
  PROVE  ss.epoch \in Nat /\ ss.expiration \in Nat
BY DEF SupportState, Epochs, Timestamps

\* The types of what the invariant speaks of.
ViewsTyped ==
  \A s, t \in Stores :
    /\ CheckedOut(s).maxEpoch \in Nat
    /\ Provided(t, s) \in SupportState
    /\ Provided(t, s).epoch \in Nat
    /\ Provided(t, s).expiration \in Nat
    /\ Requested(s, t) \in SupportState
    /\ Requested(s, t).epoch \in Nat
    /\ Requested(s, t).expiration \in Nat
    /\ Floor(s, t) \in Nat
    /\ supportFor[t][s].epoch \in Nat
    /\ supportFor[t][s].expiration \in Nat
    /\ diskSupportFor[t][s].epoch \in Nat
    /\ diskSupportFor[t][s].expiration \in Nat
    /\ supportFrom[s][t].epoch \in Nat
    /\ supportFrom[s][t].expiration \in Nat
    /\ answer[s][t].epoch \in Nat
    /\ answer[s][t].expiration \in Nat

MessagesTyped ==
  /\ \A m \in network : /\ m.from \in Stores /\ m.to \in Stores
                        /\ m.epoch \in Nat /\ m.expiration \in Nat /\ m.now \in Nat
                        /\ m.type \in {"MsgHeartbeat", "MsgHeartbeatResp"}
  /\ \A t \in Stores : \A r \in inProgress[t].responses :
       r.to \in Stores /\ r.epoch \in Nat /\ r.expiration \in Nat

LEMMA ViewTypes == TypeOK => ViewsTyped
<1> SUFFICES ASSUME TypeOK PROVE ViewsTyped
  OBVIOUS
<1> SUFFICES ASSUME NEW s \in Stores, NEW t \in Stores
             PROVE  /\ CheckedOut(s).maxEpoch \in Nat
                    /\ Provided(t, s) \in SupportState
                    /\ Requested(s, t) \in SupportState
                    /\ Floor(s, t) \in Nat
                    /\ supportFor[t][s] \in SupportState
                    /\ diskSupportFor[t][s] \in SupportState
                    /\ supportFrom[s][t] \in SupportState
                    /\ answer[s][t] \in SupportState
  BY StateType DEF ViewsTyped
<1>1. CheckedOut(s) \in Update /\ CheckedOut(t) \in Update
  BY CheckedOutType
<1>2. CheckedOut(s).maxEpoch \in Nat /\ Provided(t, s) \in SupportState /\ Requested(s, t) \in SupportState
  BY <1>1 DEF Update, Provided, Requested, Epochs
<1>3. Floor(s, t) \in Nat
  BY StateType DEF Floor, TypeOK, Epochs
<1> QED
  BY <1>2, <1>3 DEF TypeOK

LEMMA MessageTypes == TypeOK => MessagesTyped
<1> SUFFICES ASSUME TypeOK PROVE MessagesTyped
  OBVIOUS
<1>1. \A m \in network : m \in Message
  BY DEF TypeOK
<1>2. \A t \in Stores : \A r \in inProgress[t].responses : r \in Response
  <2> SUFFICES ASSUME NEW t \in Stores PROVE inProgress[t].responses \subseteq Response
    OBVIOUS
  <2>1. inProgress[t] \in Update => inProgress[t].responses \subseteq Response
    BY DEF Update
  <2>2. inProgress[t] = NoUpdate => inProgress[t].responses = {}
    BY DEF NoUpdate
  <2> QED
    BY <2>1, <2>2 DEF TypeOK
<1> QED
  BY <1>1, <1>2 DEF MessagesTyped, Message, Response, Epochs, Timestamps

LEMMA TypesPrimed == TypeOK' => ViewsTyped' /\ MessagesTyped'
BY ViewTypes, MessageTypes, PTL

\* A step that makes no promise, breaks none and persists no new epoch.
Quiet ==
  /\ UNCHANGED <<diskMaxEpoch, diskMaxWithdrawn, diskSupportFor>>
  /\ \A s \in Stores :
       /\ diskMaxRequested[s] <= diskMaxRequested'[s]
       /\ status'[s] = "running" =>
            /\ status[s] = "running"
            /\ clock[s] <= clock'[s]
            /\ diskMaxEpoch[s] <= CheckedOut(s)'.maxEpoch
       /\ requested'[s] # {} => status'[s] = "running"
       /\ \/ inProgress'[s] = NoUpdate
          \/ /\ inProgress'[s] = inProgress[s]
             /\ supportFor'[s] = supportFor[s]
             /\ clock[s] <= clock'[s]
  /\ \A s, t \in Stores :
       /\ status'[s] = "running" => Floor(s, t) <= Floor(s, t)'
       /\ t \in requested'[s] =>
            /\ Requested(s, t)'.epoch <= CheckedOut(s)'.maxEpoch
            /\ Requested(s, t)'.expiration <= diskMaxRequested[s]
            /\ clock'[s] < Requested(s, t)'.expiration =>
                 /\ t \in requested[s]
                 /\ Requested(s, t)'.epoch = Requested(s, t).epoch
                 /\ Requested(s, t)'.expiration <= Requested(s, t).expiration
       /\ ResponsesTo(s, t)' \subseteq ResponsesTo(s, t)
       /\ \A m \in HeartbeatsTo(s, t)' \ HeartbeatsTo(s, t) :
            /\ m.epoch <= Floor(s, t)'
            /\ m.epoch <= diskMaxEpoch[s]
            /\ m.expiration <= diskMaxRequested'[s]

\* What a quiet step leaves of a batch.
LEMMA QuietBatch ==
  ASSUME TypeOK, Quiet, NEW s \in Stores, NEW t \in Stores
  PROVE  /\ inProgress'[t].open => /\ inProgress[t].open
                                   /\ Provided(t, s)' = Provided(t, s)
                                   /\ supportFor'[t] = supportFor[t]
         /\ ~inProgress'[t].open => Provided(t, s)' = supportFor'[t][s]
         /\ \A r \in PendingTo(s, t)' : r \in PendingTo(s, t) /\ inProgress'[t].open /\ clock[t] <= clock'[t]
<1>1. CASE inProgress'[t] = NoUpdate
  BY <1>1 DEF NoUpdate, PendingTo, Provided, CheckedOut
<1>2. CASE /\ inProgress'[t] # NoUpdate
           /\ inProgress'[t] = inProgress[t]
           /\ supportFor'[t] = supportFor[t]
           /\ clock[t] <= clock'[t]
  <2>1. inProgress[t] \in Update
    BY <1>2 DEF TypeOK
  <2> QED
    BY <1>2, <2>1 DEF PendingTo, Provided, CheckedOut, Update
<1> QED
  BY <1>1, <1>2 DEF Quiet

LEMMA QuietStep ==
  ASSUME Inv, TypeOK', Quiet
  PROVE  RequestsArePersisted' /\ EpochsArePersisted' /\ RequestsBelowFloor'
         /\ ProvidedEpochsGrow' /\ PromisesAreCovered'
<1>1. TypeOK
  BY DEF Inv
<1> SUFFICES ASSUME NEW s \in Stores, NEW t \in Stores
             PROVE  (RequestsArePersisted!(s, t) /\ EpochsArePersisted!(s, t) /\ RequestsBelowFloor!(s, t)
                     /\ ProvidedEpochsGrow!(s, t) /\ PromisesAreCovered!(s, t))'
  BY DEF RequestsArePersisted, EpochsArePersisted, RequestsBelowFloor, ProvidedEpochsGrow, PromisesAreCovered
<1>2. /\ RequestsArePersisted!(s, t) /\ EpochsArePersisted!(s, t) /\ RequestsBelowFloor!(s, t)
      /\ ProvidedEpochsGrow!(s, t) /\ PromisesAreCovered!(s, t)
  BY DEF Inv, RequestsArePersisted, EpochsArePersisted, RequestsBelowFloor, ProvidedEpochsGrow, PromisesAreCovered
<1>3. /\ diskMaxEpoch' = diskMaxEpoch /\ diskMaxWithdrawn' = diskMaxWithdrawn
      /\ diskSupportFor' = diskSupportFor
      /\ diskMaxRequested[s] <= diskMaxRequested'[s]
      /\ diskMaxRequested[s] \in Nat /\ diskMaxRequested'[s] \in Nat
      /\ diskMaxEpoch[s] \in Nat /\ diskMaxWithdrawn[t] \in Nat
      /\ clock[s] \in Nat /\ clock'[s] \in Nat /\ clock[t] \in Nat /\ clock'[t] \in Nat
  BY <1>1 DEF Quiet, TypeOK, Timestamps, Epochs
<1>4. /\ status'[s] = "running" =>
            /\ status[s] = "running"
            /\ clock[s] <= clock'[s]
            /\ diskMaxEpoch[s] <= CheckedOut(s)'.maxEpoch
            /\ Floor(s, t) <= Floor(s, t)'
      /\ requested'[s] # {} => status'[s] = "running"
      /\ t \in requested'[s] =>
            /\ Requested(s, t)'.epoch <= CheckedOut(s)'.maxEpoch
            /\ Requested(s, t)'.expiration <= diskMaxRequested[s]
            /\ clock'[s] < Requested(s, t)'.expiration =>
                 /\ t \in requested[s]
                 /\ Requested(s, t)'.epoch = Requested(s, t).epoch
                 /\ Requested(s, t)'.expiration <= Requested(s, t).expiration
      /\ ResponsesTo(s, t)' \subseteq ResponsesTo(s, t)
      /\ \A m \in HeartbeatsTo(s, t)' \ HeartbeatsTo(s, t) :
            /\ m.epoch <= Floor(s, t)'
            /\ m.epoch <= diskMaxEpoch[s]
            /\ m.expiration <= diskMaxRequested'[s]
  BY DEF Quiet
<1>5. /\ inProgress'[t].open => /\ inProgress[t].open
                                /\ Provided(t, s)' = Provided(t, s)
                                /\ supportFor'[t] = supportFor[t]
      /\ ~inProgress'[t].open => Provided(t, s)' = supportFor'[t][s]
      /\ \A r \in PendingTo(s, t)' : r \in PendingTo(s, t) /\ inProgress'[t].open /\ clock[t] <= clock'[t]
  BY <1>1, QuietBatch
<1>6. /\ \A m \in HeartbeatsTo(s, t) \cup ResponsesTo(s, t) : m.epoch \in Nat /\ m.expiration \in Nat /\ m.now \in Nat
      /\ \A r \in PendingTo(s, t) : r.epoch \in Nat /\ r.expiration \in Nat
  BY <1>1, MessageTypes DEF MessagesTyped, HeartbeatsTo, ResponsesTo, PendingTo
<1>7. /\ Floor(s, t) \in Nat /\ Floor(s, t)' \in Nat
      /\ Requested(s, t).epoch \in Nat /\ Requested(s, t).expiration \in Nat
      /\ Requested(s, t)'.epoch \in Nat /\ Requested(s, t)'.expiration \in Nat
      /\ Provided(t, s).epoch \in Nat /\ Provided(t, s).expiration \in Nat
      /\ diskSupportFor[t][s].epoch \in Nat /\ diskSupportFor[t][s].expiration \in Nat
      /\ supportFor'[t][s].epoch \in Nat /\ supportFor'[t][s].expiration \in Nat
  BY <1>1, ViewTypes, TypesPrimed DEF ViewsTyped
<1>8. RequestsArePersisted!(s, t)'
  BY <1>2, <1>3, <1>4, <1>5, <1>6, <1>7
<1>9. EpochsArePersisted!(s, t)'
  BY <1>2, <1>3, <1>4, <1>5, <1>6, <1>7
<1>10. RequestsBelowFloor!(s, t)'
  BY <1>2, <1>3, <1>4, <1>5, <1>6, <1>7
<1>11. ProvidedEpochsGrow!(s, t)'
  BY <1>2, <1>3, <1>4, <1>5, <1>6, <1>7
<1>12. PromisesAreCovered!(s, t)'
  BY <1>2, <1>3, <1>4, <1>5, <1>6, <1>7 DEF Live, CoveredOnDisk, Superseded
<1> QED
  BY <1>8, <1>9, <1>10, <1>11, <1>12

LEMMA ViewFrame ==
  ASSUME NEW x \in Stores,
         inProgress'[x] = inProgress[x], maxEpoch'[x] = maxEpoch[x],
         supportFrom'[x] = supportFrom[x], supportFor'[x] = supportFor[x]
  PROVE  CheckedOut(x)' = CheckedOut(x)
BY DEF CheckedOut

\* A closed batch shows the state that is checked in.
LEMMA ClosedBatch ==
  ASSUME NEW s \in Stores, NEW t \in Stores, ~inProgress[s].open
  PROVE  /\ CheckedOut(s).maxEpoch = maxEpoch[s]
         /\ Requested(s, t) = supportFrom[s][t]
         /\ Provided(s, t) = supportFor[s][t]
BY DEF CheckedOut, Requested, Provided

\* What Quiet asks of a store whose view does not change.
LEMMA SameView ==
  ASSUME Inv, NEW s \in Stores
  PROVE  /\ diskMaxRequested[s] <= diskMaxRequested[s]
         /\ clock[s] <= clock[s]
         /\ requested[s] # {} => status[s] = "running"
         /\ status[s] = "running" => diskMaxEpoch[s] <= CheckedOut(s).maxEpoch
         /\ \A t \in Stores :
              /\ Floor(s, t) <= Floor(s, t)
              /\ Requested(s, t).expiration <= Requested(s, t).expiration
              /\ t \in requested[s] => /\ Requested(s, t).epoch <= CheckedOut(s).maxEpoch
                                       /\ Requested(s, t).expiration <= diskMaxRequested[s]
<1>1. TypeOK /\ ViewsTyped
  BY ViewTypes DEF Inv
<1>2. /\ diskMaxRequested[s] <= diskMaxRequested[s]
      /\ clock[s] <= clock[s]
      /\ \A t \in Stores : /\ Floor(s, t) <= Floor(s, t)
                            /\ Requested(s, t).expiration <= Requested(s, t).expiration
  BY <1>1 DEF TypeOK, Timestamps, ViewsTyped
<1> QED
  BY <1>2 DEF Inv, EpochsArePersisted, RequestsArePersisted, OnlyRunningStoresWork

LEMMA SupportFromStep ==
  ASSUME Inv, TypeOK', NEW a \in Stores, NEW b \in Stores, SupportFrom(a, b)
  PROVE  Inv'
<1> USE DEF disk, supporterVars
<1>1. TypeOK
  BY DEF Inv
<1>2. \A x \in Stores : CheckedOut(x)' = CheckedOut(x)
  BY ViewFrame DEF SupportFrom
<1>3. \A x, y \in Stores : /\ Requested(x, y)' = Requested(x, y)
                           /\ Floor(x, y)' = Floor(x, y)
                           /\ HeartbeatsTo(x, y)' = HeartbeatsTo(x, y)
                           /\ ResponsesTo(x, y)' = ResponsesTo(x, y)
  BY <1>2 DEF SupportFrom, Requested, Floor, HeartbeatsTo, ResponsesTo
<1>5. Quiet
  BY <1>2, <1>3, SameView DEF Quiet, SupportFrom
<1>6. MemoryIsDurable' /\ ClocksCaughtUp' /\ OnlyRunningStoresWork'
  BY DEF SupportFrom, Inv, MemoryIsDurable, ClocksCaughtUp, OnlyRunningStoresWork
<1>7. \A x, y \in Stores :
        \/ answer'[x][y] = answer[x][y]
        \/ x = a /\ y = b /\ answer'[x][y] = supportFrom[x][y]
  BY <1>1 DEF SupportFrom, TypeOK
<1>8. ReportsAreKnown'
  <2> SUFFICES ASSUME NEW s \in Stores, NEW t \in Stores PROVE ReportsAreKnown!(s, t)'
    BY DEF ReportsAreKnown
  <2>1. ReportsAreKnown!(s, t)
    BY DEF Inv, ReportsAreKnown
  <2>2. CASE answer'[s][t] = answer[s][t]
    BY <1>3, <2>1, <2>2 DEF SupportFrom
  <2>3. CASE s = a /\ t = b /\ answer'[s][t] = supportFrom[s][t]
    BY <1>1, <1>3, <2>1, <2>3, ViewTypes DEF SupportFrom, ViewsTyped
  <2> QED
    BY <1>7, <2>2, <2>3
<1>9. IdleSupportExpires'
  BY <1>1, <1>7 DEF SupportFrom, Inv, IdleSupportExpires, TypeOK
<1> QED
  BY <1>5, <1>6, <1>8, <1>9, QuietStep DEF Inv

LEMMA SupportFromUnknownStep ==
  ASSUME Inv, TypeOK', NEW a \in Stores, NEW b \in Stores, SupportFromUnknown(a, b)
  PROVE  Inv'
<1> USE DEF disk, supporterVars
<1>1. TypeOK
  BY DEF Inv
<1>2. \A x \in Stores : CheckedOut(x)' = CheckedOut(x)
  BY ViewFrame DEF SupportFromUnknown
<1>3. \A x, y \in Stores : /\ Requested(x, y)' = Requested(x, y)
                           /\ Floor(x, y)' = Floor(x, y)
                           /\ HeartbeatsTo(x, y)' = HeartbeatsTo(x, y)
                           /\ ResponsesTo(x, y)' = ResponsesTo(x, y)
  BY <1>2 DEF SupportFromUnknown, Requested, Floor, HeartbeatsTo, ResponsesTo
<1>5. Quiet
  BY <1>2, <1>3, SameView DEF Quiet, SupportFromUnknown
<1>6. MemoryIsDurable' /\ ClocksCaughtUp' /\ OnlyRunningStoresWork'
  BY DEF SupportFromUnknown, Inv, MemoryIsDurable, ClocksCaughtUp, OnlyRunningStoresWork
<1>7. ReportsAreKnown' /\ IdleSupportExpires'
  BY <1>3 DEF SupportFromUnknown, Inv, ReportsAreKnown, IdleSupportExpires
<1> QED
  BY <1>5, <1>6, <1>7, QuietStep DEF Inv

LEMMA DropMessageStep ==
  ASSUME Inv, TypeOK', NEW m \in network, DropMessage(m)
  PROVE  Inv'
<1> USE DEF disk, requesterVars, supporterVars
<1>1. TypeOK
  BY DEF Inv
<1>2. \A x \in Stores : CheckedOut(x)' = CheckedOut(x)
  BY ViewFrame DEF DropMessage
<1>3. \A x, y \in Stores : /\ Requested(x, y)' = Requested(x, y)
                           /\ Floor(x, y)' = Floor(x, y)
                           /\ HeartbeatsTo(x, y)' \subseteq HeartbeatsTo(x, y)
                           /\ ResponsesTo(x, y)' \subseteq ResponsesTo(x, y)
  BY <1>2 DEF DropMessage, Requested, Floor, HeartbeatsTo, ResponsesTo
<1>5. Quiet
  BY <1>2, <1>3, SameView DEF Quiet, DropMessage
<1>6. MemoryIsDurable' /\ ClocksCaughtUp' /\ OnlyRunningStoresWork'
  BY DEF DropMessage, Inv, MemoryIsDurable, ClocksCaughtUp, OnlyRunningStoresWork
<1>7. ReportsAreKnown' /\ IdleSupportExpires'
  BY <1>3 DEF DropMessage, Inv, ReportsAreKnown, IdleSupportExpires
<1> QED
  BY <1>5, <1>6, <1>7, QuietStep DEF Inv

\* A process that ends loses what it knows of the support from others; it says
\* nothing it has not persisted.
LEMMA LoseMemoryStep ==
  ASSUME Inv, TypeOK', NEW a \in Stores, LoseMemory(a),
         UNCHANGED <<disk, answer>>, network' \subseteq network,
         \A x \in Stores \ {a} : clock'[x] = clock[x]
  PROVE  Inv'
<1> USE DEF disk
<1>1. TypeOK
  BY DEF Inv
<1>2. \A x \in Stores : /\ x # a => /\ status'[x] = status[x]
                                    /\ maxEpoch'[x] = maxEpoch[x]
                                    /\ maxRequested'[x] = maxRequested[x]
                                    /\ maxWithdrawn'[x] = maxWithdrawn[x]
                                    /\ requested'[x] = requested[x]
                                    /\ recentlyQueried'[x] = recentlyQueried[x]
                                    /\ supportFrom'[x] = supportFrom[x]
                                    /\ idleTS'[x] = idleTS[x]
                                    /\ inProgress'[x] = inProgress[x]
                        /\ supportFor'[x] = supportFor[x]
  BY <1>1 DEF LoseMemory, TypeOK
<1>3. /\ status'[a] = "down" /\ requested'[a] = {} /\ inProgress'[a] = NoUpdate
      /\ supportFrom'[a] = [t \in Stores |-> ZeroState]
  BY <1>1 DEF LoseMemory, TypeOK
<1>4. \A x \in Stores \ {a} : CheckedOut(x)' = CheckedOut(x)
  BY <1>2, ViewFrame
<1>5. /\ \A x \in Stores \ {a} : \A y \in Stores : /\ Requested(x, y)' = Requested(x, y)
                                                  /\ Floor(x, y)' = Floor(x, y)
      /\ \A x, y \in Stores : /\ HeartbeatsTo(x, y)' \subseteq HeartbeatsTo(x, y)
                              /\ ResponsesTo(x, y)' \subseteq ResponsesTo(x, y)
  BY <1>2, <1>4 DEF Requested, Floor, HeartbeatsTo, ResponsesTo
<1>7. Quiet
  <2>1. \A s \in Stores : \/ s = a
                           \/ /\ clock'[s] = clock[s]
                              /\ inProgress'[s] = inProgress[s]
                              /\ supportFor'[s] = supportFor[s]
    BY <1>2
  <2>2. \A s \in Stores : status'[s] = "running" \/ requested'[s] # {} => s # a
    BY <1>3
  <2> QED
    BY <1>2, <1>3, <1>4, <1>5, <2>1, <2>2, SameView DEF Quiet
<1>8. MemoryIsDurable' /\ ClocksCaughtUp' /\ OnlyRunningStoresWork'
  BY <1>2, <1>3 DEF Inv, MemoryIsDurable, ClocksCaughtUp, OnlyRunningStoresWork, NoUpdate
<1>9. ReportsAreKnown'
  <2> SUFFICES ASSUME NEW s \in Stores, NEW t \in Stores PROVE ReportsAreKnown!(s, t)'
    BY DEF ReportsAreKnown
  <2>1. ReportsAreKnown!(s, t)
    BY DEF Inv, ReportsAreKnown
  <2>2. CASE s # a
    BY <1>2, <1>5, <2>1, <2>2
  <2>3. CASE s = a
    <3>1. /\ supportFrom'[s][t].epoch = 0 /\ supportFrom'[s][t].expiration = 0
          /\ diskMaxRequested[s] \in Nat /\ diskMaxEpoch[s] \in Nat
      BY <1>1, <1>3, <2>3 DEF ZeroState, TypeOK, Timestamps, Epochs
    <3> QED
      BY <1>3, <2>1, <2>3, <3>1
  <2> QED
    BY <2>2, <2>3
<1>10. IdleSupportExpires'
  BY <1>2, <1>3 DEF Inv, IdleSupportExpires
<1> QED
  BY <1>7, <1>8, <1>9, <1>10, QuietStep DEF Inv

LEMMA CrashStep ==
  ASSUME Inv, TypeOK', NEW a \in Stores, Crash(a) \/ PanicOnCheckOut(a)
  PROVE  Inv'
BY LoseMemoryStep DEF Crash, PanicOnCheckOut

LEMMA PanicOnHeartbeatRespStep ==
  ASSUME Inv, TypeOK', NEW a \in Stores, NEW m \in network, PanicOnHeartbeatResp(a, m)
  PROVE  Inv'
<1>1. \A x \in Stores \ {a} : clock'[x] = clock[x]
  BY DEF PanicOnHeartbeatResp, Receive, Inv, TypeOK
<1> QED
  BY <1>1, LoseMemoryStep DEF PanicOnHeartbeatResp, Receive

\* A step of a alone: nothing of another store changes.
OnlyAt(a) ==
  \A x \in Stores \ {a} :
    /\ status'[x] = status[x]
    /\ clock'[x] = clock[x]
    /\ diskMaxEpoch'[x] = diskMaxEpoch[x]
    /\ diskMaxRequested'[x] = diskMaxRequested[x]
    /\ diskMaxWithdrawn'[x] = diskMaxWithdrawn[x]
    /\ diskSupportFor'[x] = diskSupportFor[x]
    /\ maxEpoch'[x] = maxEpoch[x]
    /\ maxRequested'[x] = maxRequested[x]
    /\ requested'[x] = requested[x]
    /\ supportFrom'[x] = supportFrom[x]
    /\ recentlyQueried'[x] = recentlyQueried[x]
    /\ maxWithdrawn'[x] = maxWithdrawn[x]
    /\ supportFor'[x] = supportFor[x]
    /\ idleTS'[x] = idleTS[x]
    /\ inProgress'[x] = inProgress[x]
    /\ answer'[x] = answer[x]

LEMMA OnlyAtViews ==
  ASSUME NEW a \in Stores, OnlyAt(a), NEW x \in Stores \ {a}, NEW y \in Stores
  PROVE  /\ CheckedOut(x)' = CheckedOut(x)
         /\ Requested(x, y)' = Requested(x, y)
         /\ Provided(x, y)' = Provided(x, y)
         /\ Floor(x, y)' = Floor(x, y)
<1>1. CheckedOut(x)' = CheckedOut(x)
  BY ViewFrame DEF OnlyAt
<1> QED
  BY <1>1 DEF OnlyAt, Requested, Provided, Floor

\* The conjuncts that speak of one requester carry over for the other stores.
LEMMA OtherStores ==
  ASSUME Inv, NEW a \in Stores, OnlyAt(a), NEW x \in Stores \ {a}
  PROVE  /\ MemoryIsDurable!(x)' /\ ClocksCaughtUp!(x)' /\ OnlyRunningStoresWork!(x)'
         /\ \A y \in Stores : ReportsAreKnown!(x, y)' /\ IdleSupportExpires!(x, y)'
<1>1. MemoryIsDurable!(x) /\ ClocksCaughtUp!(x) /\ OnlyRunningStoresWork!(x)
  BY DEF Inv, MemoryIsDurable, ClocksCaughtUp, OnlyRunningStoresWork
<1>2. MemoryIsDurable!(x)' /\ ClocksCaughtUp!(x)' /\ OnlyRunningStoresWork!(x)'
  BY <1>1 DEF OnlyAt
<1>3. ASSUME NEW y \in Stores PROVE ReportsAreKnown!(x, y)' /\ IdleSupportExpires!(x, y)'
  <2>1. ReportsAreKnown!(x, y) /\ IdleSupportExpires!(x, y)
    BY DEF Inv, ReportsAreKnown, IdleSupportExpires
  <2>2. Requested(x, y)' = Requested(x, y)
    BY OnlyAtViews
  <2> QED
    BY <2>1, <2>2 DEF OnlyAt
<1> QED
  BY <1>2, <1>3

\* What it takes for a step of a alone to be quiet.
LEMMA QuietAt ==
  ASSUME Inv, NEW a \in Stores, OnlyAt(a),
         UNCHANGED <<diskMaxEpoch, diskMaxWithdrawn, diskSupportFor>>,
         diskMaxRequested[a] <= diskMaxRequested'[a],
         status'[a] = "running" => /\ status[a] = "running"
                                   /\ clock[a] <= clock'[a]
                                   /\ diskMaxEpoch[a] <= CheckedOut(a)'.maxEpoch,
         requested'[a] # {} => status'[a] = "running",
         inProgress'[a] = NoUpdate,
         \A t \in Stores :
           /\ status'[a] = "running" => Floor(a, t) <= Floor(a, t)'
           /\ t \in requested'[a] =>
                /\ Requested(a, t)'.epoch <= CheckedOut(a)'.maxEpoch
                /\ Requested(a, t)'.expiration <= diskMaxRequested[a]
                /\ clock'[a] < Requested(a, t)'.expiration =>
                     /\ t \in requested[a]
                     /\ Requested(a, t)'.epoch = Requested(a, t).epoch
                     /\ Requested(a, t)'.expiration <= Requested(a, t).expiration
           /\ \A m \in HeartbeatsTo(a, t)' \ HeartbeatsTo(a, t) :
                /\ m.epoch <= Floor(a, t)'
                /\ m.epoch <= diskMaxEpoch[a]
                /\ m.expiration <= diskMaxRequested'[a],
         \A s, t \in Stores :
           /\ s # a => HeartbeatsTo(s, t)' \subseteq HeartbeatsTo(s, t)
           /\ ResponsesTo(s, t)' \subseteq ResponsesTo(s, t)
  PROVE  Quiet
<1>1. ASSUME NEW s \in Stores
      PROVE  /\ diskMaxRequested[s] <= diskMaxRequested'[s]
             /\ status'[s] = "running" =>
                  /\ status[s] = "running"
                  /\ clock[s] <= clock'[s]
                  /\ diskMaxEpoch[s] <= CheckedOut(s)'.maxEpoch
             /\ requested'[s] # {} => status'[s] = "running"
             /\ \/ inProgress'[s] = NoUpdate
                \/ /\ inProgress'[s] = inProgress[s]
                   /\ supportFor'[s] = supportFor[s]
                   /\ clock[s] <= clock'[s]
  <2>1. CASE s = a
    BY <2>1
  <2>2. CASE s # a
    BY <2>2, SameView, OnlyAtViews DEF OnlyAt
  <2> QED
    BY <2>1, <2>2
<1>2. ASSUME NEW s \in Stores, NEW t \in Stores
      PROVE  /\ status'[s] = "running" => Floor(s, t) <= Floor(s, t)'
             /\ t \in requested'[s] =>
                  /\ Requested(s, t)'.epoch <= CheckedOut(s)'.maxEpoch
                  /\ Requested(s, t)'.expiration <= diskMaxRequested[s]
                  /\ clock'[s] < Requested(s, t)'.expiration =>
                       /\ t \in requested[s]
                       /\ Requested(s, t)'.epoch = Requested(s, t).epoch
                       /\ Requested(s, t)'.expiration <= Requested(s, t).expiration
             /\ ResponsesTo(s, t)' \subseteq ResponsesTo(s, t)
             /\ \A m \in HeartbeatsTo(s, t)' \ HeartbeatsTo(s, t) :
                  /\ m.epoch <= Floor(s, t)'
                  /\ m.epoch <= diskMaxEpoch[s]
                  /\ m.expiration <= diskMaxRequested'[s]
  <2>1. CASE s = a
    BY <2>1
  <2>2. CASE s # a
    BY <2>2, SameView, OnlyAtViews DEF OnlyAt
  <2> QED
    BY <2>1, <2>2
<1> QED
  BY <1>1, <1>2 DEF Quiet

\* Inv after a step of a alone, from what it does to a.
LEMMA InvAt ==
  ASSUME Inv, TypeOK', NEW a \in Stores, OnlyAt(a),
         MemoryIsDurable!(a)', ClocksCaughtUp!(a)', OnlyRunningStoresWork!(a)',
         \A t \in Stores : ReportsAreKnown!(a, t)' /\ IdleSupportExpires!(a, t)',
         RequestsArePersisted' /\ EpochsArePersisted' /\ RequestsBelowFloor'
           /\ ProvidedEpochsGrow' /\ PromisesAreCovered'
  PROVE  Inv'
<1>1. MemoryIsDurable' /\ ClocksCaughtUp' /\ OnlyRunningStoresWork'
  BY OtherStores DEF MemoryIsDurable, ClocksCaughtUp, OnlyRunningStoresWork
<1>2. ReportsAreKnown'
  BY OtherStores DEF ReportsAreKnown
<1>3. IdleSupportExpires'
  BY OtherStores DEF IdleSupportExpires
<1> QED
  BY <1>1, <1>2, <1>3 DEF Inv

\* The facts about one pair of stores that the steps below start from.
LEMMA PairFacts ==
  ASSUME Inv, NEW s \in Stores, NEW t \in Stores
  PROVE  /\ MemoryIsDurable!(s) /\ ClocksCaughtUp!(s) /\ OnlyRunningStoresWork!(s)
         /\ RequestsArePersisted!(s, t) /\ EpochsArePersisted!(s, t)
         /\ ReportsAreKnown!(s, t) /\ IdleSupportExpires!(s, t)
         /\ clock[s] \in Nat /\ diskMaxEpoch[s] \in Nat /\ diskMaxRequested[s] \in Nat
         /\ diskMaxWithdrawn[s] \in Nat /\ maxEpoch[s] \in Nat /\ idleTS[s] \in Nat
         /\ supportFrom[s][t].epoch \in Nat /\ supportFrom[s][t].expiration \in Nat
         /\ answer[s][t].epoch \in Nat /\ answer[s][t].expiration \in Nat
         /\ Requested(s, t).epoch \in Nat /\ Requested(s, t).expiration \in Nat
         /\ Floor(s, t) \in Nat
<1>1. TypeOK /\ ViewsTyped
  BY ViewTypes DEF Inv
<1>2. /\ clock[s] \in Nat /\ diskMaxEpoch[s] \in Nat /\ diskMaxRequested[s] \in Nat
      /\ diskMaxWithdrawn[s] \in Nat /\ maxEpoch[s] \in Nat /\ idleTS[s] \in Nat
  BY <1>1 DEF TypeOK, Timestamps, Epochs
<1>3. /\ supportFrom[s][t].epoch \in Nat /\ supportFrom[s][t].expiration \in Nat
      /\ answer[s][t].epoch \in Nat /\ answer[s][t].expiration \in Nat
      /\ Requested(s, t).epoch \in Nat /\ Requested(s, t).expiration \in Nat
      /\ Floor(s, t) \in Nat
  BY <1>1 DEF ViewsTyped
<1> QED
  BY <1>2, <1>3 DEF Inv, MemoryIsDurable, ClocksCaughtUp, OnlyRunningStoresWork,
     RequestsArePersisted, EpochsArePersisted, ReportsAreKnown, IdleSupportExpires

LEMMA BatchWriteErrorStep ==
  ASSUME Inv, TypeOK', NEW a \in Stores, BatchWriteError(a)
  PROVE  Inv'
<1> USE DEF disk, requesterVars, supporterVars
<1>1. OnlyAt(a) /\ inProgress'[a] = NoUpdate /\ ~inProgress'[a].open
  BY DEF BatchWriteError, Reset, OnlyAt, Inv, TypeOK, NoUpdate
<1>2. UNCHANGED <<status, clock, diskMaxEpoch, diskMaxRequested, diskMaxWithdrawn, diskSupportFor,
                  maxEpoch, maxRequested, requested, supportFrom, recentlyQueried, maxWithdrawn,
                  supportFor, idleTS, network, answer>>
  BY DEF BatchWriteError
<1>3. status[a] = "running"
  BY DEF BatchWriteError, Inv, OnlyRunningStoresWork
<1>4. CheckedOut(a)'.maxEpoch = maxEpoch[a]
  BY <1>1, <1>2 DEF CheckedOut
<1>5. \A t \in Stores : Requested(a, t)' = supportFrom[a][t] /\ Floor(a, t)' = Floor(a, t)
  BY <1>1, <1>2 DEF CheckedOut, Requested, Floor
<1>6. \A s, t \in Stores : HeartbeatsTo(s, t)' = HeartbeatsTo(s, t) /\ ResponsesTo(s, t)' = ResponsesTo(s, t)
  BY <1>2 DEF HeartbeatsTo, ResponsesTo
<1>7. Quiet
  BY <1>1, <1>2, <1>3, <1>4, <1>5, <1>6, PairFacts, QuietAt
<1>8. MemoryIsDurable!(a)' /\ ClocksCaughtUp!(a)' /\ OnlyRunningStoresWork!(a)'
  BY <1>1, <1>2, PairFacts
<1>9. ASSUME NEW t \in Stores PROVE ReportsAreKnown!(a, t)' /\ IdleSupportExpires!(a, t)'
  BY <1>2, <1>5, PairFacts
<1> QED
  BY <1>1, <1>7, <1>8, <1>9, QuietStep, InvAt

LEMMA StartStep ==
  ASSUME Inv, TypeOK', NEW a \in Stores, Start(a)
  PROVE  Inv'
<1> USE DEF disk
<1>1. TypeOK
  BY DEF Inv
<1>2. UNCHANGED <<diskMaxEpoch, diskMaxRequested, diskMaxWithdrawn, diskSupportFor, requested,
                  supportFrom, recentlyQueried, idleTS, inProgress, network, answer>>
  BY DEF Start
<1>3. OnlyAt(a)
  BY <1>1, <1>2 DEF Start, OnlyAt, TypeOK
<1>4. /\ status[a] = "down" /\ status'[a] = "starting"
      /\ maxEpoch'[a] = diskMaxEpoch[a] /\ maxRequested'[a] = diskMaxRequested[a]
      /\ maxWithdrawn'[a] = diskMaxWithdrawn[a] /\ supportFor'[a] = diskSupportFor[a]
  BY <1>1 DEF Start, TypeOK
<1>5. diskMaxWithdrawn[a] <= clock'[a]
  <2>1. PICK physical \in (IF ClockRegression THEN 0 ELSE clock[a])..MaxClock :
          clock' = [clock EXCEPT ![a] = StartClock(a, physical)]
    BY DEF Start
  <2>2. clock'[a] = Forward(physical, diskMaxWithdrawn[a])
    BY <1>1, <2>1 DEF TypeOK, StartClock
  <2>3. physical \in Nat /\ diskMaxWithdrawn[a] \in Nat
    BY <1>1, ConstantsAssumption DEF TypeOK, Timestamps
  <2> QED
    BY <2>2, <2>3 DEF Forward
<1>6. requested[a] = {} /\ ~inProgress[a].open /\ inProgress[a] = NoUpdate
  BY <1>1, <1>4 DEF Inv, OnlyRunningStoresWork, TypeOK, Update
<1>7. \A s, t \in Stores : HeartbeatsTo(s, t)' = HeartbeatsTo(s, t) /\ ResponsesTo(s, t)' = ResponsesTo(s, t)
  BY <1>2 DEF HeartbeatsTo, ResponsesTo
<1>8. Quiet
  BY <1>2, <1>3, <1>4, <1>6, <1>7, PairFacts, QuietAt
<1>9. MemoryIsDurable!(a)' /\ ClocksCaughtUp!(a)' /\ OnlyRunningStoresWork!(a)'
  BY <1>2, <1>4, <1>5, <1>6, PairFacts
<1>10. ASSUME NEW t \in Stores PROVE ReportsAreKnown!(a, t)' /\ IdleSupportExpires!(a, t)'
  BY <1>2, <1>4, <1>6, PairFacts
<1> QED
  BY <1>3, <1>8, <1>9, <1>10, QuietStep, InvAt

\* The clock of a after a reading.
LEMMA NowLater ==
  ASSUME TypeOK, NEW a \in Stores, NEW now \in Now(a), clock' = [clock EXCEPT ![a] = now]
  PROVE  /\ now \in Nat /\ clock[a] < now /\ clock'[a] = now
         /\ \A x \in Stores \ {a} : clock'[x] = clock[x]
BY ConstantsAssumption DEF TypeOK, Timestamps, Now

LEMMA RemoveIdleStoresStep ==
  ASSUME Inv, TypeOK', NEW a \in Stores, RemoveIdleStores(a)
  PROVE  Inv'
<1> USE DEF disk, supporterVars
<1>1. TypeOK
  BY DEF Inv
<1>2. PICK now \in Now(a) : /\ idleTS[a] + IdleSupportFromInterval <= now
                            /\ clock' = [clock EXCEPT ![a] = now]
                            /\ idleTS' = [idleTS EXCEPT ![a] = now]
  BY DEF RemoveIdleStores
<1>3. UNCHANGED <<status, diskMaxEpoch, diskMaxRequested, diskMaxWithdrawn, diskSupportFor,
                  maxEpoch, maxRequested, maxWithdrawn, supportFor, inProgress, network, answer>>
  BY DEF RemoveIdleStores
<1>4. /\ now \in Nat /\ clock[a] < now /\ clock'[a] = now /\ idleTS'[a] = now
      /\ \A x \in Stores \ {a} : clock'[x] = clock[x]
  BY <1>1, <1>2, NowLater DEF TypeOK
<1>5. OnlyAt(a)
  BY <1>1, <1>2, <1>3, <1>4 DEF RemoveIdleStores, OnlyAt, TypeOK
<1>6. status[a] = "running" /\ ~inProgress[a].open /\ inProgress[a] = NoUpdate
  BY <1>1 DEF RemoveIdleStores, LoopReady, TypeOK, Update
<1>7. /\ requested'[a] = requested[a] \cap recentlyQueried[a]
      /\ recentlyQueried'[a] = {}
      /\ \A t \in Stores : supportFrom'[a][t] = IF t \in recentlyQueried[a] THEN supportFrom[a][t] ELSE ZeroState
  BY <1>1 DEF RemoveIdleStores, TypeOK
<1>8. CheckedOut(a)'.maxEpoch = maxEpoch[a]
  BY <1>3, <1>6 DEF CheckedOut
<1>9. ASSUME NEW t \in Stores
      PROVE  /\ Requested(a, t)' = supportFrom'[a][t]
             /\ Requested(a, t) = supportFrom[a][t]
             /\ Floor(a, t) <= Floor(a, t)'
  <2>1. Requested(a, t)' = supportFrom'[a][t] /\ Requested(a, t) = supportFrom[a][t]
    BY <1>3, <1>6 DEF CheckedOut, Requested
  <2>2. Floor(a, t) <= Floor(a, t)'
    BY <1>3, <1>6, <1>7, PairFacts DEF Floor
  <2> QED
    BY <2>1, <2>2
<1>10. \A s, t \in Stores : HeartbeatsTo(s, t)' = HeartbeatsTo(s, t) /\ ResponsesTo(s, t)' = ResponsesTo(s, t)
  BY <1>3 DEF HeartbeatsTo, ResponsesTo
<1>11. Quiet
  <2>1. ASSUME NEW t \in Stores
        PROVE  t \in requested'[a] =>
                 /\ Requested(a, t)'.epoch <= CheckedOut(a)'.maxEpoch
                 /\ Requested(a, t)'.expiration <= diskMaxRequested[a]
                 /\ clock'[a] < Requested(a, t)'.expiration =>
                      /\ t \in requested[a]
                      /\ Requested(a, t)'.epoch = Requested(a, t).epoch
                      /\ Requested(a, t)'.expiration <= Requested(a, t).expiration
    BY <1>6, <1>7, <1>8, <1>9, PairFacts
  <2>2. /\ diskMaxRequested[a] <= diskMaxRequested'[a]
        /\ status'[a] = "running" => /\ status[a] = "running"
                                     /\ clock[a] <= clock'[a]
                                     /\ diskMaxEpoch[a] <= CheckedOut(a)'.maxEpoch
        /\ requested'[a] # {} => status'[a] = "running"
        /\ inProgress'[a] = NoUpdate
    BY <1>3, <1>4, <1>6, <1>8, PairFacts
  <2> QED
    BY <1>3, <1>5, <1>9, <1>10, <2>1, <2>2, QuietAt
<1>12. MemoryIsDurable!(a)' /\ ClocksCaughtUp!(a)' /\ OnlyRunningStoresWork!(a)'
  BY <1>3, <1>4, <1>6, <1>7, PairFacts, ConstantsAssumption
<1>13. ASSUME NEW t \in Stores PROVE ReportsAreKnown!(a, t)' /\ IdleSupportExpires!(a, t)'
  <2>1. ReportsAreKnown!(a, t) /\ IdleSupportExpires!(a, t) /\ ClocksCaughtUp!(a)
    BY PairFacts
  <2>2. t \notin recentlyQueried[a] => answer[a][t].expiration <= now \/ t \notin requested[a]
    BY <1>2, <1>4, <1>6, <2>1, PairFacts, ConstantsAssumption, IdleAssumption
  <2>3. ReportsAreKnown!(a, t)'
    <3>1. CASE t \in recentlyQueried[a]
      BY <1>3, <1>4, <1>6, <1>7, <1>9, <2>1, <3>1, PairFacts
    <3>2. CASE t \notin recentlyQueried[a]
      BY <1>3, <1>4, <1>6, <1>7, <1>9, <2>1, <2>2, <3>2, PairFacts DEF ZeroState
    <3> QED
      BY <3>1, <3>2
  <2>4. IdleSupportExpires!(a, t)'
    BY <1>3, <1>4, <1>6, <1>7, <2>1, PairFacts, ConstantsAssumption
  <2> QED
    BY <2>3, <2>4
<1> QED
  BY <1>5, <1>11, <1>12, <1>13, QuietStep, InvAt

\* A heartbeat tick, whatever becomes of its write: the stores added are asked
\* for support of the current epoch, above everything a knew before.
LEMMA HeartbeatTick ==
  ASSUME Inv, TypeOK', NEW a \in Stores, LoopReady(a), AddStores(a),
         clock[a] <= clock'[a], \A x \in Stores \ {a} : clock'[x] = clock[x],
         UNCHANGED <<status, diskMaxEpoch, diskMaxWithdrawn, diskSupportFor, maxEpoch,
                     supporterVars, idleTS, inProgress, answer>>,
         \A x \in Stores \ {a} : diskMaxRequested'[x] = diskMaxRequested[x] /\ maxRequested'[x] = maxRequested[x],
         maxRequested'[a] = diskMaxRequested'[a],
         diskMaxRequested[a] <= diskMaxRequested'[a],
         diskMaxRequested'[a] <= clock'[a] + LivenessInterval,
         \A m \in network' \ network :
           /\ m.type = "MsgHeartbeat" /\ m.from = a
           /\ m.to \in requested'[a] => m.epoch = supportFrom'[a][m.to].epoch
           /\ m.to \in requested'[a]
           /\ m.expiration = diskMaxRequested'[a]
  PROVE  Inv'
<1> USE DEF supporterVars
<1>1. TypeOK
  BY DEF Inv
<1> DEFINE added == storesToAdd[a] \ requested[a]
<1>2. /\ requested'[a] = requested[a] \cup added
      /\ recentlyQueried'[a] = recentlyQueried[a] \cup added
      /\ \A t \in Stores : supportFrom'[a][t] =
           IF t \in added THEN [epoch |-> maxEpoch[a], expiration |-> 0] ELSE supportFrom[a][t]
  BY <1>1 DEF AddStores, NewSupport, TypeOK
<1>3. OnlyAt(a)
  BY <1>1 DEF AddStores, OnlyAt, TypeOK
<1> HIDE DEF added
<1>4. status[a] = "running" /\ ~inProgress[a].open /\ inProgress[a] = NoUpdate
  BY <1>1 DEF LoopReady, TypeOK, Update
<1>5. CheckedOut(a)'.maxEpoch = maxEpoch[a]
  BY <1>4 DEF CheckedOut
<1>6. \A t \in Stores : t \in added => t \notin requested[a]
  BY DEF added
<1>7. ASSUME NEW t \in Stores
      PROVE  /\ Requested(a, t)' = supportFrom'[a][t]
             /\ Requested(a, t) = supportFrom[a][t]
             /\ Floor(a, t)' = Floor(a, t)
  <2>1. Requested(a, t)' = supportFrom'[a][t] /\ Requested(a, t) = supportFrom[a][t]
    BY <1>4 DEF CheckedOut, Requested
  <2>2. Floor(a, t)' = Floor(a, t)
    BY <1>2, <1>6 DEF Floor
  <2> QED
    BY <2>1, <2>2
<1>8. \A s, t \in Stores : /\ s # a => HeartbeatsTo(s, t)' \subseteq HeartbeatsTo(s, t)
                           /\ ResponsesTo(s, t)' \subseteq ResponsesTo(s, t)
  BY DEF HeartbeatsTo, ResponsesTo
<1>9. ASSUME NEW t \in Stores, NEW m \in HeartbeatsTo(a, t)' \ HeartbeatsTo(a, t)
      PROVE  /\ m.epoch <= Floor(a, t)'
             /\ m.epoch <= diskMaxEpoch[a]
             /\ m.expiration <= diskMaxRequested'[a]
  <2>1. t \in requested'[a] /\ m.epoch = supportFrom'[a][t].epoch /\ m.expiration = diskMaxRequested'[a]
    BY DEF HeartbeatsTo
  <2>2. m.epoch = Floor(a, t)'
    BY <2>1 DEF Floor
  <2>3. supportFrom'[a][t].epoch \in Nat /\ diskMaxRequested'[a] \in Nat
    BY TypesPrimed DEF ViewsTyped, TypeOK, Timestamps
  <2>4. supportFrom'[a][t].epoch <= diskMaxEpoch[a]
    BY <1>2, <1>4, PairFacts
  <2> QED
    BY <2>1, <2>2, <2>3, <2>4
<1>10. ASSUME NEW t \in Stores, t \in requested'[a]
       PROVE  /\ Requested(a, t)'.epoch <= CheckedOut(a)'.maxEpoch
              /\ Requested(a, t)'.expiration <= diskMaxRequested[a]
              /\ clock'[a] < Requested(a, t)'.expiration =>
                   /\ t \in requested[a]
                   /\ Requested(a, t)'.epoch = Requested(a, t).epoch
                   /\ Requested(a, t)'.expiration <= Requested(a, t).expiration
  <2>1. clock'[a] \in Nat
    BY DEF TypeOK, Timestamps
  <2> QED
    BY <1>2, <1>4, <1>5, <1>7, <1>10, <2>1, PairFacts
<1>11. Quiet
  <2>1. \A t \in Stores : status'[a] = "running" => Floor(a, t) <= Floor(a, t)'
    BY <1>7, PairFacts
  <2> QED
    BY <1>3, <1>4, <1>5, <1>8, <1>9, <1>10, <2>1, PairFacts, QuietAt
<1>12. MemoryIsDurable!(a)' /\ ClocksCaughtUp!(a)' /\ OnlyRunningStoresWork!(a)'
  <2>1. clock'[a] \in Nat
    BY DEF TypeOK, Timestamps
  <2> QED
    BY <1>2, <1>4, <1>6, <2>1, PairFacts
<1>13. ASSUME NEW t \in Stores PROVE ReportsAreKnown!(a, t)' /\ IdleSupportExpires!(a, t)'
  <2>1. clock'[a] \in Nat /\ diskMaxRequested'[a] \in Nat
    BY DEF TypeOK, Timestamps
  <2>2. CASE t \in added
    BY <1>2, <1>4, <1>6, <1>7, <2>1, <2>2, PairFacts
  <2>3. CASE t \notin added
    BY <1>2, <1>4, <1>6, <1>7, <2>1, <2>3, PairFacts
  <2> QED
    BY <2>2, <2>3
<1> QED
  BY <1>3, <1>11, <1>12, <1>13, QuietStep, InvAt

LEMMA HeartbeatStep ==
  ASSUME Inv, TypeOK', NEW a \in Stores,
         HeartbeatTickDisabled(a) \/ SendHeartbeats(a) \/ SendHeartbeatsWriteError(a)
  PROVE  Inv'
<1> USE DEF disk
<1>1. TypeOK
  BY DEF Inv
<1>2. LoopReady(a) /\ AddStores(a)
  BY DEF HeartbeatTickDisabled, SendHeartbeats, SendHeartbeatsWriteError
<1>3. /\ maxRequested[a] = diskMaxRequested[a] /\ diskMaxRequested[a] \in Nat
      /\ diskMaxRequested[a] <= clock[a] + LivenessInterval
      /\ clock[a] \in Nat /\ LivenessInterval \in Nat
  BY <1>2, PairFacts, ConstantsAssumption DEF LoopReady
<1>4. CASE HeartbeatTickDisabled(a)
  BY <1>2, <1>3, <1>4, HeartbeatTick DEF HeartbeatTickDisabled
<1>5. CASE SendHeartbeatsWriteError(a)
  <2>1. PICK now \in Now(a) : clock' = [clock EXCEPT ![a] = now]
    BY <1>5 DEF SendHeartbeatsWriteError
  <2>2. now \in Nat /\ clock[a] < now /\ clock'[a] = now /\ \A x \in Stores \ {a} : clock'[x] = clock[x]
    BY <1>1, <2>1, NowLater
  <2>3. clock[a] <= clock'[a] /\ diskMaxRequested[a] <= clock'[a] + LivenessInterval
    BY <1>3, <2>2
  <2> QED
    BY <1>2, <1>3, <1>5, <2>2, <2>3, HeartbeatTick DEF SendHeartbeatsWriteError
<1>6. CASE SendHeartbeats(a)
  <2> DEFINE new(now) == Forward(maxRequested[a], now + LivenessInterval)
  <2>1. PICK now \in Now(a) :
          /\ clock' = [clock EXCEPT ![a] = now]
          /\ maxRequested' = [maxRequested EXCEPT ![a] = new(now)]
          /\ diskMaxRequested' = [diskMaxRequested EXCEPT ![a] = new(now)]
          /\ network' = network \cup
               {[type |-> "MsgHeartbeat", from |-> a, to |-> t, now |-> now,
                 epoch |-> supportFrom'[a][t].epoch, expiration |-> new(now)] : t \in requested'[a]}
    BY <1>6 DEF SendHeartbeats
  <2>2. now \in Nat /\ clock[a] < now /\ clock'[a] = now /\ \A x \in Stores \ {a} : clock'[x] = clock[x]
    BY <1>1, <2>1, NowLater
  <2>3. new(now) = now + LivenessInterval
    BY <1>3, <2>2 DEF Forward
  <2>4. /\ maxRequested'[a] = new(now) /\ diskMaxRequested'[a] = new(now)
        /\ \A x \in Stores \ {a} : diskMaxRequested'[x] = diskMaxRequested[x] /\ maxRequested'[x] = maxRequested[x]
    BY <1>1, <2>1 DEF TypeOK
  <2>5. \A m \in network' \ network :
           /\ m.type = "MsgHeartbeat" /\ m.from = a
           /\ m.to \in requested'[a] => m.epoch = supportFrom'[a][m.to].epoch
           /\ m.to \in requested'[a]
           /\ m.expiration = diskMaxRequested'[a]
    BY <2>1, <2>4
  <2>6. /\ clock[a] <= clock'[a]
        /\ diskMaxRequested[a] <= diskMaxRequested'[a]
        /\ diskMaxRequested'[a] <= clock'[a] + LivenessInterval
    BY <1>3, <2>2, <2>3, <2>4
  <2>7. UNCHANGED <<status, diskMaxEpoch, diskMaxWithdrawn, diskSupportFor, maxEpoch,
                    supporterVars, idleTS, inProgress, answer>>
    BY <1>6 DEF SendHeartbeats
  <2> QED
    BY <1>2, <2>2, <2>4, <2>5, <2>6, <2>7, HeartbeatTick
<1> QED
  BY <1>4, <1>5, <1>6

\* The rest of the invariant for one pair of stores, and the types it needs.
LEMMA PromiseFacts ==
  ASSUME Inv, NEW s \in Stores, NEW t \in Stores
  PROVE  /\ RequestsBelowFloor!(s, t) /\ ProvidedEpochsGrow!(s, t) /\ PromisesAreCovered!(s, t)
         /\ \A m \in HeartbeatsTo(s, t) \cup ResponsesTo(s, t) :
              m.epoch \in Nat /\ m.expiration \in Nat /\ m.now \in Nat
         /\ \A r \in PendingTo(s, t) : r.epoch \in Nat /\ r.expiration \in Nat
         /\ Provided(t, s).epoch \in Nat /\ Provided(t, s).expiration \in Nat
         /\ supportFor[t][s].epoch \in Nat /\ supportFor[t][s].expiration \in Nat
         /\ diskSupportFor[t][s].epoch \in Nat /\ diskSupportFor[t][s].expiration \in Nat
<1>1. TypeOK /\ ViewsTyped /\ MessagesTyped
  BY ViewTypes, MessageTypes DEF Inv
<1>2. /\ Provided(t, s).epoch \in Nat /\ Provided(t, s).expiration \in Nat
      /\ supportFor[t][s].epoch \in Nat /\ supportFor[t][s].expiration \in Nat
      /\ diskSupportFor[t][s].epoch \in Nat /\ diskSupportFor[t][s].expiration \in Nat
  BY <1>1 DEF ViewsTyped
<1>3. /\ \A m \in HeartbeatsTo(s, t) \cup ResponsesTo(s, t) :
           m.epoch \in Nat /\ m.expiration \in Nat /\ m.now \in Nat
      /\ \A r \in PendingTo(s, t) : r.epoch \in Nat /\ r.expiration \in Nat
  BY <1>1 DEF MessagesTyped, HeartbeatsTo, ResponsesTo, PendingTo
<1> QED
  BY <1>2, <1>3 DEF Inv, RequestsBelowFloor, ProvidedEpochsGrow, PromisesAreCovered

\* The conjuncts about promises, pair by pair.
LEMMA PairByPair ==
  ASSUME \A s, t \in Stores :
           (RequestsArePersisted!(s, t) /\ EpochsArePersisted!(s, t) /\ RequestsBelowFloor!(s, t)
            /\ ProvidedEpochsGrow!(s, t) /\ PromisesAreCovered!(s, t))'
  PROVE  RequestsArePersisted' /\ EpochsArePersisted' /\ RequestsBelowFloor'
         /\ ProvidedEpochsGrow' /\ PromisesAreCovered'
BY DEF RequestsArePersisted, EpochsArePersisted, RequestsBelowFloor, ProvidedEpochsGrow, PromisesAreCovered

\* A store that finishes its restart is above every epoch that anyone supports
\* it for and past every expiration it has requested: no old promise is live.
LEMMA FinishStartStep ==
  ASSUME Inv, TypeOK', NEW a \in Stores, FinishStart(a)
  PROVE  Inv'
<1>1. TypeOK
  BY DEF Inv
<1>2. PICK now \in Now(a) : /\ SleepUntilDone(a, now)
                            /\ clock' = [clock EXCEPT ![a] = now]
                            /\ idleTS' = [idleTS EXCEPT ![a] = now]
  BY DEF FinishStart
<1>3. UNCHANGED <<diskMaxRequested, diskMaxWithdrawn, diskSupportFor, maxRequested, requested,
                  supportFrom, recentlyQueried, maxWithdrawn, supportFor, inProgress, network, answer>>
  BY DEF FinishStart
<1>4. /\ now \in Nat /\ clock[a] < now /\ clock'[a] = now /\ idleTS'[a] = now
      /\ \A x \in Stores \ {a} : clock'[x] = clock[x]
  BY <1>1, <1>2, NowLater DEF TypeOK
<1>5. OnlyAt(a)
  BY <1>1, <1>2, <1>3, <1>4 DEF FinishStart, OnlyAt, TypeOK
<1>6. /\ status[a] = "starting" /\ status'[a] = "running"
      /\ maxEpoch'[a] = maxEpoch[a] + 1 /\ diskMaxEpoch'[a] = maxEpoch[a] + 1
      /\ maxEpoch[a] = diskMaxEpoch[a] /\ maxRequested[a] = diskMaxRequested[a]
  BY <1>1, PairFacts DEF FinishStart, TypeOK
<1>7. diskMaxRequested[a] < now
  BY <1>2, <1>6 DEF SleepUntilDone
<1>8. requested[a] = {} /\ ~inProgress[a].open /\ inProgress[a] = NoUpdate
  BY <1>1, <1>6 DEF Inv, OnlyRunningStoresWork, TypeOK, Update
<1>9. CheckedOut(a)'.maxEpoch = maxEpoch[a] + 1
  BY <1>3, <1>6, <1>8 DEF CheckedOut
<1>10. \A s, t \in Stores : /\ HeartbeatsTo(s, t)' = HeartbeatsTo(s, t)
                            /\ ResponsesTo(s, t)' = ResponsesTo(s, t)
                            /\ PendingTo(s, t)' = PendingTo(s, t)
                            /\ Provided(t, s)' = Provided(t, s)
  BY <1>3 DEF HeartbeatsTo, ResponsesTo, PendingTo, Provided, CheckedOut
<1>11. ASSUME NEW s \in Stores, NEW t \in Stores
       PROVE  (RequestsArePersisted!(s, t) /\ EpochsArePersisted!(s, t) /\ RequestsBelowFloor!(s, t)
               /\ ProvidedEpochsGrow!(s, t) /\ PromisesAreCovered!(s, t))'
  <2>1. CASE s = a
    <3>1. Floor(a, t)' = maxEpoch[a] + 1
      BY <1>3, <1>6, <1>8 DEF Floor
    <3>2. RequestsArePersisted!(s, t)' /\ EpochsArePersisted!(s, t)'
      BY <1>3, <1>6, <1>8, <1>9, <1>10, <2>1, PairFacts, PromiseFacts
    <3>3. RequestsBelowFloor!(s, t)' /\ ProvidedEpochsGrow!(s, t)'
      BY <1>3, <1>6, <1>8, <1>10, <2>1, <3>1, PairFacts, PromiseFacts
    <3>4. PromisesAreCovered!(s, t)'
      BY <1>3, <1>4, <1>7, <1>8, <1>10, <2>1, PairFacts, PromiseFacts DEF Live
    <3> QED
      BY <3>2, <3>3, <3>4
  <2>2. CASE s # a
    <3>1. /\ CheckedOut(s)' = CheckedOut(s) /\ Floor(s, t)' = Floor(s, t) /\ Requested(s, t)' = Requested(s, t)
          /\ status'[s] = status[s] /\ clock'[s] = clock[s] /\ diskMaxEpoch'[s] = diskMaxEpoch[s]
      BY <1>5, <2>2, OnlyAtViews DEF OnlyAt
    <3>2. clock[t] <= clock'[t] /\ clock[t] \in Nat /\ clock'[t] \in Nat
      <4>1. clock[t] \in Nat /\ clock'[t] \in Nat
        BY <1>1 DEF TypeOK, Timestamps
      <4> QED
        BY <1>4, <4>1
    <3>3. /\ RequestsArePersisted!(s, t) /\ EpochsArePersisted!(s, t) /\ RequestsBelowFloor!(s, t)
          /\ ProvidedEpochsGrow!(s, t) /\ PromisesAreCovered!(s, t)
      BY PairFacts, PromiseFacts
    <3>4. requested'[s] = requested[s] /\ inProgress'[t] = inProgress[t] /\ supportFor'[t] = supportFor[t]
          /\ diskSupportFor'[t] = diskSupportFor[t] /\ diskMaxWithdrawn'[t] = diskMaxWithdrawn[t]
          /\ diskMaxRequested'[s] = diskMaxRequested[s]
      BY <1>3
    <3>5. RequestsArePersisted!(s, t)' /\ EpochsArePersisted!(s, t)' /\ RequestsBelowFloor!(s, t)'
          /\ ProvidedEpochsGrow!(s, t)'
      BY <1>10, <3>1, <3>3, <3>4
    <3>6. \A p \in ResponsesTo(s, t) \cup PendingTo(s, t) : p.expiration \in Nat
      BY PromiseFacts
    <3>7. Requested(s, t).expiration \in Nat
      BY PairFacts
    <3>8. PromisesAreCovered!(s, t)'
      BY <1>10, <3>1, <3>2, <3>3, <3>4, <3>6, <3>7 DEF Live, CoveredOnDisk, Superseded
    <3> QED
      BY <3>5, <3>8
  <2> QED
    BY <2>1, <2>2
<1>12. MemoryIsDurable!(a)' /\ ClocksCaughtUp!(a)' /\ OnlyRunningStoresWork!(a)'
  BY <1>3, <1>4, <1>6, <1>7, <1>8, PairFacts, ConstantsAssumption
<1>13. ASSUME NEW t \in Stores PROVE ReportsAreKnown!(a, t)' /\ IdleSupportExpires!(a, t)'
  BY <1>3, <1>4, <1>6, <1>7, <1>8, PairFacts
<1> QED
  BY <1>5, <1>11, <1>12, <1>13, PairByPair, InvAt

\* A withdrawal, even one cut short, breaks no live promise: what it takes off
\* the disk has expired by now, and now is the MaxWithdrawn it has written.
LEMMA WithdrawalPromises ==
  ASSUME Inv, TypeOK', NEW a \in Stores, LoopReady(a), OnlyAt(a), UNCHANGED network,
         NEW now \in Now(a), clock' = [clock EXCEPT ![a] = now],
         NEW W \in SUBSET Expired(a, now), WriteWithdrawal(a, now, W),
         inProgress'[a] = NoUpdate,
         \/ status'[a] = status[a] /\ maxEpoch'[a] = maxEpoch[a]
            /\ requested'[a] = requested[a] /\ supportFrom'[a] = supportFrom[a]
         \/ status'[a] = "down" /\ requested'[a] = {}
  PROVE  /\ diskMaxWithdrawn'[a] = now
         /\ RequestsArePersisted' /\ EpochsArePersisted' /\ RequestsBelowFloor'
         /\ ProvidedEpochsGrow' /\ PromisesAreCovered'
<1>1. TypeOK
  BY DEF Inv
<1>2. /\ now \in Nat /\ clock[a] < now /\ clock'[a] = now /\ clock[a] \in Nat
      /\ \A x \in Stores \ {a} : clock'[x] = clock[x]
  BY <1>1, NowLater, PairFacts
<1>3. /\ status[a] = "running" /\ ~inProgress[a].open /\ inProgress[a] = NoUpdate /\ ~inProgress'[a].open
      /\ supportFor[a] = diskSupportFor[a] /\ maxWithdrawn[a] = diskMaxWithdrawn[a]
      /\ diskMaxWithdrawn[a] <= clock[a] /\ diskMaxWithdrawn[a] \in Nat
  BY <1>1, PairFacts DEF LoopReady, TypeOK, Update, NoUpdate
<1>4. diskMaxWithdrawn'[a] = now
  <2>1. diskMaxWithdrawn'[a] = Forward(maxWithdrawn[a], now)
    BY <1>1 DEF WriteWithdrawal, TypeOK
  <2> QED
    BY <1>2, <1>3, <2>1 DEF Forward
<1>5. /\ diskMaxEpoch' = diskMaxEpoch /\ diskMaxRequested' = diskMaxRequested
      /\ \A x \in Stores \ {a} : /\ diskMaxWithdrawn'[x] = diskMaxWithdrawn[x]
                                 /\ diskSupportFor'[x] = diskSupportFor[x]
  BY <1>1 DEF WriteWithdrawal, TypeOK
<1>6. ASSUME NEW s \in Stores
      PROVE  \/ diskSupportFor'[a][s] = diskSupportFor[a][s]
             \/ /\ diskSupportFor'[a][s].epoch = diskSupportFor[a][s].epoch + 1
                /\ diskSupportFor'[a][s].expiration = 0
                /\ diskSupportFor[a][s].expiration <= now
  <2>1. diskSupportFor'[a][s] = IF s \in W THEN Withdraw(supportFor[a], W)[s] ELSE diskSupportFor[a][s]
    BY <1>1 DEF WriteWithdrawal, TypeOK
  <2>2. s \in W => diskSupportFor[a][s].expiration <= now
    BY <1>3 DEF Expired
  <2>3. s \in W => Withdraw(supportFor[a], W)[s] = [epoch |-> diskSupportFor[a][s].epoch + 1, expiration |-> 0]
    BY <1>3 DEF Withdraw
  <2> QED
    BY <2>1, <2>2, <2>3
<1>7. ASSUME NEW s \in Stores, NEW t \in Stores
      PROVE  /\ HeartbeatsTo(s, t)' = HeartbeatsTo(s, t) /\ ResponsesTo(s, t)' = ResponsesTo(s, t)
             /\ PendingTo(s, t)' = PendingTo(s, t)
             /\ inProgress'[t] = inProgress[t]
             /\ t # a => /\ Provided(t, s)' = Provided(t, s) /\ supportFor'[t] = supportFor[t]
             /\ t = a => PendingTo(s, t) = {} /\ Provided(t, s)' = supportFor'[t][s]
             /\ status'[s] = "running" =>
                  /\ status[s] = "running" /\ clock[s] <= clock'[s]
                  /\ requested'[s] = requested[s] /\ Floor(s, t)' = Floor(s, t)
                  /\ CheckedOut(s)'.maxEpoch = CheckedOut(s).maxEpoch
                  /\ Requested(s, t)' = Requested(s, t)
             /\ t \in requested'[s] => status'[s] = "running"
  <2>1. HeartbeatsTo(s, t)' = HeartbeatsTo(s, t) /\ ResponsesTo(s, t)' = ResponsesTo(s, t)
    BY DEF HeartbeatsTo, ResponsesTo
  <2>2. inProgress'[t] = inProgress[t] /\ PendingTo(s, t)' = PendingTo(s, t)
    BY <1>3 DEF OnlyAt, PendingTo
  <2>3. t # a => Provided(t, s)' = Provided(t, s) /\ supportFor'[t] = supportFor[t]
    BY OnlyAtViews DEF OnlyAt
  <2>4. t = a => PendingTo(s, t) = {} /\ Provided(t, s)' = supportFor'[t][s]
    BY <1>3 DEF PendingTo, Provided, CheckedOut, NoUpdate
  <2>5. CASE s # a
    <3>1. clock[s] <= clock'[s]
      BY <1>2, <2>5, PairFacts
    <3> QED
      BY <2>1, <2>2, <2>3, <2>4, <2>5, <3>1, OnlyAtViews, PairFacts DEF OnlyAt
  <2>6. CASE s = a /\ status'[a] = "down" /\ requested'[a] = {}
    BY <2>1, <2>2, <2>3, <2>4, <2>6
  <2>7. CASE s = a /\ status'[a] = status[a] /\ maxEpoch'[a] = maxEpoch[a]
             /\ requested'[a] = requested[a] /\ supportFrom'[a] = supportFrom[a]
    <3>1. CheckedOut(s)'.maxEpoch = CheckedOut(s).maxEpoch /\ Requested(s, t)' = Requested(s, t)
          /\ Floor(s, t)' = Floor(s, t)
      BY <1>3, <2>7 DEF CheckedOut, Requested, Floor
    <3> QED
      BY <1>2, <1>3, <2>1, <2>2, <2>3, <2>4, <2>7, <3>1
  <2> QED
    BY <2>5, <2>6, <2>7
<1>8. ASSUME NEW s \in Stores, NEW t \in Stores
      PROVE  (RequestsArePersisted!(s, t) /\ EpochsArePersisted!(s, t) /\ RequestsBelowFloor!(s, t)
              /\ ProvidedEpochsGrow!(s, t) /\ PromisesAreCovered!(s, t))'
  <2>1. /\ RequestsArePersisted!(s, t) /\ EpochsArePersisted!(s, t) /\ RequestsBelowFloor!(s, t)
        /\ ProvidedEpochsGrow!(s, t) /\ PromisesAreCovered!(s, t)
    BY PairFacts, PromiseFacts
  <2>2. /\ \A m \in HeartbeatsTo(s, t) \cup ResponsesTo(s, t) : m.epoch \in Nat /\ m.expiration \in Nat
        /\ \A r \in PendingTo(s, t) : r.epoch \in Nat /\ r.expiration \in Nat
        /\ Requested(s, t).expiration \in Nat
        /\ diskSupportFor[t][s].epoch \in Nat /\ diskSupportFor[t][s].expiration \in Nat
        /\ diskMaxRequested[s] \in Nat
    BY PairFacts, PromiseFacts
  <2>3. supportFor'[t][s].epoch \in Nat /\ supportFor'[t][s].expiration \in Nat
    BY TypesPrimed DEF ViewsTyped
  <2>4. clock[t] \in Nat /\ clock'[t] \in Nat /\ clock[t] <= clock'[t] /\ clock[s] \in Nat /\ clock'[s] \in Nat
    <3>1. clock[t] \in Nat /\ clock'[t] \in Nat /\ clock[s] \in Nat /\ clock'[s] \in Nat
      BY <1>1 DEF TypeOK, Timestamps
    <3> QED
      BY <1>2, <3>1
  <2>5. /\ diskMaxEpoch'[s] = diskMaxEpoch[s] /\ diskMaxRequested'[s] = diskMaxRequested[s]
    BY <1>5
  <2>6. CASE t # a
    <3>1. diskSupportFor'[t] = diskSupportFor[t] /\ diskMaxWithdrawn'[t] = diskMaxWithdrawn[t]
      BY <1>5, <2>6
    <3>2. RequestsArePersisted!(s, t)' /\ EpochsArePersisted!(s, t)' /\ RequestsBelowFloor!(s, t)' /\ ProvidedEpochsGrow!(s, t)'
      BY <1>7, <2>1, <2>5, <2>6, <3>1
    <3>3. PromisesAreCovered!(s, t)'
      BY <1>7, <2>1, <2>2, <2>4, <2>6, <3>1 DEF Live, CoveredOnDisk, Superseded
    <3> QED
      BY <3>2, <3>3
  <2>7. CASE t = a
    <3>1. RequestsArePersisted!(s, t)' /\ EpochsArePersisted!(s, t)' /\ RequestsBelowFloor!(s, t)' /\ ProvidedEpochsGrow!(s, t)'
      BY <1>3, <1>6, <1>7, <2>1, <2>2, <2>3, <2>5, <2>7
    <3>2. PromisesAreCovered!(s, t)'
      BY <1>2, <1>3, <1>4, <1>6, <1>7, <2>1, <2>2, <2>4, <2>7 DEF Live, CoveredOnDisk, Superseded
    <3> QED
      BY <3>1, <3>2
  <2> QED
    BY <2>6, <2>7
<1> QED
  BY <1>4, <1>8, PairByPair

LEMMA WithdrawSupportStep ==
  ASSUME Inv, TypeOK', NEW a \in Stores, WithdrawSupport(a)
  PROVE  Inv'
<1> USE DEF requesterVars
<1>1. TypeOK
  BY DEF Inv
<1>2. PICK now \in Now(a) : /\ CanWithdraw(a, now)
                            /\ WriteWithdrawal(a, now, Expired(a, now))
                            /\ CheckInWithdrawal(a, now)
  BY DEF WithdrawSupport
<1>3. /\ clock' = [clock EXCEPT ![a] = now]
      /\ UNCHANGED <<status, maxEpoch, maxRequested, requested, supportFrom, recentlyQueried,
                     idleTS, inProgress, network, answer>>
      /\ diskMaxEpoch' = diskMaxEpoch /\ diskMaxRequested' = diskMaxRequested
  BY <1>2 DEF CheckInWithdrawal, WriteWithdrawal
<1>4. OnlyAt(a)
  BY <1>1, <1>2 DEF OnlyAt, CheckInWithdrawal, WriteWithdrawal, TypeOK
<1>5. LoopReady(a) /\ status[a] = "running" /\ ~inProgress[a].open /\ inProgress[a] = NoUpdate
  BY <1>1, <1>2 DEF CanWithdraw, LoopReady, TypeOK, Update
<1>6. /\ diskMaxWithdrawn'[a] = now
      /\ RequestsArePersisted' /\ EpochsArePersisted' /\ RequestsBelowFloor'
      /\ ProvidedEpochsGrow' /\ PromisesAreCovered'
  BY <1>2, <1>3, <1>4, <1>5, WithdrawalPromises
<1>7. now \in Nat /\ clock[a] < now /\ clock'[a] = now
  BY <1>1, <1>3, NowLater
<1>8. maxWithdrawn[a] = diskMaxWithdrawn[a] /\ supportFor[a] = diskSupportFor[a]
      /\ diskMaxWithdrawn[a] <= clock[a] /\ diskMaxWithdrawn[a] \in Nat /\ clock[a] \in Nat
  BY <1>5, PairFacts
<1>9. maxWithdrawn'[a] = now
  <2>1. maxWithdrawn'[a] = Forward(maxWithdrawn[a], now)
    BY <1>1, <1>2 DEF CheckInWithdrawal, TypeOK
  <2> QED
    BY <1>7, <1>8, <2>1 DEF Forward
<1>10. supportFor'[a] = diskSupportFor'[a]
  <2>1. supportFor'[a] = Withdraw(supportFor[a], Expired(a, now))
    BY <1>1, <1>2 DEF CheckInWithdrawal, TypeOK
  <2>2. diskSupportFor'[a] = [t \in Stores |-> IF t \in Expired(a, now)
                                               THEN Withdraw(supportFor[a], Expired(a, now))[t]
                                               ELSE diskSupportFor[a][t]]
    BY <1>1, <1>2 DEF WriteWithdrawal, TypeOK
  <2> QED
    BY <1>8, <2>1, <2>2 DEF Withdraw
<1>11. MemoryIsDurable!(a)' /\ ClocksCaughtUp!(a)' /\ OnlyRunningStoresWork!(a)'
  BY <1>3, <1>5, <1>6, <1>7, <1>9, <1>10, PairFacts, ConstantsAssumption
<1>12. ASSUME NEW t \in Stores PROVE ReportsAreKnown!(a, t)' /\ IdleSupportExpires!(a, t)'
  <2>1. Requested(a, t)' = Requested(a, t)
    BY <1>3, <1>5 DEF Requested, CheckedOut
  <2>2. ReportsAreKnown!(a, t)'
    BY <1>3, <1>5, <1>7, <2>1, PairFacts
  <2>3. IdleSupportExpires!(a, t)'
    BY <1>3, PairFacts
  <2> QED
    BY <2>2, <2>3
<1> QED
  BY <1>4, <1>6, <1>11, <1>12, InvAt

LEMMA CrashInWithdrawSupportStep ==
  ASSUME Inv, TypeOK', NEW a \in Stores, CrashInWithdrawSupport(a)
  PROVE  Inv'
<1>1. TypeOK
  BY DEF Inv
<1>a. PICK now \in Now(a) :
        /\ CanWithdraw(a, now)
        /\ \E W \in SUBSET Expired(a, now) : WriteWithdrawal(a, now, W)
        /\ clock' = [clock EXCEPT ![a] = now]
  BY DEF CrashInWithdrawSupport
<1>b. PICK W \in SUBSET Expired(a, now) : WriteWithdrawal(a, now, W)
  BY <1>a
<1>2. CanWithdraw(a, now) /\ WriteWithdrawal(a, now, W) /\ clock' = [clock EXCEPT ![a] = now]
  BY <1>a, <1>b
<1>3. OnlyAt(a)
  BY <1>1, <1>2 DEF CrashInWithdrawSupport, OnlyAt, LoseMemory, WriteWithdrawal, TypeOK
<1>4. /\ status'[a] = "down" /\ requested'[a] = {} /\ inProgress'[a] = NoUpdate
      /\ supportFrom'[a] = [t \in Stores |-> ZeroState] /\ UNCHANGED <<network, answer>>
      /\ diskMaxEpoch' = diskMaxEpoch /\ diskMaxRequested' = diskMaxRequested
  BY <1>1, <1>2 DEF CrashInWithdrawSupport, LoseMemory, WriteWithdrawal, TypeOK
<1>5. RequestsArePersisted' /\ EpochsArePersisted' /\ RequestsBelowFloor'
      /\ ProvidedEpochsGrow' /\ PromisesAreCovered'
  BY <1>2, <1>3, <1>4, WithdrawalPromises DEF CanWithdraw
<1>6. MemoryIsDurable!(a)' /\ ClocksCaughtUp!(a)' /\ OnlyRunningStoresWork!(a)'
  BY <1>4 DEF NoUpdate
<1>7. ASSUME NEW t \in Stores PROVE ReportsAreKnown!(a, t)' /\ IdleSupportExpires!(a, t)'
  <2>1. supportFrom'[a][t].epoch = 0 /\ supportFrom'[a][t].expiration = 0
    BY <1>4 DEF ZeroState
  <2> QED
    BY <1>4, <2>1, PairFacts
<1> QED
  BY <1>3, <1>5, <1>6, <1>7, InvAt

\* What receiving any message does to clock and network.
LEMMA ReceiveClock ==
  ASSUME TypeOK, NEW a \in Stores, NEW m \in network, Receive(a, m)
  PROVE  /\ status[a] = "running" /\ m.to = a /\ network' = network \ {m}
         /\ clock[a] <= clock'[a] /\ m.now <= clock'[a] /\ clock'[a] \in Nat
         /\ \A x \in Stores : clock[x] <= clock'[x] /\ clock[x] \in Nat /\ clock'[x] \in Nat
         /\ \A x \in Stores \ {a} : clock'[x] = clock[x]
<1>1. m.now \in Nat /\ \A x \in Stores : clock[x] \in Nat
  BY MessageTypes DEF MessagesTyped, TypeOK, Timestamps
<1>2. clock' = [clock EXCEPT ![a] = Forward(clock[a], m.now)]
  BY DEF Receive, ReceivedClock
<1>3. clock'[a] = Forward(clock[a], m.now) /\ \A x \in Stores \ {a} : clock'[x] = clock[x]
  BY <1>2 DEF TypeOK
<1>4. clock[a] <= clock'[a] /\ m.now <= clock'[a] /\ clock'[a] \in Nat
  BY <1>1, <1>3 DEF Forward
<1>5. \A x \in Stores : clock[x] <= clock'[x] /\ clock[x] \in Nat /\ clock'[x] \in Nat
  BY <1>1, <1>3, <1>4
<1> QED
  BY <1>3, <1>4, <1>5 DEF Receive

\* The parts of the invariant about one store survive a message that changes
\* neither its checked-in state nor what it knows of the support from others.
LEMMA ReceiveAt ==
  ASSUME Inv, TypeOK', NEW a \in Stores, NEW m \in network, Receive(a, m),
         UNCHANGED <<status, disk, maxEpoch, maxRequested, requested, supportFrom, recentlyQueried,
                     maxWithdrawn, supportFor, idleTS, answer>>
  PROVE  /\ MemoryIsDurable!(a)' /\ ClocksCaughtUp!(a)' /\ OnlyRunningStoresWork!(a)'
         /\ \A t \in Stores : IdleSupportExpires!(a, t)'
<1> USE DEF disk
<1>1. status[a] = "running" /\ clock[a] <= clock'[a] /\ clock'[a] \in Nat
  BY ReceiveClock DEF Inv
<1>2. ClocksCaughtUp!(a)'
  <2>1. ClocksCaughtUp!(a) /\ clock[a] \in Nat /\ diskMaxWithdrawn[a] \in Nat /\ diskMaxRequested[a] \in Nat
        /\ idleTS[a] \in Nat /\ LivenessInterval \in Nat
    BY PairFacts, ConstantsAssumption
  <2> QED
    BY <1>1, <2>1
<1>3. MemoryIsDurable!(a)' /\ OnlyRunningStoresWork!(a)' /\ \A t \in Stores : IdleSupportExpires!(a, t)'
  BY <1>1, PairFacts
<1> QED
  BY <1>2, <1>3

\* handleHeartbeat only ever raises the support it provides.
LEMMA HandleHeartbeatGrows ==
  ASSUME NEW ss \in SupportState, NEW m, m.epoch \in Nat, m.expiration \in Nat, HeartbeatAssertion(ss, m)
  PROVE  LET new == HandleHeartbeat(ss, m)
         IN  /\ new \in SupportState /\ new.epoch \in Nat /\ new.expiration \in Nat
             /\ ss.epoch <= new.epoch
             /\ ss.expiration <= new.expiration
             /\ \/ new = ss
                \/ /\ new.epoch = m.epoch
                   /\ new.expiration = ss.expiration \/ new.expiration = m.expiration
<1>1. ss.epoch \in Nat /\ ss.expiration \in Nat
  BY StateType
<1>2. CASE ss.epoch < m.epoch
  BY <1>1, <1>2 DEF HandleHeartbeat, HeartbeatAssertion, SupportState, Epochs, Timestamps
<1>3. CASE ss.epoch = m.epoch
  BY <1>1, <1>3 DEF HandleHeartbeat, Forward, SupportState, Epochs, Timestamps
<1>4. CASE ss.epoch > m.epoch
  BY <1>1, <1>4 DEF HandleHeartbeat
<1> QED
  BY <1>1, <1>2, <1>3, <1>4

\* A batch that has received a heartbeat: a new state and a response for its sender.
LEMMA ReceiveHeartbeatView ==
  ASSUME TypeOK, TypeOK', NEW a \in Stores, NEW m \in network, ReceiveHeartbeat(a, m)
  PROVE  /\ OnlyAt(a)
         /\ inProgress'[a].open
         /\ CheckedOut(a)'.maxEpoch = CheckedOut(a).maxEpoch
         /\ \A x \in Stores : /\ Requested(a, x)' = Requested(a, x)
                              /\ x # m.from => /\ Provided(a, x)' = Provided(a, x)
                                               /\ PendingTo(x, a)' = PendingTo(x, a)
         /\ Provided(a, m.from)' = HandleHeartbeat(Provided(a, m.from), m)
         /\ PendingTo(m.from, a)' = PendingTo(m.from, a) \cup
              {[to |-> m.from, epoch |-> Provided(a, m.from)'.epoch,
                expiration |-> Provided(a, m.from)'.expiration]}
<1> USE DEF disk, requesterVars, supporterVars
<1> DEFINE ssNew == HandleHeartbeat(CheckedOut(a).supportFor[m.from], m)
           resp == [to |-> m.from, epoch |-> ssNew.epoch, expiration |-> ssNew.expiration]
<1>1. TypeOK /\ m.from \in Stores
  BY MessageTypes DEF MessagesTyped
<1>2. CheckedOut(a) \in Update
  BY <1>1, CheckedOutType
<1>3. inProgress'[a] = [CheckedOut(a) EXCEPT !.supportFor[m.from] = ssNew, !.responses = @ \cup {resp}]
  BY <1>1 DEF ReceiveHeartbeat, TypeOK
<1>4. /\ inProgress'[a].open = CheckedOut(a).open
      /\ inProgress'[a].maxEpoch = CheckedOut(a).maxEpoch
      /\ inProgress'[a].supportFrom = CheckedOut(a).supportFrom
      /\ inProgress'[a].supportFor = [CheckedOut(a).supportFor EXCEPT ![m.from] = ssNew]
      /\ inProgress'[a].responses = CheckedOut(a).responses \cup {resp}
  BY <1>2, <1>3 DEF Update
<1>5. CheckedOut(a).open /\ inProgress'[a].open
  BY <1>2, <1>4 DEF Update
<1>6. CheckedOut(a)' = inProgress'[a]
  BY <1>5 DEF CheckedOut
<1>7. CheckedOut(a).responses = inProgress[a].responses
  <2>1. CASE inProgress[a].open
    BY <2>1 DEF CheckedOut
  <2>2. CASE ~inProgress[a].open
    <3>1. inProgress[a] = NoUpdate
      BY <1>1, <2>2 DEF TypeOK, Update
    <3> QED
      BY <2>2, <3>1 DEF CheckedOut, NoUpdate
  <2> QED
    BY <2>1, <2>2
<1>8. OnlyAt(a)
  BY <1>1, ReceiveClock DEF OnlyAt, ReceiveHeartbeat, TypeOK
<1>9. CheckedOut(a).supportFor \in [Stores -> SupportState]
  BY <1>2 DEF Update
<1>10. CheckedOut(a)'.maxEpoch = CheckedOut(a).maxEpoch
  BY <1>4, <1>6
<1>11. \A x \in Stores : /\ Requested(a, x)' = Requested(a, x)
                         /\ x # m.from => Provided(a, x)' = Provided(a, x)
  BY <1>4, <1>6, <1>9 DEF Requested, Provided
<1>12. Provided(a, m.from)' = ssNew /\ ssNew = HandleHeartbeat(Provided(a, m.from), m)
  BY <1>1, <1>4, <1>6, <1>9 DEF Provided
<1> HIDE DEF ssNew
<1>13. \A x \in Stores : x # m.from => PendingTo(x, a)' = PendingTo(x, a)
  BY <1>4, <1>7 DEF PendingTo
<1>14. PendingTo(m.from, a)' = PendingTo(m.from, a) \cup {resp}
  BY <1>4, <1>7 DEF PendingTo
<1> QED
  BY <1>5, <1>8, <1>10, <1>11, <1>12, <1>13, <1>14

\* The support it provides for the heartbeat is a new promise, and a live one
\* only within the epoch that a already supports; a promise of a later epoch
\* than a live one can only come from disk, after a withdrawal.
LEMMA ReceiveHeartbeatStep ==
  ASSUME Inv, TypeOK', NEW a \in Stores, NEW m \in network, ReceiveHeartbeat(a, m)
  PROVE  Inv'
<1> USE DEF disk, requesterVars, supporterVars
<1> DEFINE f == m.from
           old == Provided(a, f)
<1>0. PICK new : new = Provided(a, f)'
  OBVIOUS
<1> DEFINE resp == [to |-> f, epoch |-> new.epoch, expiration |-> new.expiration]
<1>1. TypeOK /\ ViewsTyped /\ m.from \in Stores /\ m.epoch \in Nat /\ m.expiration \in Nat
  BY ViewTypes, MessageTypes DEF Inv, MessagesTyped
<1>2. /\ Receive(a, m) /\ m.type = "MsgHeartbeat" /\ HeartbeatAssertion(old, m)
      /\ UNCHANGED <<status, diskMaxEpoch, diskMaxRequested, diskMaxWithdrawn, diskSupportFor, maxEpoch,
                     maxRequested, requested, supportFrom, recentlyQueried, maxWithdrawn, supportFor,
                     idleTS, answer>>
  BY DEF ReceiveHeartbeat, Provided
<1>3. /\ status[a] = "running" /\ m.to = a /\ network' = network \ {m}
      /\ \A x \in Stores : clock[x] <= clock'[x] /\ clock[x] \in Nat /\ clock'[x] \in Nat
  BY <1>1, <1>2, ReceiveClock
<1>4. /\ OnlyAt(a)
      /\ inProgress'[a].open
      /\ CheckedOut(a)'.maxEpoch = CheckedOut(a).maxEpoch
      /\ \A x \in Stores : /\ Requested(a, x)' = Requested(a, x)
                           /\ x # f => /\ Provided(a, x)' = Provided(a, x)
                                       /\ PendingTo(x, a)' = PendingTo(x, a)
      /\ new = HandleHeartbeat(old, m)
      /\ PendingTo(f, a)' = PendingTo(f, a) \cup {resp}
  BY <1>0, <1>1, ReceiveHeartbeatView
<1>5. \A s, t \in Stores : /\ Floor(s, t)' = Floor(s, t)
                           /\ Requested(s, t)' = Requested(s, t)
                           /\ CheckedOut(s)'.maxEpoch = CheckedOut(s).maxEpoch
                           /\ HeartbeatsTo(s, t)' \subseteq HeartbeatsTo(s, t)
                           /\ ResponsesTo(s, t)' = ResponsesTo(s, t)
  BY <1>2, <1>3, <1>4, OnlyAtViews DEF Floor, HeartbeatsTo, ResponsesTo
<1>6. /\ old \in SupportState /\ old.epoch \in Nat /\ old.expiration \in Nat
      /\ new.epoch \in Nat /\ new.expiration \in Nat
      /\ old.epoch <= new.epoch
      /\ old.expiration <= new.expiration
      /\ \/ new = old
         \/ /\ new.epoch = m.epoch
            /\ new.expiration = old.expiration \/ new.expiration = m.expiration
  <2>1. old \in SupportState /\ old.epoch \in Nat /\ old.expiration \in Nat
    BY <1>1 DEF ViewsTyped
  <2> HIDE DEF old
  <2> QED
    BY <1>1, <1>2, <1>4, <2>1, HandleHeartbeatGrows
<1>7. m \in HeartbeatsTo(f, a)
  BY <1>2, <1>3 DEF HeartbeatsTo
<1>8. supportFor[a] = diskSupportFor[a] /\ diskMaxWithdrawn[a] <= clock[a] /\ diskMaxWithdrawn[a] \in Nat
  BY <1>3, PairFacts
<1>9. ASSUME NEW s \in Stores, ~inProgress[a].open
      PROVE  Provided(a, s) = supportFor[a][s]
  BY <1>9, ClosedBatch
<1>10. resp.epoch = new.epoch /\ resp.expiration = new.expiration
  OBVIOUS
<1> HIDE DEF old, resp
<1>11. ASSUME NEW s \in Stores, NEW t \in Stores
       PROVE  (RequestsArePersisted!(s, t) /\ EpochsArePersisted!(s, t) /\ RequestsBelowFloor!(s, t)
               /\ ProvidedEpochsGrow!(s, t) /\ PromisesAreCovered!(s, t))'
  <2>1. /\ RequestsArePersisted!(s, t) /\ EpochsArePersisted!(s, t) /\ RequestsBelowFloor!(s, t)
        /\ ProvidedEpochsGrow!(s, t) /\ PromisesAreCovered!(s, t)
    BY PairFacts, PromiseFacts
  <2>2. /\ \A p \in HeartbeatsTo(s, t) \cup ResponsesTo(s, t) : p.epoch \in Nat /\ p.expiration \in Nat
        /\ \A r \in PendingTo(s, t) : r.epoch \in Nat /\ r.expiration \in Nat
        /\ Requested(s, t).epoch \in Nat /\ Requested(s, t).expiration \in Nat
        /\ supportFor[t][s].epoch \in Nat /\ supportFor[t][s].expiration \in Nat
        /\ diskSupportFor[t][s].epoch \in Nat /\ diskSupportFor[t][s].expiration \in Nat
        /\ diskMaxRequested[s] \in Nat /\ diskMaxEpoch[s] \in Nat /\ Floor(s, t) \in Nat
    BY PairFacts, PromiseFacts
  <2>3. clock[s] <= clock'[s] /\ clock[s] \in Nat /\ clock'[s] \in Nat
        /\ clock[t] <= clock'[t] /\ clock[t] \in Nat /\ clock'[t] \in Nat
    BY <1>3
  <2>4. CASE t # a \/ s # f
    <3>1. /\ Provided(t, s)' = Provided(t, s) /\ PendingTo(s, t)' = PendingTo(s, t)
          /\ inProgress'[t].open /\ ~inProgress[t].open => t = a /\ Provided(t, s) = diskSupportFor[t][s]
      <4>1. CASE t # a
        BY <1>4, <4>1, OnlyAtViews DEF OnlyAt, PendingTo
      <4>2. CASE t = a /\ s # f
        BY <1>4, <1>8, <1>9, <4>2
      <4> QED
        BY <2>4, <4>1, <4>2
    <3>2. RequestsArePersisted!(s, t)' /\ EpochsArePersisted!(s, t)' /\ RequestsBelowFloor!(s, t)'
      BY <1>2, <1>5, <1>8, <2>1, <3>1
    <3>3. ProvidedEpochsGrow!(s, t)'
      BY <1>2, <1>5, <2>1, <3>1
    <3>4. PromisesAreCovered!(s, t)'
      BY <1>2, <1>5, <2>1, <2>2, <2>3, <3>1 DEF Live, CoveredOnDisk, Superseded
    <3> QED
      BY <3>2, <3>3, <3>4
  <2>5. CASE t = a /\ s = f
    <3>1. /\ Provided(t, s) = old /\ Provided(t, s)' = new
          /\ PendingTo(s, t)' = PendingTo(s, t) \cup {resp}
      BY <1>0, <1>4, <2>5 DEF old
    <3>2. /\ m.epoch <= diskMaxEpoch[s] /\ m.expiration <= diskMaxRequested[s]
          /\ status[s] = "running" => m.epoch <= Floor(s, t)
      BY <1>7, <2>1, <2>5
    <3>3. ~inProgress[t].open => old = supportFor[t][s]
      BY <1>9, <2>5, <3>1
    <3>4. supportFor[t][s] = diskSupportFor[t][s] /\ diskMaxWithdrawn[t] <= clock[t] /\ diskMaxWithdrawn[t] \in Nat
      BY <1>8, <2>5
    <3>5. old.expiration <= diskMaxRequested[s] /\ (old.expiration # 0 => old.epoch <= diskMaxEpoch[s])
          /\ (old # supportFor[t][s] => old.epoch <= diskMaxEpoch[s])
          /\ (status[s] = "running" /\ old # supportFor[t][s] => old.epoch <= Floor(s, t))
      BY <2>1, <3>1, <3>3, <3>4
    <3>6. new.expiration <= diskMaxRequested[s] /\ (new.expiration # 0 => new.epoch <= diskMaxEpoch[s])
          /\ (new # supportFor[t][s] => new.epoch <= diskMaxEpoch[s])
          /\ (status[s] = "running" /\ new # supportFor[t][s] => new.epoch <= Floor(s, t))
      BY <1>6, <3>2, <3>5
    <3>7. RequestsArePersisted!(s, t)' /\ EpochsArePersisted!(s, t)' /\ RequestsBelowFloor!(s, t)'
      BY <1>2, <1>5, <1>10, <2>1, <3>1, <3>6
    <3>8. ProvidedEpochsGrow!(s, t)'
      BY <1>2, <1>5, <1>6, <1>10, <2>1, <2>2, <3>1
    <3>9. ASSUME NEW epoch \in Nat, NEW expiration \in Nat,
                 Live(s, t, epoch, expiration)', CoveredOnDisk(s, t, epoch, expiration), epoch < new.epoch
          PROVE  expiration <= clock'[t]
      <4>1. status[s] = "running" /\ Floor(s, t) < new.epoch
        BY <1>2, <1>5, <1>6, <2>2, <3>9 DEF Live
      <4>2. new = diskSupportFor[t][s]
        BY <1>6, <2>2, <3>4, <3>6, <4>1
      <4>3. expiration <= diskMaxWithdrawn[t]
        BY <3>9, <1>6, <4>2 DEF CoveredOnDisk
      <4> QED
        BY <2>3, <3>4, <4>3
    <3>10. ASSUME NEW epoch \in Nat, NEW expiration \in Nat,
                  Live(s, t, epoch, expiration)', CoveredOnDisk(s, t, epoch, expiration),
                  Superseded(s, t, epoch, expiration)
           PROVE  CoveredOnDisk(s, t, epoch, expiration)' /\ Superseded(s, t, epoch, expiration)'
      <4>1. CoveredOnDisk(s, t, epoch, expiration)'
        BY <1>2, <3>10 DEF CoveredOnDisk
      <4>2. \A r \in PendingTo(s, t)' : epoch < r.epoch => expiration <= clock'[t]
        BY <1>10, <2>3, <3>1, <3>9, <3>10 DEF Superseded
      <4> QED
        BY <1>5, <3>10, <4>1, <4>2 DEF Superseded
    <3>11. \A epoch, expiration : Live(s, t, epoch, expiration)' /\ expiration \in Nat => Live(s, t, epoch, expiration)
      BY <1>2, <1>5, <2>3 DEF Live
    <3>12. ASSUME NEW p \in PendingTo(s, t), Live(s, t, p.epoch, p.expiration)'
           PROVE  new.epoch = p.epoch /\ p.expiration <= new.expiration
                  /\ Superseded(s, t, p.epoch, p.expiration)'
      <4>1. /\ old.epoch = p.epoch /\ p.expiration <= old.expiration
            /\ Superseded(s, t, p.epoch, p.expiration)
        BY <2>1, <2>2, <3>1, <3>11, <3>12
      <4>2. new.epoch = p.epoch
        BY <1>2, <1>5, <1>6, <2>2, <3>2, <3>12, <4>1 DEF Live
      <4>3. p.expiration <= new.expiration
        BY <1>6, <2>2, <4>1
      <4>4. \A r \in PendingTo(s, t)' : p.epoch < r.epoch => p.expiration <= clock'[t]
        BY <1>6, <1>10, <2>2, <2>3, <3>1, <4>1, <4>2 DEF Superseded
      <4> QED
        BY <1>5, <4>1, <4>2, <4>3, <4>4 DEF Superseded
    <3>13. Superseded(s, t, new.epoch, new.expiration)'
      <4>1. \A q \in ResponsesTo(s, t) : q.epoch <= new.epoch
        BY <1>6, <2>1, <2>2, <3>1, <3>4
      <4>2. \A r \in PendingTo(s, t)' : r.epoch <= new.epoch
        BY <1>6, <1>10, <2>1, <2>2, <3>1
      <4>3. /\ \A q \in ResponsesTo(s, t) : ~(new.epoch < q.epoch)
            /\ \A r \in PendingTo(s, t)' : ~(new.epoch < r.epoch)
        BY <1>6, <1>10, <2>2, <3>1, <4>1, <4>2
      <4> QED
        BY <1>5, <4>3 DEF Superseded
    <3>14. PromisesAreCovered!(s, t)'
      <4>1. PICK q : q = Requested(s, t)
        OBVIOUS
      <4>2. t \in requested[s] =>
              (Live(s, t, q.epoch, q.expiration)' =>
                 CoveredOnDisk(s, t, q.epoch, q.expiration)' /\ Superseded(s, t, q.epoch, q.expiration)')
        BY <2>1, <2>2, <3>10, <3>11, <4>1
      <4>3. \A p \in ResponsesTo(s, t)' :
              Live(s, t, p.epoch, p.expiration)' =>
                CoveredOnDisk(s, t, p.epoch, p.expiration)' /\ Superseded(s, t, p.epoch, p.expiration)'
        BY <1>5, <2>1, <2>2, <3>10, <3>11
      <4>4. \A p \in PendingTo(s, t)' :
              Live(s, t, p.epoch, p.expiration)' =>
                /\ Provided(t, s)'.epoch = p.epoch /\ p.expiration <= Provided(t, s)'.expiration
                /\ Superseded(s, t, p.epoch, p.expiration)'
        BY <1>6, <1>10, <3>1, <3>12, <3>13
      <4>5. requested' = requested /\ Requested(s, t)' = q
        BY <1>2, <1>5, <4>1
      <4> QED
        BY <4>2, <4>3, <4>4, <4>5 DEF Live, CoveredOnDisk, Superseded
    <3> QED
      BY <3>7, <3>8, <3>14
  <2> QED
    BY <2>4, <2>5
<1>12. /\ MemoryIsDurable!(a)' /\ ClocksCaughtUp!(a)' /\ OnlyRunningStoresWork!(a)'
       /\ \A t \in Stores : IdleSupportExpires!(a, t)'
  BY <1>2, ReceiveAt
<1>13. \A t \in Stores : ReportsAreKnown!(a, t)'
  BY <1>2, <1>3, <1>5, PairFacts
<1> QED
  BY <1>4, <1>11, <1>12, <1>13, PairByPair, InvAt

\* A batch that has received a response: what a knows of the support from its sender.
LEMMA ReceiveHeartbeatRespView ==
  ASSUME TypeOK, TypeOK', NEW a \in Stores, NEW m \in network, ReceiveHeartbeatResp(a, m)
  PROVE  /\ OnlyAt(a)
         /\ inProgress'[a].open
         /\ CheckedOut(a)'.maxEpoch = Forward(CheckedOut(a).maxEpoch, m.epoch)
         /\ \A x \in Stores : /\ Provided(a, x)' = Provided(a, x)
                              /\ PendingTo(x, a)' = PendingTo(x, a)
                              /\ x # m.from => Requested(a, x)' = Requested(a, x)
         /\ Requested(a, m.from)' = HandleHeartbeatResp(Requested(a, m.from), m)
<1> USE DEF disk, requesterVars, supporterVars
<1> DEFINE ssNew == HandleHeartbeatResp(CheckedOut(a).supportFrom[m.from], m)
           e == Forward(CheckedOut(a).maxEpoch, m.epoch)
<1>1. TypeOK /\ m.from \in Stores
  BY MessageTypes DEF MessagesTyped
<1>2. CheckedOut(a) \in Update
  BY <1>1, CheckedOutType
<1>3. inProgress'[a] = [CheckedOut(a) EXCEPT !.maxEpoch = e, !.supportFrom[m.from] = ssNew]
  BY <1>1 DEF ReceiveHeartbeatResp, TypeOK
<1>4. /\ inProgress'[a].open = CheckedOut(a).open
      /\ inProgress'[a].maxEpoch = e
      /\ inProgress'[a].supportFrom = [CheckedOut(a).supportFrom EXCEPT ![m.from] = ssNew]
      /\ inProgress'[a].supportFor = CheckedOut(a).supportFor
      /\ inProgress'[a].responses = CheckedOut(a).responses
  BY <1>2, <1>3 DEF Update
<1>5. CheckedOut(a).open /\ inProgress'[a].open
  BY <1>2, <1>4 DEF Update
<1>6. CheckedOut(a)' = inProgress'[a]
  BY <1>5 DEF CheckedOut
<1>7. CheckedOut(a).responses = inProgress[a].responses
  <2>1. CASE inProgress[a].open
    BY <2>1 DEF CheckedOut
  <2>2. CASE ~inProgress[a].open
    <3>1. inProgress[a] = NoUpdate
      BY <1>1, <2>2 DEF TypeOK, Update
    <3> QED
      BY <2>2, <3>1 DEF CheckedOut, NoUpdate
  <2> QED
    BY <2>1, <2>2
<1>8. OnlyAt(a)
  BY <1>1, ReceiveClock DEF OnlyAt, ReceiveHeartbeatResp, TypeOK
<1>9. CheckedOut(a).supportFrom \in [Stores -> SupportState]
  BY <1>2 DEF Update
<1>10. CheckedOut(a)'.maxEpoch = e
  BY <1>4, <1>6
<1>11. \A x \in Stores : /\ Provided(a, x)' = Provided(a, x)
                         /\ x # m.from => Requested(a, x)' = Requested(a, x)
  BY <1>4, <1>6, <1>9 DEF Requested, Provided
<1>12. Requested(a, m.from)' = ssNew /\ ssNew = HandleHeartbeatResp(Requested(a, m.from), m)
  BY <1>1, <1>4, <1>6, <1>9 DEF Requested
<1>13. \A x \in Stores : PendingTo(x, a)' = PendingTo(x, a)
  BY <1>4, <1>7 DEF PendingTo
<1> QED
  BY <1>5, <1>8, <1>10, <1>11, <1>12, <1>13

LEMMA HandleHeartbeatRespGrows ==
  ASSUME NEW ss \in SupportState, NEW m, m.epoch \in Nat, m.expiration \in Nat
  PROVE  LET new == HandleHeartbeatResp(ss, m)
         IN  /\ new.epoch \in Nat /\ new.expiration \in Nat
             /\ ss.epoch <= new.epoch
             /\ new.epoch = ss.epoch => ss.expiration <= new.expiration
             /\ new.epoch # ss.epoch => ss.epoch < m.epoch
             /\ \/ new.epoch = ss.epoch /\ new.expiration = ss.expiration
                \/ new.epoch = m.epoch /\ new.expiration = m.expiration
<1>1. ss.epoch \in Nat /\ ss.expiration \in Nat
  BY StateType
<1>2. CASE ss.epoch < m.epoch
  BY <1>1, <1>2 DEF HandleHeartbeatResp, SupportState, Epochs, Timestamps
<1>3. CASE ss.epoch = m.epoch
  BY <1>1, <1>3 DEF HandleHeartbeatResp, Forward, SupportState, Epochs, Timestamps
<1>4. CASE ss.epoch > m.epoch
  BY <1>1, <1>4 DEF HandleHeartbeatResp
<1> QED
  BY <1>1, <1>2, <1>3, <1>4

\* What a learns from a response was promised by it; a response of a later
\* epoch carries a clock that has passed what a knew before.
LEMMA ReceiveHeartbeatRespStep ==
  ASSUME Inv, TypeOK', NEW a \in Stores, NEW m \in network, ReceiveHeartbeatResp(a, m)
  PROVE  Inv'
<1> USE DEF disk, requesterVars, supporterVars
<1> DEFINE f == m.from
           old == Requested(a, f)
<1>0. PICK new : new = Requested(a, f)'
  OBVIOUS
<1>1. TypeOK /\ ViewsTyped /\ m.from \in Stores /\ m.epoch \in Nat /\ m.expiration \in Nat /\ m.now \in Nat
  BY ViewTypes, MessageTypes DEF Inv, MessagesTyped
<1>2. /\ Receive(a, m) /\ m.type = "MsgHeartbeatResp"
      /\ UNCHANGED <<status, diskMaxEpoch, diskMaxRequested, diskMaxWithdrawn, diskSupportFor, maxEpoch,
                     maxRequested, requested, supportFrom, recentlyQueried, maxWithdrawn, supportFor,
                     idleTS, answer>>
  BY DEF ReceiveHeartbeatResp
<1>3. /\ status[a] = "running" /\ m.to = a /\ network' = network \ {m} /\ m.now <= clock'[a]
      /\ \A x \in Stores : clock[x] <= clock'[x] /\ clock[x] \in Nat /\ clock'[x] \in Nat
  BY <1>1, <1>2, ReceiveClock
<1>4. /\ OnlyAt(a)
      /\ inProgress'[a].open
      /\ CheckedOut(a)'.maxEpoch = Forward(CheckedOut(a).maxEpoch, m.epoch)
      /\ \A x \in Stores : /\ Provided(a, x)' = Provided(a, x)
                           /\ PendingTo(x, a)' = PendingTo(x, a)
                           /\ x # f => Requested(a, x)' = Requested(a, x)
      /\ new = HandleHeartbeatResp(old, m)
  BY <1>0, <1>1, ReceiveHeartbeatRespView
<1>5. \A s, t \in Stores : /\ Floor(s, t)' = Floor(s, t)
                           /\ s # a \/ t # f => Requested(s, t)' = Requested(s, t)
                           /\ Provided(t, s)' = Provided(t, s)
                           /\ PendingTo(s, t)' = PendingTo(s, t)
                           /\ HeartbeatsTo(s, t)' = HeartbeatsTo(s, t)
                           /\ ResponsesTo(s, t)' \subseteq ResponsesTo(s, t)
                           /\ inProgress'[t].open /\ ~inProgress[t].open => t = a
  BY <1>2, <1>3, <1>4, OnlyAtViews DEF Floor, HeartbeatsTo, ResponsesTo, PendingTo, OnlyAt
<1>6. /\ old.epoch \in Nat /\ old.expiration \in Nat
      /\ new.epoch \in Nat /\ new.expiration \in Nat
      /\ old.epoch <= new.epoch
      /\ new.epoch = old.epoch => old.expiration <= new.expiration
      /\ new.epoch # old.epoch => old.epoch < m.epoch
      /\ \/ new.epoch = old.epoch /\ new.expiration = old.expiration
         \/ new.epoch = m.epoch /\ new.expiration = m.expiration
  <2>1. old \in SupportState /\ old.epoch \in Nat /\ old.expiration \in Nat
    BY <1>1 DEF ViewsTyped
  <2> HIDE DEF old
  <2> QED
    BY <1>1, <1>4, <2>1, HandleHeartbeatRespGrows
<1>7. m \in ResponsesTo(a, f)
  BY <1>2, <1>3 DEF ResponsesTo
<1>8. supportFor[a] = diskSupportFor[a] /\ \A x \in Stores : ~inProgress[a].open => Provided(a, x) = supportFor[a][x]
  BY <1>3, PairFacts, ClosedBatch
<1>9. /\ CheckedOut(a).maxEpoch \in Nat /\ CheckedOut(a)'.maxEpoch \in Nat
      /\ CheckedOut(a).maxEpoch <= CheckedOut(a)'.maxEpoch /\ m.epoch <= CheckedOut(a)'.maxEpoch
      /\ \A s \in Stores \ {a} : CheckedOut(s)' = CheckedOut(s)
  <2>1. CheckedOut(a).maxEpoch \in Nat
    BY <1>1 DEF ViewsTyped
  <2>2. \A s \in Stores \ {a} : CheckedOut(s)' = CheckedOut(s)
    BY <1>4, OnlyAtViews
  <2> QED
    BY <1>1, <1>4, <2>1, <2>2 DEF Forward
<1> HIDE DEF old
<1>10. ASSUME NEW s \in Stores, NEW t \in Stores
       PROVE  (RequestsArePersisted!(s, t) /\ EpochsArePersisted!(s, t) /\ RequestsBelowFloor!(s, t)
               /\ ProvidedEpochsGrow!(s, t) /\ PromisesAreCovered!(s, t))'
  <2>1. /\ RequestsArePersisted!(s, t) /\ EpochsArePersisted!(s, t) /\ RequestsBelowFloor!(s, t)
        /\ ProvidedEpochsGrow!(s, t) /\ PromisesAreCovered!(s, t)
    BY PairFacts, PromiseFacts
  <2>2. /\ \A p \in HeartbeatsTo(s, t) \cup ResponsesTo(s, t) : p.epoch \in Nat /\ p.expiration \in Nat
        /\ \A r \in PendingTo(s, t) : r.epoch \in Nat /\ r.expiration \in Nat
        /\ Requested(s, t).epoch \in Nat /\ Requested(s, t).expiration \in Nat
        /\ diskMaxRequested[s] \in Nat /\ diskMaxEpoch[s] \in Nat /\ Floor(s, t) \in Nat
    BY PairFacts, PromiseFacts
  <2>3. clock[s] <= clock'[s] /\ clock[s] \in Nat /\ clock'[s] \in Nat
        /\ clock[t] <= clock'[t] /\ clock[t] \in Nat /\ clock'[t] \in Nat
    BY <1>3
  <2>4. CheckedOut(s).maxEpoch \in Nat /\ CheckedOut(s)'.maxEpoch \in Nat
        /\ CheckedOut(s).maxEpoch <= CheckedOut(s)'.maxEpoch
    BY <1>1, <1>9 DEF ViewsTyped
  <2>5. inProgress'[t].open /\ ~inProgress[t].open => Provided(t, s) = diskSupportFor[t][s] /\ Provided(t, s) = supportFor[t][s]
    BY <1>5, <1>8
  <2>6. ProvidedEpochsGrow!(s, t)' /\ RequestsBelowFloor!(s, t)'
    BY <1>2, <1>5, <2>1, <2>5
  <2>7. PICK p : p = Requested(s, t)'
    OBVIOUS
  <2>8. t \in requested[s] =>
          /\ p.epoch \in Nat /\ p.expiration \in Nat
          /\ p.expiration <= diskMaxRequested[s]
          /\ p.epoch <= CheckedOut(s)'.maxEpoch
          /\ Live(s, t, p.epoch, p.expiration) =>
               CoveredOnDisk(s, t, p.epoch, p.expiration) /\ Superseded(s, t, p.epoch, p.expiration)
    <3>1. CASE s # a \/ t # f
      BY <1>5, <2>1, <2>2, <2>4, <2>7, <3>1
    <3>2. CASE s = a /\ t = f
      <4>1. p = new /\ Requested(s, t) = old
        BY <1>0, <2>7, <3>2 DEF old
      <4>2. CASE p.epoch = old.epoch /\ p.expiration = old.expiration
        BY <1>6, <2>1, <2>2, <2>4, <4>1, <4>2
      <4>3. CASE p.epoch = m.epoch /\ p.expiration = m.expiration
        BY <1>1, <1>7, <1>9, <2>1, <3>2, <4>3
      <4> QED
        BY <1>6, <4>1, <4>2, <4>3
    <3> QED
      BY <3>1, <3>2
  <2>9. RequestsArePersisted!(s, t)'
    BY <1>2, <1>5, <2>1, <2>5, <2>7, <2>8
  <2>10. EpochsArePersisted!(s, t)'
    BY <1>2, <1>5, <2>1, <2>2, <2>4, <2>5, <2>7, <2>8
  <2>11. \A epoch, expiration : /\ Live(s, t, epoch, expiration)' /\ expiration \in Nat => Live(s, t, epoch, expiration)
                                /\ CoveredOnDisk(s, t, epoch, expiration) => CoveredOnDisk(s, t, epoch, expiration)'
                                /\ Superseded(s, t, epoch, expiration) /\ expiration \in Nat => Superseded(s, t, epoch, expiration)'
    BY <1>2, <1>5, <2>3 DEF Live, CoveredOnDisk, Superseded
  <2>12. PromisesAreCovered!(s, t)'
    <3>1. t \in requested[s] =>
            (Live(s, t, p.epoch, p.expiration)' =>
               CoveredOnDisk(s, t, p.epoch, p.expiration)' /\ Superseded(s, t, p.epoch, p.expiration)')
      BY <2>8, <2>11
    <3>2. \A q \in ResponsesTo(s, t)' :
            Live(s, t, q.epoch, q.expiration)' =>
              CoveredOnDisk(s, t, q.epoch, q.expiration)' /\ Superseded(s, t, q.epoch, q.expiration)'
      BY <1>5, <2>1, <2>2, <2>11
    <3>3. \A q \in PendingTo(s, t)' :
            Live(s, t, q.epoch, q.expiration)' =>
              /\ Provided(t, s)'.epoch = q.epoch /\ q.expiration <= Provided(t, s)'.expiration
              /\ Superseded(s, t, q.epoch, q.expiration)'
      BY <1>5, <2>1, <2>2, <2>11
    <3> QED
      BY <1>2, <2>7, <3>1, <3>2, <3>3 DEF Live, CoveredOnDisk, Superseded
  <2> QED
    BY <2>6, <2>9, <2>10, <2>12
<1>11. /\ MemoryIsDurable!(a)' /\ ClocksCaughtUp!(a)' /\ OnlyRunningStoresWork!(a)'
       /\ \A t \in Stores : IdleSupportExpires!(a, t)'
  BY <1>2, ReceiveAt
<1>12. ASSUME NEW t \in Stores PROVE ReportsAreKnown!(a, t)'
  <2>1. CASE t # f
    BY <1>2, <1>3, <1>5, <2>1, PairFacts
  <2>2. CASE t = f
    <3>1. ReportsAreKnown!(a, t) /\ Requested(a, t) = old /\ Requested(a, t)' = new
          /\ supportFrom[a][t].epoch \in Nat /\ supportFrom[a][t].expiration \in Nat
          /\ answer[a][t].expiration \in Nat /\ clock[a] <= clock'[a] /\ clock[a] \in Nat /\ clock'[a] \in Nat
      BY <1>0, <1>3, <2>2, PairFacts DEF old
    <3>2. ASSUME t \in requested[a], clock'[a] < supportFrom[a][t].expiration
          PROVE  supportFrom[a][t].epoch = new.epoch /\ supportFrom[a][t].expiration <= new.expiration
      <4>1. supportFrom[a][t].epoch = old.epoch /\ supportFrom[a][t].expiration <= old.expiration
        BY <3>1, <3>2
      <4>2. Live(a, t, old.epoch, old.expiration)
        BY <1>3, <1>6, <3>1, <3>2, <4>1 DEF Live, Floor
      <4>3. Superseded(a, t, old.epoch, old.expiration)
        BY <3>1, <3>2, <4>2, PromiseFacts
      <4>4. old.epoch < m.epoch => old.expiration <= m.now
        BY <1>7, <2>2, <4>3 DEF Superseded
      <4>5. new.epoch = old.epoch
        BY <1>1, <1>3, <1>6, <3>1, <3>2, <4>1, <4>4
      <4> QED
        BY <1>6, <3>1, <4>1, <4>5
    <3>3. t \in requested[a] => supportFrom[a][t].epoch <= new.epoch
      BY <1>6, <3>1
    <3> QED
      BY <1>2, <3>1, <3>2, <3>3
  <2> QED
    BY <2>1, <2>2
<1> QED
  BY <1>4, <1>10, <1>11, <1>12, PairByPair, InvAt

\* A committed batch: its view becomes the state, on disk and in memory, and
\* its responses become messages that carry the clock.
LEMMA CommitBatchView ==
  ASSUME Inv, TypeOK', NEW a \in Stores, CommitBatch(a)
  PROVE  /\ OnlyAt(a) /\ status[a] = "running" /\ inProgress[a].open
         /\ inProgress'[a] = NoUpdate /\ ~inProgress'[a].open
         /\ maxEpoch'[a] = CheckedOut(a).maxEpoch /\ diskMaxEpoch'[a] = CheckedOut(a).maxEpoch
         /\ CheckedOut(a)'.maxEpoch = CheckedOut(a).maxEpoch
         /\ supportFor'[a] = diskSupportFor'[a]
         /\ \A x \in Stores :
              /\ supportFrom'[a][x] = Requested(a, x) /\ Requested(a, x)' = Requested(a, x)
              /\ x \notin requested[a] => supportFrom'[a][x] = supportFrom[a][x]
              /\ diskSupportFor'[a][x] = Provided(a, x) /\ Provided(a, x)' = Provided(a, x)
              /\ PendingTo(x, a)' = {}
         /\ \A s, t \in Stores : /\ HeartbeatsTo(s, t)' = HeartbeatsTo(s, t)
                                 /\ t # a => ResponsesTo(s, t)' = ResponsesTo(s, t)
         /\ \A s \in Stores : \A m \in ResponsesTo(s, a)' :
              \/ m \in ResponsesTo(s, a)
              \/ \E r \in PendingTo(s, a) : m.epoch = r.epoch /\ m.expiration = r.expiration /\ m.now = clock[a]
<1>1. TypeOK
  BY DEF Inv
<1>2. inProgress[a].open /\ status[a] = "running" /\ inProgress[a] \in Update
  BY <1>1 DEF CommitBatch, Inv, OnlyRunningStoresWork, TypeOK, NoUpdate
<1>3. CheckedOut(a) = inProgress[a]
  BY <1>2 DEF CheckedOut
<1>4. OnlyAt(a)
  BY <1>1 DEF CommitBatch, Reset, OnlyAt, TypeOK
<1>5. /\ inProgress'[a] = NoUpdate
      /\ maxEpoch'[a] = CheckedOut(a).maxEpoch /\ diskMaxEpoch'[a] = CheckedOut(a).maxEpoch
      /\ supportFrom'[a] = inProgress[a].supportFrom /\ supportFor'[a] = inProgress[a].supportFor
  BY <1>1, <1>3 DEF CommitBatch, Reset, TypeOK
<1>6. ~inProgress'[a].open
  BY <1>5 DEF NoUpdate
<1>7. supportFor[a] = diskSupportFor[a]
  BY <1>2, PairFacts
<1>8. diskSupportFor'[a] = inProgress[a].supportFor
  <2>1. diskSupportFor'[a] = [t \in Stores |-> IF inProgress[a].supportFor[t] # supportFor[a][t]
                                               THEN inProgress[a].supportFor[t] ELSE diskSupportFor[a][t]]
    BY <1>1 DEF CommitBatch, TypeOK
  <2>2. inProgress[a].supportFor \in [Stores -> SupportState]
    BY <1>2 DEF Update
  <2> QED
    BY <1>7, <2>1, <2>2
<1>9. ASSUME NEW x \in Stores
      PROVE  /\ supportFrom'[a][x] = Requested(a, x) /\ Requested(a, x)' = Requested(a, x)
             /\ x \notin requested[a] => supportFrom'[a][x] = supportFrom[a][x]
             /\ diskSupportFor'[a][x] = Provided(a, x) /\ Provided(a, x)' = Provided(a, x)
             /\ PendingTo(x, a)' = {}
  <2>1. supportFrom'[a][x] = Requested(a, x) /\ diskSupportFor'[a][x] = Provided(a, x)
    BY <1>3, <1>5, <1>8 DEF Requested, Provided
  <2>2. Requested(a, x)' = supportFrom'[a][x] /\ Provided(a, x)' = supportFor'[a][x]
    BY <1>6 DEF Requested, Provided, CheckedOut
  <2>3. x \notin requested[a] => supportFrom'[a][x] = supportFrom[a][x]
    BY <1>5 DEF CommitBatch
  <2>4. PendingTo(x, a)' = {}
    BY <1>5 DEF PendingTo, NoUpdate
  <2> QED
    BY <1>5, <1>8, <2>1, <2>2, <2>3, <2>4
<1>10. CheckedOut(a)'.maxEpoch = CheckedOut(a).maxEpoch
  BY <1>5, <1>6 DEF CheckedOut
<1>11. network' = network \cup
         {[type |-> "MsgHeartbeatResp", from |-> a, to |-> r.to, now |-> clock[a],
           epoch |-> r.epoch, expiration |-> r.expiration] : r \in inProgress[a].responses}
  BY DEF CommitBatch
<1>12. \A s, t \in Stores : /\ HeartbeatsTo(s, t)' = HeartbeatsTo(s, t)
                            /\ t # a => ResponsesTo(s, t)' = ResponsesTo(s, t)
  BY <1>11 DEF HeartbeatsTo, ResponsesTo
<1>13. \A s \in Stores : \A m \in ResponsesTo(s, a)' :
         \/ m \in ResponsesTo(s, a)
         \/ \E r \in PendingTo(s, a) : m.epoch = r.epoch /\ m.expiration = r.expiration /\ m.now = clock[a]
  BY <1>11 DEF ResponsesTo, PendingTo
<1> QED
  BY <1>2, <1>4, <1>5, <1>6, <1>8, <1>9, <1>10, <1>12, <1>13

\* A commit persists what the batch promised before any response leaves; a
\* change that it makes is within the epoch of every live promise.
LEMMA CommitBatchStep ==
  ASSUME Inv, TypeOK', NEW a \in Stores, CommitBatch(a)
  PROVE  Inv'
<1>1. TypeOK /\ ViewsTyped
  BY ViewTypes DEF Inv
<1>2. UNCHANGED <<status, clock, diskMaxRequested, diskMaxWithdrawn, maxRequested, requested, recentlyQueried,
                  maxWithdrawn, idleTS, answer>>
  BY DEF CommitBatch
<1>3. /\ OnlyAt(a) /\ status[a] = "running" /\ inProgress[a].open
      /\ inProgress'[a] = NoUpdate /\ ~inProgress'[a].open
      /\ maxEpoch'[a] = CheckedOut(a).maxEpoch /\ diskMaxEpoch'[a] = CheckedOut(a).maxEpoch
      /\ CheckedOut(a)'.maxEpoch = CheckedOut(a).maxEpoch
      /\ supportFor'[a] = diskSupportFor'[a]
  BY CommitBatchView
<1>4. ASSUME NEW x \in Stores
      PROVE  /\ supportFrom'[a][x] = Requested(a, x) /\ Requested(a, x)' = Requested(a, x)
             /\ x \notin requested[a] => supportFrom'[a][x] = supportFrom[a][x]
             /\ diskSupportFor'[a][x] = Provided(a, x) /\ Provided(a, x)' = Provided(a, x)
             /\ PendingTo(x, a)' = {}
  BY CommitBatchView
<1>5. /\ \A s, t \in Stores : /\ HeartbeatsTo(s, t)' = HeartbeatsTo(s, t)
                              /\ t # a => ResponsesTo(s, t)' = ResponsesTo(s, t)
      /\ \A s \in Stores : \A m \in ResponsesTo(s, a)' :
           \/ m \in ResponsesTo(s, a)
           \/ \E r \in PendingTo(s, a) : m.epoch = r.epoch /\ m.expiration = r.expiration /\ m.now = clock[a]
  BY CommitBatchView
<1>6. /\ diskMaxEpoch[a] <= diskMaxEpoch'[a] /\ maxEpoch[a] = diskMaxEpoch[a]
      /\ CheckedOut(a).maxEpoch \in Nat /\ diskMaxEpoch[a] \in Nat
      /\ supportFor[a] = diskSupportFor[a]
  BY <1>1, <1>3, PairFacts DEF ViewsTyped
<1>7. ASSUME NEW s \in Stores, NEW t \in Stores
      PROVE  /\ Floor(s, t) <= Floor(s, t)' /\ Floor(s, t) \in Nat /\ Floor(s, t)' \in Nat
             /\ Requested(s, t)' = Requested(s, t)
             /\ CheckedOut(s)'.maxEpoch = CheckedOut(s).maxEpoch
             /\ diskMaxEpoch[s] <= diskMaxEpoch'[s] /\ diskMaxEpoch[s] \in Nat /\ diskMaxEpoch'[s] \in Nat
             /\ status[s] = "running" /\ diskMaxEpoch[s] <= CheckedOut(s).maxEpoch => diskMaxEpoch'[s] <= CheckedOut(s).maxEpoch
  <2>1. Floor(s, t) \in Nat /\ Floor(s, t)' \in Nat
    BY <1>1, TypesPrimed DEF ViewsTyped
  <2>2. CASE s # a
    BY <1>3, <2>1, <2>2, OnlyAtViews, PairFacts DEF OnlyAt
  <2>3. CASE s = a
    <3>1. Floor(s, t) <= Floor(s, t)'
      <4>1. CASE t \in requested[a]
        BY <1>2, <1>4, <2>3, <4>1, PairFacts DEF Floor
      <4>2. CASE t \notin requested[a]
        BY <1>2, <1>3, <1>6, <2>3, <4>2 DEF Floor
      <4> QED
        BY <4>1, <4>2
    <3> QED
      BY <1>3, <1>4, <1>6, <2>1, <2>3, <3>1
  <2> QED
    BY <2>2, <2>3
<1>8. ASSUME NEW s \in Stores, NEW t \in Stores
      PROVE  (RequestsArePersisted!(s, t) /\ EpochsArePersisted!(s, t) /\ RequestsBelowFloor!(s, t)
              /\ ProvidedEpochsGrow!(s, t) /\ PromisesAreCovered!(s, t))'
  <2>1. /\ RequestsArePersisted!(s, t) /\ EpochsArePersisted!(s, t) /\ RequestsBelowFloor!(s, t)
        /\ ProvidedEpochsGrow!(s, t) /\ PromisesAreCovered!(s, t)
    BY PairFacts, PromiseFacts
  <2>2. /\ \A p \in HeartbeatsTo(s, t) \cup ResponsesTo(s, t) : p.epoch \in Nat /\ p.expiration \in Nat
        /\ \A r \in PendingTo(s, t) : r.epoch \in Nat /\ r.expiration \in Nat
        /\ Requested(s, t).epoch \in Nat /\ Requested(s, t).expiration \in Nat
        /\ Provided(t, s).epoch \in Nat /\ Provided(t, s).expiration \in Nat
        /\ supportFor[t][s].epoch \in Nat /\ supportFor[t][s].expiration \in Nat
        /\ diskSupportFor[t][s].epoch \in Nat /\ diskSupportFor[t][s].expiration \in Nat
    BY PairFacts, PromiseFacts
  <2>3. /\ Floor(s, t) <= Floor(s, t)' /\ Floor(s, t) \in Nat /\ Floor(s, t)' \in Nat
        /\ Requested(s, t)' = Requested(s, t)
        /\ CheckedOut(s)'.maxEpoch = CheckedOut(s).maxEpoch
        /\ diskMaxEpoch[s] <= diskMaxEpoch'[s] /\ diskMaxEpoch[s] \in Nat /\ diskMaxEpoch'[s] \in Nat
        /\ status[s] = "running" /\ diskMaxEpoch[s] <= CheckedOut(s).maxEpoch => diskMaxEpoch'[s] <= CheckedOut(s).maxEpoch
    BY <1>7
  <2>4. HeartbeatsTo(s, t)' = HeartbeatsTo(s, t) /\ diskMaxRequested'[s] = diskMaxRequested[s]
        /\ status' = status /\ clock' = clock /\ requested' = requested /\ diskMaxWithdrawn' = diskMaxWithdrawn
    BY <1>2, <1>5
  <2>5. ASSUME NEW epoch \in Nat, NEW expiration \in Nat, Live(s, t, epoch, expiration)'
        PROVE  Live(s, t, epoch, expiration)
    BY <2>3, <2>4, <2>5 DEF Live
  <2>6. CASE t # a
    <3>1. /\ Provided(t, s)' = Provided(t, s) /\ PendingTo(s, t)' = PendingTo(s, t)
          /\ inProgress'[t] = inProgress[t] /\ supportFor'[t] = supportFor[t]
          /\ diskSupportFor'[t] = diskSupportFor[t] /\ ResponsesTo(s, t)' = ResponsesTo(s, t)
      BY <1>3, <1>5, <2>6, OnlyAtViews DEF OnlyAt, PendingTo
    <3>2. RequestsArePersisted!(s, t)' /\ ProvidedEpochsGrow!(s, t)'
      BY <2>1, <2>3, <2>4, <3>1
    <3>3. EpochsArePersisted!(s, t)' /\ RequestsBelowFloor!(s, t)'
      BY <2>1, <2>2, <2>3, <2>4, <3>1
    <3>4. PromisesAreCovered!(s, t)'
      BY <2>1, <2>2, <2>3, <2>4, <2>5, <3>1 DEF Live, CoveredOnDisk, Superseded
    <3> QED
      BY <3>2, <3>3, <3>4
  <2>7. CASE t = a
    <3>1. /\ PendingTo(s, t)' = {} /\ Provided(t, s)' = Provided(t, s) /\ ~inProgress'[t].open /\ inProgress[t].open
          /\ diskSupportFor'[t][s] = Provided(t, s) /\ supportFor'[t][s] = Provided(t, s)
          /\ supportFor[t][s] = diskSupportFor[t][s]
      BY <1>3, <1>4, <1>6, <2>7
    <3>2. \A m \in ResponsesTo(s, t)' :
            \/ m \in ResponsesTo(s, t)
            \/ \E r \in PendingTo(s, t) : m.epoch = r.epoch /\ m.expiration = r.expiration /\ m.now = clock[t]
      BY <1>5, <2>7
    <3>3. RequestsArePersisted!(s, t)'
      BY <2>1, <2>3, <2>4, <3>1, <3>2
    <3>4. EpochsArePersisted!(s, t)'
      BY <2>1, <2>2, <2>3, <2>4, <3>1, <3>2
    <3>5. RequestsBelowFloor!(s, t)'
      BY <2>1, <2>2, <2>3, <2>4, <3>1
    <3>6. ProvidedEpochsGrow!(s, t)'
      BY <2>1, <2>2, <3>1, <3>2
    <3>7. ASSUME NEW epoch \in Nat, NEW expiration \in Nat, Live(s, t, epoch, expiration)',
                 CoveredOnDisk(s, t, epoch, expiration)
          PROVE  CoveredOnDisk(s, t, epoch, expiration)'
      <4>1. status[s] = "running" /\ Floor(s, t) <= epoch
        BY <2>5, <3>7 DEF Live
      <4>2. CASE expiration <= diskMaxWithdrawn[t]
        BY <2>4, <4>2 DEF CoveredOnDisk
      <4>3. CASE diskSupportFor[t][s].epoch = epoch /\ expiration <= diskSupportFor[t][s].expiration
        <5>1. Provided(t, s).epoch = epoch /\ diskSupportFor[t][s].expiration <= Provided(t, s).expiration
          BY <2>1, <2>2, <2>3, <3>1, <4>1, <4>3
        <5> QED
          BY <2>2, <3>1, <4>3, <5>1 DEF CoveredOnDisk
      <4> QED
        BY <3>7, <4>2, <4>3 DEF CoveredOnDisk
    <3>8. ASSUME NEW epoch, NEW expiration, Superseded(s, t, epoch, expiration)
          PROVE  Superseded(s, t, epoch, expiration)'
      BY <3>1, <3>2, <3>8 DEF Superseded
    <3>9. PICK p : p = Requested(s, t)
      OBVIOUS
    <3>10. t \in requested[s] =>
             (Live(s, t, p.epoch, p.expiration)' =>
                CoveredOnDisk(s, t, p.epoch, p.expiration)' /\ Superseded(s, t, p.epoch, p.expiration)')
      BY <2>1, <2>2, <2>5, <3>7, <3>8, <3>9
    <3>11. ASSUME NEW q \in ResponsesTo(s, t)', Live(s, t, q.epoch, q.expiration)'
           PROVE  CoveredOnDisk(s, t, q.epoch, q.expiration)' /\ Superseded(s, t, q.epoch, q.expiration)'
      <4>1. CASE q \in ResponsesTo(s, t)
        BY <2>1, <2>2, <2>5, <3>7, <3>8, <3>11, <4>1
      <4>2. ASSUME NEW r \in PendingTo(s, t), q.epoch = r.epoch, q.expiration = r.expiration
            PROVE  CoveredOnDisk(s, t, q.epoch, q.expiration)' /\ Superseded(s, t, q.epoch, q.expiration)'
        <5>1. Live(s, t, r.epoch, r.expiration)
          BY <2>2, <2>5, <3>11, <4>2
        <5>2. /\ Provided(t, s).epoch = r.epoch /\ r.expiration <= Provided(t, s).expiration
              /\ Superseded(s, t, r.epoch, r.expiration)
          BY <2>1, <5>1
        <5> QED
          BY <3>1, <3>8, <4>2, <5>2 DEF CoveredOnDisk
      <4> QED
        BY <3>2, <4>1, <4>2
    <3>12. PromisesAreCovered!(s, t)'
      BY <2>3, <2>4, <3>1, <3>9, <3>10, <3>11 DEF Live, CoveredOnDisk, Superseded
    <3> QED
      BY <3>3, <3>4, <3>5, <3>6, <3>12
  <2> QED
    BY <2>6, <2>7
<1>9. MemoryIsDurable!(a)' /\ ClocksCaughtUp!(a)' /\ OnlyRunningStoresWork!(a)'
  BY <1>2, <1>3, <1>4, PairFacts
<1>10. ASSUME NEW t \in Stores PROVE ReportsAreKnown!(a, t)' /\ IdleSupportExpires!(a, t)'
  <2>1. /\ ReportsAreKnown!(a, t) /\ RequestsArePersisted!(a, t) /\ EpochsArePersisted!(a, t) /\ IdleSupportExpires!(a, t)
        /\ supportFrom[a][t].epoch \in Nat /\ supportFrom[a][t].expiration \in Nat
        /\ answer[a][t].epoch \in Nat /\ answer[a][t].expiration \in Nat /\ clock[a] \in Nat
        /\ Requested(a, t).epoch \in Nat /\ Requested(a, t).expiration \in Nat
    BY PairFacts
  <2>2. CASE t \in requested[a]
    BY <1>2, <1>3, <1>4, <1>6, <2>1, <2>2
  <2>3. CASE t \notin requested[a]
    BY <1>2, <1>3, <1>4, <1>6, <2>1, <2>3
  <2> QED
    BY <2>2, <2>3
<1> QED
  BY <1>3, <1>8, <1>9, <1>10, PairByPair, InvAt

------------------------------------------------------------------------------
(* Theorems. *)

LEMMA InvInit == Init => Inv
<1> SUFFICES ASSUME Init PROVE Inv
  OBVIOUS
<1>1. TypeOK
  BY TypeInit
<1>2. /\ \A s, t \in Stores : /\ Provided(t, s) = ZeroState /\ Requested(s, t) = ZeroState
                              /\ HeartbeatsTo(s, t) = {} /\ ResponsesTo(s, t) = {} /\ PendingTo(s, t) = {}
                              /\ supportFrom[s][t] = ZeroState /\ supportFor[s][t] = ZeroState
                              /\ diskSupportFor[s][t] = ZeroState /\ answer[s][t] = ZeroState
      /\ \A s \in Stores : /\ status[s] = "down" /\ requested[s] = {} /\ ~inProgress[s].open
                           /\ diskMaxRequested[s] = 0 /\ diskMaxEpoch[s] = 0
  BY DEF Init, Provided, Requested, CheckedOut, NoUpdate, HeartbeatsTo, ResponsesTo, PendingTo
<1>3. ZeroState.epoch = 0 /\ ZeroState.expiration = 0
  BY DEF ZeroState
<1>4. MemoryIsDurable /\ ClocksCaughtUp /\ OnlyRunningStoresWork
  BY <1>2 DEF MemoryIsDurable, ClocksCaughtUp, OnlyRunningStoresWork
<1>5. RequestsArePersisted /\ EpochsArePersisted /\ RequestsBelowFloor
  BY <1>2, <1>3 DEF RequestsArePersisted, EpochsArePersisted, RequestsBelowFloor
<1>6. ProvidedEpochsGrow /\ PromisesAreCovered
  BY <1>2, <1>3 DEF ProvidedEpochsGrow, PromisesAreCovered, Live
<1>7. ReportsAreKnown /\ IdleSupportExpires
  BY <1>2, <1>3 DEF ReportsAreKnown, IdleSupportExpires
<1> QED
  BY <1>1, <1>4, <1>5, <1>6, <1>7 DEF Inv

LEMMA InvStutter == Inv /\ UNCHANGED vars => Inv'
<1> SUFFICES ASSUME Inv, UNCHANGED vars PROVE Inv'
  OBVIOUS
<1> USE DEF vars, disk, requesterVars, supporterVars
<1>1. /\ \A s \in Stores : CheckedOut(s)' = CheckedOut(s)
      /\ \A s, t \in Stores : Floor(s, t)' = Floor(s, t)
  BY DEF CheckedOut, Floor
<1>2. /\ \A s, t \in Stores : /\ HeartbeatsTo(s, t)' = HeartbeatsTo(s, t)
                              /\ ResponsesTo(s, t)' = ResponsesTo(s, t)
                              /\ PendingTo(s, t)' = PendingTo(s, t)
                              /\ Provided(t, s)' = Provided(t, s)
                              /\ Requested(s, t)' = Requested(s, t)
  BY <1>1 DEF HeartbeatsTo, ResponsesTo, PendingTo, Provided, Requested
<1>3. TypeOK' /\ MemoryIsDurable' /\ ClocksCaughtUp' /\ OnlyRunningStoresWork' /\ IdleSupportExpires'
  BY DEF Inv, TypeOK, MemoryIsDurable, ClocksCaughtUp, OnlyRunningStoresWork, IdleSupportExpires
<1>4. RequestsArePersisted' /\ EpochsArePersisted' /\ RequestsBelowFloor' /\ ProvidedEpochsGrow' /\ ReportsAreKnown'
  BY <1>1, <1>2 DEF Inv, RequestsArePersisted, EpochsArePersisted, RequestsBelowFloor, ProvidedEpochsGrow, ReportsAreKnown
<1>5. PromisesAreCovered'
  BY <1>1, <1>2 DEF Inv, PromisesAreCovered, Live, CoveredOnDisk, Superseded
<1> QED
  BY <1>3, <1>4, <1>5 DEF Inv

LEMMA InvStep ==
  ASSUME "withdraw" \notin WriteErrors
  PROVE  Inv /\ [Next]_vars => Inv'
<1> SUFFICES ASSUME Inv, [Next]_vars PROVE Inv'
  OBVIOUS
<1>1. TypeOK'
  BY TypeStep DEF Inv
<1>2. CASE UNCHANGED vars
  BY <1>2, InvStutter
<1>3. ASSUME NEW s \in Stores, NEW t \in Stores, SupportFrom(s, t) \/ SupportFromUnknown(s, t)
      PROVE  Inv'
  BY <1>1, <1>3, SupportFromStep, SupportFromUnknownStep
<1>4. ASSUME NEW s \in Stores, Crash(s) \/ PanicOnCheckOut(s) \/ Start(s) \/ FinishStart(s)
      PROVE  Inv'
  BY <1>1, <1>4, CrashStep, StartStep, FinishStartStep
<1>5. ASSUME NEW s \in Stores, HeartbeatTickDisabled(s) \/ SendHeartbeats(s) \/ SendHeartbeatsWriteError(s)
                               \/ RemoveIdleStores(s)
      PROVE  Inv'
  BY <1>1, <1>5, HeartbeatStep, RemoveIdleStoresStep
<1>6. ASSUME NEW s \in Stores, WithdrawSupport(s) \/ WithdrawSupportWriteError(s) \/ CrashInWithdrawSupport(s)
      PROVE  Inv'
  <2>1. ~WithdrawSupportWriteError(s)
    BY DEF WithdrawSupportWriteError
  <2> QED
    BY <1>1, <1>6, <2>1, WithdrawSupportStep, CrashInWithdrawSupportStep
<1>7. ASSUME NEW s \in Stores, CommitBatch(s) \/ BatchWriteError(s)
      PROVE  Inv'
  BY <1>1, <1>7, CommitBatchStep, BatchWriteErrorStep
<1>8. ASSUME NEW m \in network, DropMessage(m)
      PROVE  Inv'
  BY <1>1, <1>8, DropMessageStep
<1>9. ASSUME NEW m \in network, NEW s \in Stores,
             ReceiveHeartbeat(s, m) \/ ReceiveHeartbeatResp(s, m) \/ PanicOnHeartbeatResp(s, m)
      PROVE  Inv'
  BY <1>1, <1>9, ReceiveHeartbeatStep, ReceiveHeartbeatRespStep, PanicOnHeartbeatRespStep
<1> QED
  BY <1>2, <1>3, <1>4, <1>5, <1>6, <1>7, <1>8, <1>9 DEF Next

\* A report that has expired on neither clock is a live promise, so t has it on
\* disk and, running, in memory.
LEMMA InvDurable == Inv => DurableSupport
<1> SUFFICES ASSUME Inv, NEW s \in Stores, NEW t \in Stores,
                    status[s] = "running", clock[s] < answer[s][t].expiration,
                    status[t] = "running", clock[t] < answer[s][t].expiration
             PROVE  SupportFor(t, s) = <<answer[s][t].epoch, TRUE>>
  BY DEF DurableSupport
<1>1. /\ t \in requested[s]
      /\ answer[s][t].epoch = supportFrom[s][t].epoch
      /\ answer[s][t].expiration <= supportFrom[s][t].expiration
  BY PairFacts
<1>2. /\ answer[s][t].expiration \in Nat /\ supportFrom[s][t].expiration \in Nat
      /\ clock[s] \in Nat /\ clock[t] \in Nat /\ diskMaxWithdrawn[t] \in Nat
      /\ supportFrom[s][t].epoch \in Nat /\ Requested(s, t).expiration \in Nat
      /\ diskSupportFor[t][s].expiration \in Nat
  BY PairFacts, PromiseFacts
<1>3. supportFrom[s][t].epoch = Requested(s, t).epoch /\ supportFrom[s][t].expiration <= Requested(s, t).expiration
  BY <1>1, <1>2, PairFacts
<1>4. Live(s, t, Requested(s, t).epoch, Requested(s, t).expiration)
  BY <1>1, <1>2, <1>3 DEF Live, Floor
<1>5. CoveredOnDisk(s, t, Requested(s, t).epoch, Requested(s, t).expiration)
  BY <1>1, <1>4, PromiseFacts
<1>6. diskMaxWithdrawn[t] <= clock[t] /\ supportFor[t] = diskSupportFor[t]
  BY PairFacts
<1>7. supportFor[t][s].epoch = answer[s][t].epoch /\ supportFor[t][s].expiration # 0
  BY <1>1, <1>2, <1>3, <1>5, <1>6 DEF CoveredOnDisk
<1> QED
  BY <1>7 DEF SupportFor

\* Support that SupportFrom reported is durable for any number of stores,
\* crashes, clock regressions and lost messages, and any constants: the
\* supporter reports the same epoch until the reported expiration.  The one
\* hypothesis is that the writes of withdrawSupport do not fail.
THEOREM SupportIsDurable ==
  ASSUME "withdraw" \notin WriteErrors
  PROVE  Spec => []DurableSupport
<1>1. Init => Inv
  BY InvInit
<1>2. Inv /\ [Next]_vars => Inv'
  BY InvStep
<1>3. Inv => DurableSupport
  BY InvDurable
<1> QED
  BY <1>1, <1>2, <1>3, PTL DEF Spec

\* The steps that change what was reported, and what SupportFor reports.
LEMMA Frames ==
  ASSUME [Next]_vars
  PROVE  /\ UNCHANGED answer \/ \E a, b \in Stores : SupportFrom(a, b)
         /\ \/ UNCHANGED <<diskSupportFor, supportFor>>
            \/ \E a \in Stores : \/ Start(a) \/ WithdrawSupport(a) \/ WithdrawSupportWriteError(a)
                                 \/ CrashInWithdrawSupport(a) \/ CommitBatch(a)
<1> USE DEF disk, supporterVars
<1>1. CASE UNCHANGED vars
  BY <1>1 DEF vars
<1>2. ASSUME NEW a \in Stores, NEW b \in Stores, SupportFrom(a, b)
      PROVE  UNCHANGED <<diskSupportFor, supportFor>>
  BY <1>2 DEF SupportFrom
<1>3. ASSUME NEW a \in Stores, NEW b \in Stores, SupportFromUnknown(a, b)
      PROVE  UNCHANGED <<diskSupportFor, supportFor, answer>>
  BY <1>3 DEF SupportFromUnknown
<1>4. ASSUME NEW a \in Stores, \/ Crash(a) \/ PanicOnCheckOut(a) \/ HeartbeatTickDisabled(a)
                                \/ SendHeartbeats(a) \/ SendHeartbeatsWriteError(a) \/ BatchWriteError(a)
                                \/ FinishStart(a) \/ RemoveIdleStores(a)
      PROVE  UNCHANGED <<diskSupportFor, supportFor, answer>>
  BY <1>4 DEF Crash, PanicOnCheckOut, LoseMemory, HeartbeatTickDisabled, SendHeartbeats,
              SendHeartbeatsWriteError, BatchWriteError, FinishStart, RemoveIdleStores
<1>5. ASSUME NEW a \in Stores, \/ Start(a) \/ WithdrawSupport(a) \/ WithdrawSupportWriteError(a)
                                \/ CrashInWithdrawSupport(a) \/ CommitBatch(a)
      PROVE  UNCHANGED answer
  BY <1>5 DEF Start, WithdrawSupport, WithdrawSupportWriteError, CheckInWithdrawal, CrashInWithdrawSupport,
              CommitBatch
<1>6. ASSUME NEW m \in network, DropMessage(m)
      PROVE  UNCHANGED <<diskSupportFor, supportFor, answer>>
  BY <1>6 DEF DropMessage
<1>7. ASSUME NEW m \in network, NEW a \in Stores,
             ReceiveHeartbeat(a, m) \/ ReceiveHeartbeatResp(a, m) \/ PanicOnHeartbeatResp(a, m)
      PROVE  UNCHANGED <<diskSupportFor, supportFor, answer>>
  BY <1>7 DEF ReceiveHeartbeat, ReceiveHeartbeatResp, PanicOnHeartbeatResp, LoseMemory
<1> QED
  BY <1>1, <1>2, <1>3, <1>4, <1>5, <1>6, <1>7 DEF Next

\* Only SupportFrom changes what was reported, to what s knows.
LEMMA DisjointStep ==
  ASSUME Inv, [Next]_vars, NEW s \in Stores, NEW t \in Stores, answer'[s][t].epoch # answer[s][t].epoch
  PROVE  answer'[s][t].epoch > answer[s][t].epoch /\ answer[s][t].expiration <= clock[s]
<1>1. TypeOK
  BY DEF Inv
<1>2. PICK a \in Stores, b \in Stores : SupportFrom(a, b)
  BY Frames
<1>3. s = a /\ t = b /\ answer'[s][t] = supportFrom[s][t] /\ t \in requested[s] /\ status[s] = "running"
  BY <1>1, <1>2 DEF SupportFrom, TypeOK
<1>4. /\ ReportsAreKnown!(s, t) /\ clock[s] \in Nat
      /\ answer[s][t].epoch \in Nat /\ answer[s][t].expiration \in Nat /\ supportFrom[s][t].epoch \in Nat
  BY PairFacts
<1> QED
  BY <1>3, <1>4

\* The periods of support that SupportFrom reports for one supporter are
\* disjoint on the clock of the requester, for any constants as long as the
\* writes of withdrawSupport do not fail.
THEOREM SupportIsDisjoint ==
  ASSUME "withdraw" \notin WriteErrors
  PROVE  Spec => DisjointSupport
<1>1. Init => Inv
  BY InvInit
<1>2. Inv /\ [Next]_vars => Inv'
  BY InvStep
<1>3. Inv /\ [Next]_vars =>
        [\A s, t \in Stores :
           answer'[s][t].epoch # answer[s][t].epoch =>
             /\ answer'[s][t].epoch > answer[s][t].epoch
             /\ answer[s][t].expiration <= clock[s]]_vars
  BY DisjointStep
<1> QED
  BY <1>1, <1>2, <1>3, PTL DEF Spec, DisjointSupport

\* What a store that is down will read back is not behind what it last reported.
NotBehind(old, new) == \/ old.epoch < new.epoch
                       \/ old.epoch = new.epoch /\ old.expiration <= new.expiration

DiskNotBehind == \A s, t \in Stores : NotBehind(supportFor[s][t], diskSupportFor[s][t])

\* A step changes supportFor of a store only by reading the disk, by a
\* withdrawal or by committing a batch.
LEMMA SupportForStep ==
  ASSUME "withdraw" \notin WriteErrors, Inv, Inv', DiskNotBehind, [Next]_vars
  PROVE  /\ \A s, t \in Stores : NotBehind(supportFor[s][t], supportFor'[s][t])
         /\ DiskNotBehind'
<1> USE DEF disk, requesterVars, supporterVars
<1>1. TypeOK /\ TypeOK' /\ ViewsTyped /\ ViewsTyped'
  BY ViewTypes, TypesPrimed DEF Inv
<1>2. \A s, t \in Stores : /\ supportFor[s][t].epoch \in Nat /\ supportFor[s][t].expiration \in Nat
                           /\ supportFor'[s][t].epoch \in Nat /\ supportFor'[s][t].expiration \in Nat
                           /\ diskSupportFor[s][t].epoch \in Nat /\ diskSupportFor[s][t].expiration \in Nat
                           /\ diskSupportFor'[s][t].epoch \in Nat /\ diskSupportFor'[s][t].expiration \in Nat
  BY <1>1 DEF ViewsTyped
<1>3. \A s, t \in Stores : status'[s] # "down" => NotBehind(supportFor'[s][t], diskSupportFor'[s][t])
  BY <1>2 DEF Inv, MemoryIsDurable, NotBehind
<1>6. ASSUME NEW a \in Stores, Start(a)
      PROVE  /\ \A s, t \in Stores : NotBehind(supportFor[s][t], supportFor'[s][t])
             /\ DiskNotBehind'
  <2>1. diskSupportFor' = diskSupportFor /\ supportFor' = [supportFor EXCEPT ![a] = diskSupportFor[a]]
    BY <1>6 DEF Start
  <2>2. \A s \in Stores : supportFor'[s] = IF s = a THEN diskSupportFor[s] ELSE supportFor[s]
    BY <1>1, <2>1 DEF TypeOK
  <2> QED
    BY <1>2, <2>1, <2>2 DEF DiskNotBehind, NotBehind
<1>7. ASSUME NEW a \in Stores, WithdrawSupport(a)
      PROVE  /\ \A s, t \in Stores : NotBehind(supportFor[s][t], supportFor'[s][t])
             /\ DiskNotBehind'
  <2>1. PICK now \in Now(a) : WriteWithdrawal(a, now, Expired(a, now)) /\ CheckInWithdrawal(a, now)
    BY <1>7 DEF WithdrawSupport
  <2>2. supportFor'[a] = Withdraw(supportFor[a], Expired(a, now))
        /\ \A s \in Stores \ {a} : supportFor'[s] = supportFor[s] /\ diskSupportFor'[s] = diskSupportFor[s]
    BY <1>1, <2>1 DEF CheckInWithdrawal, WriteWithdrawal, TypeOK
  <2>3. \A t \in Stores : \/ supportFor'[a][t].epoch = supportFor[a][t].epoch + 1
                          \/ supportFor'[a][t] = supportFor[a][t]
    BY <2>2 DEF Withdraw
  <2>4. \A s, t \in Stores : NotBehind(supportFor[s][t], supportFor'[s][t])
    BY <1>2, <2>2, <2>3 DEF NotBehind
  <2>5. status'[a] = "running"
    BY <1>7, <2>1 DEF WithdrawSupport, CanWithdraw, LoopReady, CheckInWithdrawal
  <2>6. \A s, t \in Stores : NotBehind(supportFor'[s][t], diskSupportFor'[s][t])
    BY <1>3, <2>2, <2>5 DEF DiskNotBehind
  <2> QED
    BY <2>4, <2>6 DEF DiskNotBehind
<1>8. ASSUME NEW a \in Stores, CrashInWithdrawSupport(a)
      PROVE  /\ \A s, t \in Stores : NotBehind(supportFor[s][t], supportFor'[s][t])
             /\ DiskNotBehind'
  <2>1. PICK now \in Now(a) : CanWithdraw(a, now) /\ \E W \in SUBSET Expired(a, now) : WriteWithdrawal(a, now, W)
    BY <1>8 DEF CrashInWithdrawSupport
  <2>2. PICK W \in SUBSET Expired(a, now) : WriteWithdrawal(a, now, W)
    BY <2>1
  <2>3. supportFor[a] = diskSupportFor[a] /\ supportFor' = supportFor
    BY <1>8, <2>1 DEF CanWithdraw, LoopReady, Inv, MemoryIsDurable, CrashInWithdrawSupport, LoseMemory
  <2>4. /\ \A s \in Stores \ {a} : diskSupportFor'[s] = diskSupportFor[s]
        /\ \A t \in Stores : \/ diskSupportFor'[a][t].epoch = supportFor[a][t].epoch + 1
                             \/ diskSupportFor'[a][t] = supportFor[a][t]
    BY <1>1, <2>2, <2>3 DEF WriteWithdrawal, Withdraw, TypeOK
  <2> QED
    BY <1>2, <2>3, <2>4 DEF DiskNotBehind, NotBehind
<1>9. ASSUME NEW a \in Stores, CommitBatch(a)
      PROVE  /\ \A s, t \in Stores : NotBehind(supportFor[s][t], supportFor'[s][t])
             /\ DiskNotBehind'
  <2>1. /\ OnlyAt(a) /\ status[a] = "running" /\ supportFor'[a] = diskSupportFor'[a]
        /\ \A t \in Stores : supportFor'[a][t] = Provided(a, t)
    BY <1>1, <1>9, CommitBatchView
  <2>2. \A s, t \in Stores : NotBehind(supportFor[s][t], supportFor'[s][t])
    BY <1>2, <2>1 DEF Inv, ProvidedEpochsGrow, NotBehind, OnlyAt
  <2>3. \A s, t \in Stores : NotBehind(supportFor'[s][t], diskSupportFor'[s][t])
    BY <1>2, <2>1 DEF NotBehind, OnlyAt, DiskNotBehind
  <2> QED
    BY <2>2, <2>3 DEF DiskNotBehind
<1>10. \/ UNCHANGED <<diskSupportFor, supportFor>>
       \/ \E a \in Stores : \/ Start(a) \/ WithdrawSupport(a) \/ CrashInWithdrawSupport(a) \/ CommitBatch(a)
  <2>1. \A a \in Stores : ~WithdrawSupportWriteError(a)
    BY DEF WithdrawSupportWriteError
  <2> QED
    BY <2>1, Frames
<1> QED
  BY <1>2, <1>6, <1>7, <1>8, <1>9, <1>10 DEF DiskNotBehind, NotBehind

\* SupportFor never regresses, across crashes as well, for any constants as
\* long as the writes of withdrawSupport do not fail.
THEOREM SupportNeverRegresses ==
  ASSUME "withdraw" \notin WriteErrors
  PROVE  Spec => NoSupportRegression
<1>1. Init => Inv /\ DiskNotBehind
  <2>1. Init => DiskNotBehind
    BY DEF Init, DiskNotBehind, NotBehind, ZeroState
  <2> QED
    BY <2>1, InvInit
<1>2. Inv /\ [Next]_vars => Inv'
  BY InvStep
<1>3. Inv /\ Inv' /\ DiskNotBehind /\ [Next]_vars => DiskNotBehind'
  BY SupportForStep
<1>4. Inv /\ Inv' /\ DiskNotBehind /\ [Next]_vars =>
        [\A s, t \in Stores :
           LET old == supportFor[s][t]
               new == supportFor'[s][t]
           IN  \/ new.epoch > old.epoch
               \/ new.epoch = old.epoch /\ new.expiration >= old.expiration]_vars
  <2> SUFFICES ASSUME Inv, Inv', DiskNotBehind, [Next]_vars, NEW s \in Stores, NEW t \in Stores
               PROVE  \/ supportFor'[s][t].epoch > supportFor[s][t].epoch
                      \/ /\ supportFor'[s][t].epoch = supportFor[s][t].epoch
                         /\ supportFor'[s][t].expiration >= supportFor[s][t].expiration
    OBVIOUS
  <2>1. NotBehind(supportFor[s][t], supportFor'[s][t])
    BY SupportForStep
  <2>2. /\ supportFor[s][t].epoch \in Nat /\ supportFor[s][t].expiration \in Nat
        /\ supportFor'[s][t].epoch \in Nat /\ supportFor'[s][t].expiration \in Nat
    BY ViewTypes, TypesPrimed DEF Inv, ViewsTyped
  <2> QED
    BY <2>1, <2>2 DEF NotBehind
<1> QED
  BY <1>1, <1>2, <1>3, <1>4, PTL DEF Spec, NoSupportRegression

------------------------------------------------------------------------------
(* The assertions of the message handlers, however writes fail.  A step is     *)
(* split into what it does to a requester (RequestsGrow) and to a supporter    *)
(* (ProvidedFromHeartbeats); OrderKept combines the two.                       *)

\* The types of what HandlerInv speaks of.
OrderTyped ==
  \A s, t \in Stores :
    /\ EpochBound(s, t) \in Nat
    /\ diskMaxRequested[s] \in Nat /\ maxRequested[s] \in Nat
    /\ diskMaxEpoch[s] \in Nat /\ maxEpoch[s] \in Nat /\ clock[s] \in Nat
    /\ \A m \in HeartbeatsTo(s, t) : m.epoch \in Nat /\ m.expiration \in Nat
    /\ \A x \in ProvidedStates(t, s) : x \in SupportState /\ x.epoch \in Nat /\ x.expiration \in Nat
    /\ \A x \in Answers(t, s) : x.epoch \in Nat /\ x.expiration \in Nat

LEMMA OrderTypes == TypeOK => OrderTyped
<1> SUFFICES ASSUME TypeOK, NEW s \in Stores, NEW t \in Stores PROVE OrderTyped!(s, t)
  BY DEF OrderTyped
<1>1. ViewsTyped /\ MessagesTyped
  BY ViewTypes, MessageTypes
<1>2. /\ diskMaxRequested[s] \in Nat /\ maxRequested[s] \in Nat
      /\ diskMaxEpoch[s] \in Nat /\ maxEpoch[s] \in Nat /\ clock[s] \in Nat
  BY DEF TypeOK, Timestamps, Epochs
<1>3. EpochBound(s, t) \in Nat
  BY <1>1, <1>2 DEF ViewsTyped, EpochBound
<1>4. \A m \in HeartbeatsTo(s, t) : m.epoch \in Nat /\ m.expiration \in Nat
  BY <1>1 DEF MessagesTyped, HeartbeatsTo
<1>5. \A x \in Answers(t, s) : x.epoch \in Nat /\ x.expiration \in Nat
  BY <1>1 DEF MessagesTyped, Answers, ResponsesTo, PendingTo
<1>6. \A x \in ProvidedStates(t, s) : x \in SupportState
  BY <1>1 DEF ViewsTyped, ProvidedStates, TypeOK
<1> QED
  BY <1>2, <1>3, <1>4, <1>5, <1>6, StateType

LEMMA OrderTypesPrimed == TypeOK' => OrderTyped'
BY OrderTypes, PTL

\* A step never lowers what a requester asks for, and a heartbeat that it sends
\* asks for the highest epoch so far and for more than any before.
RequestsGrow ==
  \A s, t \in Stores :
    /\ EpochBound(s, t) <= EpochBound(s, t)'
    /\ diskMaxRequested[s] <= diskMaxRequested'[s]
    /\ \A m \in HeartbeatsTo(s, t)' :
         \/ m \in HeartbeatsTo(s, t)
         \/ /\ 0 < m.epoch /\ m.epoch = EpochBound(s, t)'
            /\ diskMaxRequested[s] < m.expiration /\ m.expiration = diskMaxRequested'[s]

\* What a supporter provides and answers comes from what it provided, from a
\* withdrawal or from a heartbeat in flight.
ProvidedFromHeartbeats ==
  \A s, t \in Stores :
    /\ \A x \in ProvidedStates(t, s)' :
         \/ x \in ProvidedStates(t, s)
         \/ \E y \in ProvidedStates(t, s) :
              y.expiration # 0 /\ x.epoch = y.epoch + 1 /\ x.expiration = 0
         \/ \E y \in ProvidedStates(t, s), m \in HeartbeatsTo(s, t) : x = HandleHeartbeat(y, m)
    /\ \A x \in Answers(t, s)' :
         \/ \E y \in Answers(t, s) : x.epoch = y.epoch /\ x.expiration = y.expiration
         \/ \E y \in ProvidedStates(t, s), m \in HeartbeatsTo(s, t) :
              /\ x.epoch = HandleHeartbeat(y, m).epoch
              /\ x.expiration = HandleHeartbeat(y, m).expiration

LEMMA WithinBoundGrows ==
  ASSUME NEW x, x.epoch \in Nat, NEW b \in Nat, NEW c \in Nat, b <= c, WithinBound(x, b)
  PROVE  WithinBound(x, c)
BY DEF WithinBound

\* handleHeartbeat in terms of the epochs and expirations.
LEMMA HandleHeartbeatCases ==
  ASSUME NEW ss \in SupportState, NEW m, m.epoch \in Nat, m.expiration \in Nat
  PROVE  LET new == HandleHeartbeat(ss, m)
         IN  /\ m.epoch <= new.epoch
             /\ \/ new.epoch = m.epoch /\ new.expiration = m.expiration
                \/ ss.epoch = m.epoch /\ new = ss
                \/ m.epoch < ss.epoch /\ new = ss
<1>1. ss.epoch \in Nat /\ ss.expiration \in Nat
  BY StateType
<1>2. CASE ss.epoch < m.epoch
  BY <1>1, <1>2 DEF HandleHeartbeat
<1>3. CASE ss.epoch = m.epoch
  <2>1. HandleHeartbeat(ss, m) = [ss EXCEPT !.expiration = Forward(@, m.expiration)]
    BY <1>1, <1>3 DEF HandleHeartbeat
  <2>2. CASE ss.expiration < m.expiration
    BY <1>1, <1>3, <2>1, <2>2 DEF Forward, SupportState
  <2>3. CASE ~(ss.expiration < m.expiration)
    BY <1>1, <1>3, <2>1, <2>3 DEF Forward, SupportState
  <2> QED
    BY <2>2, <2>3
<1>4. CASE ss.epoch > m.epoch
  BY <1>1, <1>4 DEF HandleHeartbeat
<1> QED
  BY <1>1, <1>2, <1>3, <1>4

LEMMA OrderKept ==
  ASSUME HandlerInv, TypeOK', RequestsGrow, ProvidedFromHeartbeats
  PROVE  HeartbeatsInOrder' /\ ProvidedInOrder' /\ AnswersInOrder'
<1>1. OrderTyped /\ OrderTyped'
  BY OrderTypes, OrderTypesPrimed DEF HandlerInv
<1> SUFFICES ASSUME NEW s \in Stores, NEW t \in Stores
             PROVE  HeartbeatsInOrder!(s, t)' /\ ProvidedInOrder!(s, t)' /\ AnswersInOrder!(s, t)'
  BY DEF HeartbeatsInOrder, ProvidedInOrder, AnswersInOrder
<1> DEFINE b == EpochBound(s, t)
           bNew == EpochBound(s, t)'
           H == HeartbeatsTo(s, t)
           P == ProvidedStates(t, s)
<1>2. /\ b \in Nat /\ bNew \in Nat /\ b <= bNew
      /\ diskMaxRequested[s] \in Nat /\ diskMaxRequested'[s] \in Nat
      /\ diskMaxRequested[s] <= diskMaxRequested'[s]
      /\ \A m \in H' : m.epoch \in Nat /\ m.expiration \in Nat
      /\ \A m \in H : m.epoch \in Nat /\ m.expiration \in Nat
      /\ \A x \in P : x \in SupportState /\ x.epoch \in Nat /\ x.expiration \in Nat
      /\ \A x \in P' : x \in SupportState /\ x.epoch \in Nat /\ x.expiration \in Nat
      /\ \A x \in Answers(t, s)' : x.epoch \in Nat /\ x.expiration \in Nat
      /\ \A x \in Answers(t, s) : x.epoch \in Nat /\ x.expiration \in Nat
  BY <1>1 DEF OrderTyped, RequestsGrow
<1>3. \A m \in H' : \/ m \in H
                    \/ /\ 0 < m.epoch /\ m.epoch = bNew
                       /\ diskMaxRequested[s] < m.expiration /\ m.expiration = diskMaxRequested'[s]
  BY DEF RequestsGrow
<1>4. \A m \in H : /\ 0 < m.epoch /\ m.epoch <= b
                   /\ 0 < m.expiration /\ m.expiration <= diskMaxRequested[s]
                   /\ \A n \in H : n.epoch < m.epoch => n.expiration < m.expiration
  BY DEF HandlerInv, HeartbeatsInOrder
<1>5. \A x \in P : /\ FromFirstEpoch(x)
                   /\ WithinBound(x, b)
                   /\ x.expiration <= diskMaxRequested[s]
                   /\ \A m \in H : x.epoch < m.epoch => x.expiration < m.expiration
  BY DEF HandlerInv, ProvidedInOrder
<1>6. \A x \in Answers(t, s) : 0 < x.epoch /\ FromFirstEpoch(x) /\ WithinBound(x, b)
  BY DEF HandlerInv, AnswersInOrder
<1>7. /\ \A x \in P' : \/ x \in P
                       \/ \E y \in P : y.expiration # 0 /\ x.epoch = y.epoch + 1 /\ x.expiration = 0
                       \/ \E y \in P, m \in H : x = HandleHeartbeat(y, m)
      /\ \A x \in Answers(t, s)' :
           \/ \E y \in Answers(t, s) : x.epoch = y.epoch /\ x.expiration = y.expiration
           \/ \E y \in P, m \in H : /\ x.epoch = HandleHeartbeat(y, m).epoch
                                    /\ x.expiration = HandleHeartbeat(y, m).expiration
  BY DEF ProvidedFromHeartbeats
<1>a. /\ EpochBound(s, t)' = bNew /\ HeartbeatsTo(s, t)' = H' /\ ProvidedStates(t, s)' = P'
  OBVIOUS
<1> HIDE DEF b, bNew, H, P
<1>8. HeartbeatsInOrder!(s, t)'
  <2> SUFFICES ASSUME NEW m \in H'
               PROVE  /\ 0 < m.epoch /\ m.epoch <= bNew
                      /\ 0 < m.expiration /\ m.expiration <= diskMaxRequested'[s]
                      /\ \A n \in H' : n.epoch < m.epoch => n.expiration < m.expiration
    BY <1>a
  <2>1. 0 < m.epoch /\ m.epoch <= bNew /\ 0 < m.expiration /\ m.expiration <= diskMaxRequested'[s]
    BY <1>2, <1>3, <1>4
  <2>2. ASSUME NEW n \in H', n.epoch < m.epoch PROVE n.expiration < m.expiration
    <3>1. n \in H
      BY <1>2, <1>3, <2>1, <2>2
    <3>2. CASE m \in H
      BY <1>4, <2>2, <3>1, <3>2
    <3>3. CASE m \notin H
      BY <1>2, <1>3, <1>4, <3>1, <3>3
    <3> QED
      BY <3>2, <3>3
  <2> QED
    BY <2>1, <2>2
<1>9. ASSUME NEW x, x.epoch \in Nat, x.expiration \in Nat, NEW y \in P, NEW m \in H,
             x.epoch = HandleHeartbeat(y, m).epoch, x.expiration = HandleHeartbeat(y, m).expiration
      PROVE  /\ 0 < x.epoch /\ FromFirstEpoch(x) /\ WithinBound(x, b)
             /\ x.expiration <= diskMaxRequested[s]
             /\ \A n \in H : x.epoch < n.epoch => x.expiration < n.expiration
  <2>1. \/ x.epoch = m.epoch /\ x.expiration = m.expiration
        \/ m.epoch <= y.epoch /\ x.epoch = y.epoch /\ x.expiration = y.expiration
    BY <1>2, <1>9, HandleHeartbeatCases
  <2>2. CASE x.epoch = m.epoch /\ x.expiration = m.expiration
    BY <1>2, <1>4, <2>2 DEF FromFirstEpoch, WithinBound
  <2>3. CASE m.epoch <= y.epoch /\ x.epoch = y.epoch /\ x.expiration = y.expiration
    BY <1>2, <1>4, <1>5, <2>3 DEF FromFirstEpoch, WithinBound
  <2> QED
    BY <2>1, <2>2, <2>3
<1>10. ASSUME NEW x \in P'
       PROVE  /\ FromFirstEpoch(x)
              /\ WithinBound(x, bNew)
              /\ x.expiration <= diskMaxRequested'[s]
              /\ \A m \in H' : x.epoch < m.epoch => x.expiration < m.expiration
  <2>1. /\ FromFirstEpoch(x) /\ WithinBound(x, b)
        /\ x.expiration <= diskMaxRequested[s]
        /\ \A m \in H : x.epoch < m.epoch => x.expiration < m.expiration
    <3>1. CASE x \in P
      BY <1>5, <3>1
    <3>2. CASE \E y \in P : y.expiration # 0 /\ x.epoch = y.epoch + 1 /\ x.expiration = 0
      <4>1. PICK y \in P : y.expiration # 0 /\ x.epoch = y.epoch + 1 /\ x.expiration = 0
        BY <3>2
      <4>2. FromFirstEpoch(y) /\ WithinBound(y, b) /\ y.epoch \in Nat
        BY <1>2, <1>5
      <4>3. 0 < y.epoch /\ y.epoch <= b
        BY <4>1, <4>2 DEF FromFirstEpoch, WithinBound
      <4> QED
        BY <1>2, <1>4, <4>1, <4>2, <4>3 DEF FromFirstEpoch, WithinBound
    <3>3. CASE \E y \in P, m \in H : x = HandleHeartbeat(y, m)
      BY <1>2, <1>9, <3>3
    <3> QED
      BY <1>7, <3>1, <3>2, <3>3
  <2>2. WithinBound(x, bNew)
    BY <1>2, <2>1, WithinBoundGrows
  <2>3. \A m \in H' : x.epoch < m.epoch => x.expiration < m.expiration
    BY <1>2, <1>3, <2>1
  <2> QED
    BY <1>2, <2>1, <2>2, <2>3
<1>11. ASSUME NEW x \in Answers(t, s)' PROVE 0 < x.epoch /\ FromFirstEpoch(x) /\ WithinBound(x, bNew)
  <2>1. 0 < x.epoch /\ FromFirstEpoch(x) /\ WithinBound(x, b)
    <3>1. CASE \E y \in Answers(t, s) : x.epoch = y.epoch /\ x.expiration = y.expiration
      BY <1>6, <3>1 DEF FromFirstEpoch, WithinBound
    <3>2. CASE \E y \in P, m \in H : /\ x.epoch = HandleHeartbeat(y, m).epoch
                                     /\ x.expiration = HandleHeartbeat(y, m).expiration
      BY <1>2, <1>9, <3>2
    <3> QED
      BY <1>7, <3>1, <3>2
  <2> QED
    BY <1>2, <2>1, WithinBoundGrows
<1> QED
  BY <1>a, <1>8, <1>10, <1>11

\* What HandlerInv says of one requester, and its types.
LEMMA RequesterFacts ==
  ASSUME HandlerInv, NEW s \in Stores, NEW t \in Stores
  PROVE  /\ TypeOK /\ RequesterIsDurable!(s) /\ KeysAreRequested!(s, t)
         /\ diskMaxRequested[s] \in Nat /\ maxRequested[s] \in Nat /\ clock[s] \in Nat
         /\ diskMaxEpoch[s] \in Nat /\ maxEpoch[s] \in Nat /\ CheckedOut(s).maxEpoch \in Nat
         /\ supportFrom[s][t].epoch \in Nat /\ Requested(s, t).epoch \in Nat
         /\ Requested(s, t) \in SupportState /\ supportFrom[s][t] \in SupportState
         /\ EpochBound(s, t) \in Nat /\ EpochBound(s, t) <= diskMaxEpoch[s]
<1>1. TypeOK /\ ViewsTyped /\ OrderTyped
  BY ViewTypes, OrderTypes DEF HandlerInv
<1>2. RequesterIsDurable!(s) /\ KeysAreRequested!(s, t)
  BY DEF HandlerInv, RequesterIsDurable, KeysAreRequested
<1>3. /\ diskMaxRequested[s] \in Nat /\ maxRequested[s] \in Nat /\ clock[s] \in Nat
      /\ diskMaxEpoch[s] \in Nat /\ maxEpoch[s] \in Nat /\ CheckedOut(s).maxEpoch \in Nat
      /\ supportFrom[s][t].epoch \in Nat /\ Requested(s, t).epoch \in Nat
      /\ Requested(s, t) \in SupportState /\ EpochBound(s, t) \in Nat
  BY <1>1 DEF OrderTyped, ViewsTyped
<1>4. supportFrom[s][t] \in SupportState
  BY <1>1 DEF TypeOK
<1>5. EpochBound(s, t) <= diskMaxEpoch[s]
  BY <1>2, <1>3 DEF EpochBound, Floor
<1> QED
  BY <1>1, <1>2, <1>3, <1>4, <1>5

\* It is enough to look at the store that takes the step, as a requester ...
LEMMA RequesterAt ==
  ASSUME HandlerInv, TypeOK', NEW a \in Stores, OnlyAt(a),
         RequesterIsDurable!(a)',
         \A t \in Stores : KeysAreRequested!(a, t)' /\ EpochBound(a, t) <= EpochBound(a, t)',
         diskMaxRequested[a] <= diskMaxRequested'[a],
         \A s, t \in Stores : \A m \in HeartbeatsTo(s, t)' :
           \/ m \in HeartbeatsTo(s, t)
           \/ /\ s = a
              /\ 0 < m.epoch /\ m.epoch = EpochBound(a, t)'
              /\ diskMaxRequested[a] < m.expiration /\ m.expiration = diskMaxRequested'[a]
  PROVE  RequesterIsDurable' /\ KeysAreRequested' /\ RequestsGrow
<1>1. ASSUME NEW s \in Stores \ {a}, NEW t \in Stores
      PROVE  /\ RequesterIsDurable!(s)' /\ KeysAreRequested!(s, t)'
             /\ EpochBound(s, t)' = EpochBound(s, t)
             /\ EpochBound(s, t) <= EpochBound(s, t)
             /\ diskMaxRequested[s] <= diskMaxRequested'[s]
  <2>1. CheckedOut(s)' = CheckedOut(s) /\ Requested(s, t)' = Requested(s, t) /\ Floor(s, t)' = Floor(s, t)
    BY OnlyAtViews
  <2>2. RequesterIsDurable!(s) /\ KeysAreRequested!(s, t) /\ EpochBound(s, t) \in Nat /\ diskMaxRequested[s] \in Nat
    BY RequesterFacts
  <2>3. RequesterIsDurable!(s)'
    BY <2>1, <2>2 DEF OnlyAt
  <2>4. KeysAreRequested!(s, t)'
    BY <2>1, <2>2 DEF OnlyAt
  <2>5. EpochBound(s, t)' = EpochBound(s, t)
    BY <2>1 DEF OnlyAt, EpochBound
  <2> QED
    BY <2>2, <2>3, <2>4, <2>5 DEF OnlyAt
<1>2. RequesterIsDurable'
  BY <1>1 DEF RequesterIsDurable
<1>3. KeysAreRequested'
  BY <1>1 DEF KeysAreRequested
<1>4. RequestsGrow
  BY <1>1 DEF RequestsGrow
<1> QED
  BY <1>2, <1>3, <1>4

\* ... and as a supporter.
LEMMA ProviderAt ==
  ASSUME TypeOK, NEW a \in Stores, OnlyAt(a),
         \A s, t \in Stores : t # a => ResponsesTo(s, t)' \subseteq ResponsesTo(s, t),
         \A s \in Stores :
           /\ \A x \in ProvidedStates(a, s)' :
                \/ x \in ProvidedStates(a, s)
                \/ \E y \in ProvidedStates(a, s) :
                     y.expiration # 0 /\ x.epoch = y.epoch + 1 /\ x.expiration = 0
                \/ \E y \in ProvidedStates(a, s), m \in HeartbeatsTo(s, a) : x = HandleHeartbeat(y, m)
           /\ \A x \in Answers(a, s)' :
                \/ \E y \in Answers(a, s) : x.epoch = y.epoch /\ x.expiration = y.expiration
                \/ \E y \in ProvidedStates(a, s), m \in HeartbeatsTo(s, a) :
                     /\ x.epoch = HandleHeartbeat(y, m).epoch
                     /\ x.expiration = HandleHeartbeat(y, m).expiration
  PROVE  ProvidedFromHeartbeats
<1>1. ASSUME NEW s \in Stores, NEW t \in Stores \ {a}
      PROVE  ProvidedStates(t, s)' = ProvidedStates(t, s) /\ Answers(t, s)' \subseteq Answers(t, s)
  <2>1. Provided(t, s)' = Provided(t, s)
    BY OnlyAtViews
  <2>2. PendingTo(s, t)' = PendingTo(s, t)
    BY DEF OnlyAt, PendingTo
  <2> QED
    BY <2>1, <2>2 DEF OnlyAt, ProvidedStates, Answers
<1>2. ASSUME NEW s \in Stores, NEW t \in Stores PROVE ProvidedFromHeartbeats!(s, t)
  <2>1. CASE t = a
    BY <2>1
  <2>2. CASE t # a
    BY <1>1, <2>2
  <2> QED
    BY <2>1, <2>2
<1> QED
  BY <1>2 DEF ProvidedFromHeartbeats

LEMMA LostMessages ==
  ASSUME network' \subseteq network
  PROVE  \A s, t \in Stores : /\ HeartbeatsTo(s, t)' \subseteq HeartbeatsTo(s, t)
                              /\ ResponsesTo(s, t)' \subseteq ResponsesTo(s, t)
BY DEF HeartbeatsTo, ResponsesTo

\* A step that changes nothing of the requester state.
LEMMA SameRequester ==
  ASSUME HandlerInv, TypeOK', NEW a \in Stores, OnlyAt(a),
         status'[a] = status[a], diskMaxEpoch'[a] = diskMaxEpoch[a],
         diskMaxRequested'[a] = diskMaxRequested[a], maxEpoch'[a] = maxEpoch[a],
         maxRequested'[a] = maxRequested[a], requested'[a] = requested[a],
         supportFrom'[a] = supportFrom[a], clock[a] <= clock'[a],
         CheckedOut(a)'.maxEpoch = CheckedOut(a).maxEpoch,
         \A t \in Stores : Requested(a, t)' = Requested(a, t),
         inProgress'[a].open => status[a] = "running",
         \A s, t \in Stores : HeartbeatsTo(s, t)' \subseteq HeartbeatsTo(s, t)
  PROVE  RequesterIsDurable' /\ KeysAreRequested' /\ RequestsGrow
<1>1. clock[a] \in Nat /\ clock'[a] \in Nat /\ diskMaxRequested[a] \in Nat /\ LivenessInterval \in Nat
  BY ConstantsAssumption DEF HandlerInv, TypeOK, Timestamps
<1>2. RequesterIsDurable!(a)'
  BY <1>1, RequesterFacts
<1>3. ASSUME NEW t \in Stores PROVE KeysAreRequested!(a, t)' /\ EpochBound(a, t) <= EpochBound(a, t)'
  <2>1. KeysAreRequested!(a, t) /\ EpochBound(a, t) \in Nat
    BY RequesterFacts
  <2>2. EpochBound(a, t)' = EpochBound(a, t)
    BY DEF EpochBound, Floor
  <2> QED
    BY <2>1, <2>2
<1>4. \A s, t \in Stores : \A m \in HeartbeatsTo(s, t)' : m \in HeartbeatsTo(s, t)
  OBVIOUS
<1> QED
  BY <1>1, <1>2, <1>3, <1>4, RequesterAt

\* The requester state of a store that is down: nobody is requested.
LEMMA StoppedRequester ==
  ASSUME HandlerInv, TypeOK', NEW a \in Stores, OnlyAt(a),
         status'[a] # "running", diskMaxEpoch'[a] = diskMaxEpoch[a],
         diskMaxRequested'[a] = diskMaxRequested[a],
         status'[a] # "down" => maxEpoch'[a] = diskMaxEpoch[a] /\ maxRequested'[a] = diskMaxRequested[a],
         requested'[a] = {}, \A t \in Stores : supportFrom'[a][t] = ZeroState,
         inProgress'[a] = NoUpdate,
         \A s, t \in Stores : HeartbeatsTo(s, t)' \subseteq HeartbeatsTo(s, t)
  PROVE  RequesterIsDurable' /\ KeysAreRequested' /\ RequestsGrow
<1>1. ~inProgress'[a].open
  BY DEF NoUpdate
<1>2. CheckedOut(a)'.maxEpoch = maxEpoch'[a] /\ \A t \in Stores : Requested(a, t)' = supportFrom'[a][t]
  BY <1>1 DEF CheckedOut, Requested
<1>3. maxEpoch'[a] \in Nat /\ diskMaxRequested[a] \in Nat
  BY DEF HandlerInv, TypeOK, Epochs, Timestamps
<1>4. RequesterIsDurable!(a)'
  BY <1>1, <1>2, <1>3
<1>5. ASSUME NEW t \in Stores PROVE KeysAreRequested!(a, t)' /\ EpochBound(a, t) <= EpochBound(a, t)'
  <2>1. EpochBound(a, t)' = diskMaxEpoch[a]
    BY DEF EpochBound
  <2> QED
    BY <1>2, <2>1, RequesterFacts
<1>6. \A s, t \in Stores : \A m \in HeartbeatsTo(s, t)' : m \in HeartbeatsTo(s, t)
  OBVIOUS
<1> QED
  BY <1>3, <1>4, <1>5, <1>6, RequesterAt

\* A step that changes nothing of the supporter state, except to drop a batch.
LEMMA SameProvider ==
  ASSUME TypeOK, NEW a \in Stores, OnlyAt(a),
         diskSupportFor'[a] = diskSupportFor[a], supportFor'[a] = supportFor[a],
         inProgress'[a] = inProgress[a] \/ inProgress'[a] = NoUpdate,
         \A s, t \in Stores : ResponsesTo(s, t)' \subseteq ResponsesTo(s, t)
  PROVE  ProvidedFromHeartbeats
<1>1. ASSUME NEW s \in Stores
      PROVE  ProvidedStates(a, s)' \subseteq ProvidedStates(a, s) /\ Answers(a, s)' \subseteq Answers(a, s)
  <2>1. CASE inProgress'[a] = NoUpdate
    <3>1. Provided(a, s)' = supportFor'[a][s] /\ PendingTo(s, a)' = {}
      BY <2>1 DEF NoUpdate, Provided, CheckedOut, PendingTo
    <3> QED
      BY <3>1 DEF ProvidedStates, Answers
  <2>2. CASE inProgress'[a] = inProgress[a]
    <3>1. Provided(a, s)' = Provided(a, s) /\ PendingTo(s, a)' = PendingTo(s, a)
      BY <2>2 DEF Provided, CheckedOut, PendingTo
    <3> QED
      BY <3>1 DEF ProvidedStates, Answers
  <2> QED
    BY <2>1, <2>2
<1>2. \A s \in Stores : /\ \A x \in ProvidedStates(a, s)' : x \in ProvidedStates(a, s)
                        /\ \A x \in Answers(a, s)' : \E y \in Answers(a, s) : x.epoch = y.epoch /\ x.expiration = y.expiration
  BY <1>1
<1> QED
  BY <1>2, ProviderAt

LEMMA HandlerInvKept ==
  ASSUME HandlerInv, TypeOK', RequesterIsDurable', KeysAreRequested', RequestsGrow, ProvidedFromHeartbeats
  PROVE  HandlerInv'
BY OrderKept DEF HandlerInv

LEMMA HandlerSupportFrom ==
  ASSUME HandlerInv, TypeOK', NEW a \in Stores, NEW b \in Stores, SupportFrom(a, b) \/ SupportFromUnknown(a, b)
  PROVE  HandlerInv'
<1>1. TypeOK
  BY DEF HandlerInv
<1>2. /\ UNCHANGED <<status, diskMaxEpoch, diskMaxRequested, diskMaxWithdrawn, diskSupportFor, maxEpoch, maxRequested,
                     requested, supportFrom, supportFor, inProgress, clock, network, maxWithdrawn, idleTS>>
      /\ \A x \in Stores \ {a} : answer'[x] = answer[x] /\ recentlyQueried'[x] = recentlyQueried[x]
  BY <1>1 DEF SupportFrom, SupportFromUnknown, disk, supporterVars, TypeOK
<1>3. OnlyAt(a)
  BY <1>2 DEF OnlyAt
<1>4. CheckedOut(a)' = CheckedOut(a) /\ \A t \in Stores : Requested(a, t)' = Requested(a, t)
  BY <1>2, ViewFrame DEF Requested
<1>5. clock[a] <= clock'[a] /\ (inProgress'[a].open => status[a] = "running") /\ network' \subseteq network
  BY <1>2, RequesterFacts
<1>6. RequesterIsDurable' /\ KeysAreRequested' /\ RequestsGrow
  BY <1>2, <1>3, <1>4, <1>5, LostMessages, SameRequester
<1>7. ProvidedFromHeartbeats
  BY <1>1, <1>2, <1>3, <1>5, LostMessages, SameProvider
<1> QED
  BY <1>6, <1>7, HandlerInvKept

\* A crash or a panic, also one in the middle of a withdrawal.
LEMMA HandlerLoseMemory ==
  ASSUME HandlerInv, TypeOK', NEW a \in Stores, LoseMemory(a), network' \subseteq network,
         UNCHANGED <<diskMaxEpoch, diskMaxRequested, answer>>,
         \A x \in Stores \ {a} : /\ clock'[x] = clock[x] /\ diskMaxWithdrawn'[x] = diskMaxWithdrawn[x]
                                 /\ diskSupportFor'[x] = diskSupportFor[x],
         \A s \in Stores : \/ diskSupportFor'[a][s] = diskSupportFor[a][s]
                           \/ /\ supportFor[a][s].expiration # 0
                              /\ diskSupportFor'[a][s] = [epoch |-> supportFor[a][s].epoch + 1, expiration |-> 0]
  PROVE  HandlerInv'
<1>1. TypeOK
  BY DEF HandlerInv
<1>2. OnlyAt(a)
  BY <1>1 DEF LoseMemory, OnlyAt, TypeOK
<1>3. /\ status'[a] = "down" /\ requested'[a] = {} /\ inProgress'[a] = NoUpdate /\ supportFor' = supportFor
      /\ \A t \in Stores : supportFrom'[a][t] = ZeroState
  BY <1>1 DEF LoseMemory, TypeOK
<1>4. RequesterIsDurable' /\ KeysAreRequested' /\ RequestsGrow
  BY <1>2, <1>3, LostMessages, StoppedRequester
<1>5. ASSUME NEW s \in Stores
      PROVE  /\ \A x \in ProvidedStates(a, s)' :
                  \/ x \in ProvidedStates(a, s)
                  \/ \E y \in ProvidedStates(a, s) :
                       y.expiration # 0 /\ x.epoch = y.epoch + 1 /\ x.expiration = 0
             /\ \A x \in Answers(a, s)' : \E y \in Answers(a, s) : x.epoch = y.epoch /\ x.expiration = y.expiration
  <2>1. Provided(a, s)' = supportFor'[a][s] /\ PendingTo(s, a)' = {}
    BY <1>3 DEF NoUpdate, Provided, CheckedOut, PendingTo
  <2>2. Answers(a, s)' \subseteq Answers(a, s)
    BY <2>1, LostMessages DEF Answers
  <2>3. ProvidedStates(a, s)' = {diskSupportFor'[a][s], supportFor[a][s]}
    BY <1>3, <2>1 DEF ProvidedStates
  <2>4. diskSupportFor[a][s] \in ProvidedStates(a, s) /\ supportFor[a][s] \in ProvidedStates(a, s)
    BY DEF ProvidedStates
  <2>5. ASSUME NEW x \in ProvidedStates(a, s)'
        PROVE  \/ x \in ProvidedStates(a, s)
               \/ \E y \in ProvidedStates(a, s) :
                    y.expiration # 0 /\ x.epoch = y.epoch + 1 /\ x.expiration = 0
    <3>1. x = diskSupportFor'[a][s] \/ x = supportFor[a][s]
      BY <2>3
    <3>2. \/ x = diskSupportFor[a][s] \/ x = supportFor[a][s]
          \/ supportFor[a][s].expiration # 0 /\ x = [epoch |-> supportFor[a][s].epoch + 1, expiration |-> 0]
      BY <3>1
    <3>3. CASE x = diskSupportFor[a][s] \/ x = supportFor[a][s]
      BY <2>4, <3>3
    <3>4. CASE supportFor[a][s].expiration # 0 /\ x = [epoch |-> supportFor[a][s].epoch + 1, expiration |-> 0]
      <4>1. x.epoch = supportFor[a][s].epoch + 1 /\ x.expiration = 0
        BY <3>4
      <4> QED
        BY <2>4, <3>4, <4>1
    <3> QED
      BY <3>2, <3>3, <3>4
  <2> QED
    BY <2>2, <2>5
<1>6. ProvidedFromHeartbeats
  BY <1>1, <1>2, <1>5, LostMessages, ProviderAt
<1> QED
  BY <1>4, <1>6, HandlerInvKept

LEMMA HandlerCrash ==
  ASSUME HandlerInv, TypeOK', NEW a \in Stores, Crash(a) \/ PanicOnCheckOut(a)
  PROVE  HandlerInv'
BY HandlerLoseMemory DEF Crash, PanicOnCheckOut, disk

LEMMA HandlerPanic ==
  ASSUME HandlerInv, TypeOK', NEW a \in Stores, NEW m \in network, PanicOnHeartbeatResp(a, m)
  PROVE  HandlerInv'
<1>1. TypeOK
  BY DEF HandlerInv
<1>2. /\ LoseMemory(a) /\ UNCHANGED <<diskMaxEpoch, diskMaxRequested, diskMaxWithdrawn, diskSupportFor, answer>>
      /\ \A x \in Stores \ {a} : clock'[x] = clock[x]
      /\ network' \subseteq network
  BY <1>1, ReceiveClock DEF PanicOnHeartbeatResp, disk
<1> QED
  BY <1>2, HandlerLoseMemory

\* What the writes of a withdrawal leave on disk.
LEMMA WithdrawalOnDisk ==
  ASSUME TypeOK, NEW a \in Stores, NEW now, NEW W \in SUBSET Expired(a, now), WriteWithdrawal(a, now, W)
  PROVE  /\ UNCHANGED <<diskMaxEpoch, diskMaxRequested>>
         /\ \A x \in Stores \ {a} : /\ diskMaxWithdrawn'[x] = diskMaxWithdrawn[x]
                                    /\ diskSupportFor'[x] = diskSupportFor[x]
         /\ \A s \in Stores : \/ diskSupportFor'[a][s] = diskSupportFor[a][s]
                              \/ /\ supportFor[a][s].expiration # 0
                                 /\ diskSupportFor'[a][s] = [epoch |-> supportFor[a][s].epoch + 1, expiration |-> 0]
BY DEF WriteWithdrawal, Withdraw, Expired, TypeOK

LEMMA HandlerCrashInWithdrawSupport ==
  ASSUME HandlerInv, TypeOK', NEW a \in Stores, CrashInWithdrawSupport(a)
  PROVE  HandlerInv'
<1>1. TypeOK
  BY DEF HandlerInv
<1>2. PICK now \in Now(a) : /\ \E W \in SUBSET Expired(a, now) : WriteWithdrawal(a, now, W)
                            /\ clock' = [clock EXCEPT ![a] = now]
  BY DEF CrashInWithdrawSupport
<1>3. PICK W \in SUBSET Expired(a, now) : WriteWithdrawal(a, now, W)
  BY <1>2
<1>4. /\ LoseMemory(a) /\ UNCHANGED <<network, answer>>
      /\ \A x \in Stores \ {a} : clock'[x] = clock[x]
  BY <1>1, <1>2, NowLater DEF CrashInWithdrawSupport
<1>5. /\ UNCHANGED <<diskMaxEpoch, diskMaxRequested>>
      /\ \A x \in Stores \ {a} : /\ diskMaxWithdrawn'[x] = diskMaxWithdrawn[x]
                                 /\ diskSupportFor'[x] = diskSupportFor[x]
      /\ \A s \in Stores : \/ diskSupportFor'[a][s] = diskSupportFor[a][s]
                           \/ /\ supportFor[a][s].expiration # 0
                              /\ diskSupportFor'[a][s] = [epoch |-> supportFor[a][s].epoch + 1, expiration |-> 0]
  BY <1>1, <1>3, WithdrawalOnDisk
<1> QED
  BY <1>4, <1>5, HandlerLoseMemory

\* A withdrawal, written as a whole, in part or not at all.
LEMMA HandlerWithdrawSupport ==
  ASSUME HandlerInv, TypeOK', NEW a \in Stores, WithdrawSupport(a) \/ WithdrawSupportWriteError(a)
  PROVE  HandlerInv'
<1>1. TypeOK
  BY DEF HandlerInv
<1>2. PICK now \in Now(a) :
        /\ CanWithdraw(a, now)
        /\ UNCHANGED disk \/ \E W \in SUBSET Expired(a, now) : WriteWithdrawal(a, now, W)
        /\ CheckInWithdrawal(a, now)
  BY DEF WithdrawSupport, WithdrawSupportWriteError
<1>3. /\ UNCHANGED <<diskMaxEpoch, diskMaxRequested>>
      /\ \A x \in Stores \ {a} : /\ diskMaxWithdrawn'[x] = diskMaxWithdrawn[x]
                                 /\ diskSupportFor'[x] = diskSupportFor[x]
      /\ \A s \in Stores : \/ diskSupportFor'[a][s] = diskSupportFor[a][s]
                           \/ /\ supportFor[a][s].expiration # 0
                              /\ diskSupportFor'[a][s] = [epoch |-> supportFor[a][s].epoch + 1, expiration |-> 0]
  <2>1. CASE UNCHANGED disk
    BY <2>1 DEF disk
  <2>2. CASE \E W \in SUBSET Expired(a, now) : WriteWithdrawal(a, now, W)
    BY <1>1, <2>2, WithdrawalOnDisk
  <2> QED
    BY <1>2, <2>1, <2>2
<1>4. /\ UNCHANGED <<status, maxEpoch, maxRequested, requested, supportFrom, recentlyQueried, idleTS,
                     inProgress, network, answer>>
      /\ \A x \in Stores \ {a} : maxWithdrawn'[x] = maxWithdrawn[x] /\ supportFor'[x] = supportFor[x]
      /\ \A s \in Stores : \/ supportFor'[a][s] = supportFor[a][s]
                           \/ /\ supportFor[a][s].expiration # 0
                              /\ supportFor'[a][s] = [epoch |-> supportFor[a][s].epoch + 1, expiration |-> 0]
      /\ clock' = [clock EXCEPT ![a] = now]
  BY <1>1, <1>2 DEF CheckInWithdrawal, requesterVars, Withdraw, Expired, TypeOK
<1>5. clock[a] <= clock'[a] /\ \A x \in Stores \ {a} : clock'[x] = clock[x]
  <2>1. now \in Nat /\ clock[a] < now /\ clock'[a] = now /\ \A x \in Stores \ {a} : clock'[x] = clock[x]
    BY <1>1, <1>4, NowLater
  <2>2. clock[a] \in Nat
    BY RequesterFacts
  <2> QED
    BY <2>1, <2>2
<1>6. OnlyAt(a)
  BY <1>3, <1>4, <1>5 DEF OnlyAt
<1>7. ~inProgress[a].open
  BY <1>2 DEF CanWithdraw, LoopReady
<1>8. CheckedOut(a)'.maxEpoch = CheckedOut(a).maxEpoch /\ \A t \in Stores : Requested(a, t)' = Requested(a, t)
  BY <1>4, <1>7 DEF CheckedOut, Requested
<1>9. RequesterIsDurable' /\ KeysAreRequested' /\ RequestsGrow
  BY <1>3, <1>4, <1>5, <1>6, <1>7, <1>8, LostMessages, SameRequester
<1>10. ASSUME NEW s \in Stores
       PROVE  /\ \A x \in ProvidedStates(a, s)' :
                   \/ x \in ProvidedStates(a, s)
                   \/ \E y \in ProvidedStates(a, s) :
                        y.expiration # 0 /\ x.epoch = y.epoch + 1 /\ x.expiration = 0
              /\ \A x \in Answers(a, s)' : \E y \in Answers(a, s) : x.epoch = y.epoch /\ x.expiration = y.expiration
  <2>1. Provided(a, s)' = supportFor'[a][s] /\ PendingTo(s, a)' = PendingTo(s, a)
    BY <1>4, <1>7 DEF Provided, CheckedOut, PendingTo
  <2>2. Answers(a, s)' = Answers(a, s)
    BY <1>4, <2>1 DEF Answers, ResponsesTo
  <2>3. ProvidedStates(a, s)' = {diskSupportFor'[a][s], supportFor'[a][s]}
    BY <2>1 DEF ProvidedStates
  <2>4. diskSupportFor[a][s] \in ProvidedStates(a, s) /\ supportFor[a][s] \in ProvidedStates(a, s)
    BY DEF ProvidedStates
  <2>5. ASSUME NEW x \in ProvidedStates(a, s)'
        PROVE  \/ x \in ProvidedStates(a, s)
               \/ \E y \in ProvidedStates(a, s) :
                    y.expiration # 0 /\ x.epoch = y.epoch + 1 /\ x.expiration = 0
    <3>1. x = diskSupportFor'[a][s] \/ x = supportFor'[a][s]
      BY <2>3
    <3>2. \/ x = diskSupportFor[a][s] \/ x = supportFor[a][s]
          \/ supportFor[a][s].expiration # 0 /\ x = [epoch |-> supportFor[a][s].epoch + 1, expiration |-> 0]
      BY <1>3, <1>4, <3>1
    <3>3. CASE x = diskSupportFor[a][s] \/ x = supportFor[a][s]
      BY <2>4, <3>3
    <3>4. CASE supportFor[a][s].expiration # 0 /\ x = [epoch |-> supportFor[a][s].epoch + 1, expiration |-> 0]
      <4>1. x.epoch = supportFor[a][s].epoch + 1 /\ x.expiration = 0
        BY <3>4
      <4> QED
        BY <2>4, <3>4, <4>1
    <3> QED
      BY <3>2, <3>3, <3>4
  <2> QED
    BY <2>2, <2>5
<1>11. ProvidedFromHeartbeats
  BY <1>1, <1>4, <1>6, <1>10, LostMessages, ProviderAt
<1> QED
  BY <1>9, <1>11, HandlerInvKept

LEMMA HandlerDropMessage ==
  ASSUME HandlerInv, TypeOK', NEW m \in network, DropMessage(m)
  PROVE  HandlerInv'
<1> USE DEF disk, requesterVars, supporterVars
<1> DEFINE a == m.from
<1>1. TypeOK /\ a \in Stores
  BY MessageTypes DEF HandlerInv, MessagesTyped
<1>2. /\ UNCHANGED <<status, diskMaxEpoch, diskMaxRequested, diskSupportFor, maxEpoch, maxRequested,
                     requested, supportFrom, supportFor, inProgress, clock>>
      /\ OnlyAt(a) /\ network' \subseteq network
  BY DEF DropMessage, OnlyAt
<1> HIDE DEF a
<1>3. CheckedOut(a)' = CheckedOut(a) /\ \A t \in Stores : Requested(a, t)' = Requested(a, t)
  BY <1>1, <1>2, ViewFrame DEF Requested
<1>4. clock[a] <= clock'[a] /\ (inProgress'[a].open => status[a] = "running")
  BY <1>1, <1>2, RequesterFacts
<1>5. RequesterIsDurable' /\ KeysAreRequested' /\ RequestsGrow
  BY <1>1, <1>2, <1>3, <1>4, LostMessages, SameRequester
<1>6. ProvidedFromHeartbeats
  BY <1>1, <1>2, LostMessages, SameProvider
<1> QED
  BY <1>5, <1>6, HandlerInvKept

LEMMA HandlerBatchWriteError ==
  ASSUME HandlerInv, TypeOK', NEW a \in Stores, BatchWriteError(a)
  PROVE  HandlerInv'
<1> USE DEF disk, requesterVars, supporterVars
<1>1. TypeOK
  BY DEF HandlerInv
<1>2. OnlyAt(a) /\ inProgress'[a] = NoUpdate
  BY <1>1 DEF BatchWriteError, Reset, OnlyAt, TypeOK
<1>3. /\ UNCHANGED <<status, diskMaxEpoch, diskMaxRequested, diskSupportFor, maxEpoch, maxRequested,
                     requested, supportFrom, supportFor, clock, network>>
      /\ ~inProgress'[a].open
  BY <1>2 DEF BatchWriteError, NoUpdate
<1>4. CheckedOut(a)'.maxEpoch = maxEpoch[a] /\ \A t \in Stores : Requested(a, t)' = supportFrom[a][t]
  BY <1>3 DEF CheckedOut, Requested
<1>5. RequesterIsDurable!(a)'
  BY <1>3, <1>4, RequesterFacts
<1>6. ASSUME NEW t \in Stores PROVE KeysAreRequested!(a, t)' /\ EpochBound(a, t) <= EpochBound(a, t)'
  <2>1. EpochBound(a, t)' = EpochBound(a, t)
    BY <1>3 DEF EpochBound, Floor
  <2> QED
    BY <1>3, <1>4, <2>1, RequesterFacts
<1>7. /\ \A s, t \in Stores : \A m \in HeartbeatsTo(s, t)' : m \in HeartbeatsTo(s, t)
      /\ diskMaxRequested[a] <= diskMaxRequested'[a]
  BY <1>3, LostMessages, RequesterFacts
<1>8. RequesterIsDurable' /\ KeysAreRequested' /\ RequestsGrow
  BY <1>2, <1>5, <1>6, <1>7, RequesterAt
<1>9. ProvidedFromHeartbeats
  BY <1>1, <1>2, <1>3, LostMessages, SameProvider
<1> QED
  BY <1>8, <1>9, HandlerInvKept

LEMMA HandlerStart ==
  ASSUME HandlerInv, TypeOK', NEW a \in Stores, Start(a)
  PROVE  HandlerInv'
<1> USE DEF disk
<1>1. TypeOK
  BY DEF HandlerInv
<1>2. OnlyAt(a)
  <2>1. PICK physical : clock' = [clock EXCEPT ![a] = StartClock(a, physical)]
    BY DEF Start
  <2> QED
    BY <1>1, <2>1 DEF Start, OnlyAt, TypeOK
<1>3. /\ status[a] = "down" /\ status'[a] = "starting"
      /\ UNCHANGED <<diskMaxEpoch, diskMaxRequested, diskSupportFor, requested, supportFrom, inProgress, network>>
      /\ maxEpoch'[a] = diskMaxEpoch[a] /\ maxRequested'[a] = diskMaxRequested[a]
      /\ supportFor'[a] = diskSupportFor[a]
  BY <1>1 DEF Start, TypeOK
<1>4. requested[a] = {} /\ inProgress[a] = NoUpdate /\ \A t \in Stores : supportFrom[a][t] = ZeroState
  <2>1. requested[a] = {} /\ ~inProgress[a].open /\ \A t \in Stores : supportFrom[a][t] = ZeroState
    BY <1>3, RequesterFacts
  <2> QED
    BY <1>1, <2>1 DEF TypeOK, Update
<1>5. RequesterIsDurable' /\ KeysAreRequested' /\ RequestsGrow
  BY <1>2, <1>3, <1>4, LostMessages, StoppedRequester
<1>6. ASSUME NEW s \in Stores
      PROVE  /\ \A x \in ProvidedStates(a, s)' : x \in ProvidedStates(a, s)
             /\ \A x \in Answers(a, s)' : \E y \in Answers(a, s) : x.epoch = y.epoch /\ x.expiration = y.expiration
  <2>1. Provided(a, s)' = supportFor'[a][s] /\ PendingTo(s, a)' = PendingTo(s, a)
    BY <1>3, <1>4 DEF NoUpdate, Provided, CheckedOut, PendingTo
  <2>2. Answers(a, s)' \subseteq Answers(a, s)
    BY <1>3, <2>1, LostMessages DEF Answers
  <2> QED
    BY <1>3, <2>1, <2>2 DEF ProvidedStates
<1>7. ProvidedFromHeartbeats
  BY <1>1, <1>2, <1>3, <1>6, LostMessages, ProviderAt
<1> QED
  BY <1>5, <1>7, HandlerInvKept

\* SleepUntil and the increment of MaxEpoch put a restarted store above all it requested.
LEMMA HandlerFinishStart ==
  ASSUME HandlerInv, TypeOK', NEW a \in Stores, FinishStart(a)
  PROVE  HandlerInv'
<1>1. TypeOK
  BY DEF HandlerInv
<1>2. PICK now \in Now(a) : /\ maxRequested[a] < now
                            /\ clock' = [clock EXCEPT ![a] = now]
                            /\ idleTS' = [idleTS EXCEPT ![a] = now]
  BY DEF FinishStart, SleepUntilDone
<1>3. now \in Nat /\ clock'[a] = now /\ \A x \in Stores \ {a} : clock'[x] = clock[x]
  BY <1>1, <1>2, NowLater
<1>4. OnlyAt(a)
  BY <1>1, <1>2, <1>3 DEF FinishStart, OnlyAt, TypeOK
<1>5. /\ status[a] = "starting" /\ status'[a] = "running"
      /\ UNCHANGED <<diskMaxRequested, maxRequested, diskSupportFor, requested, supportFrom, supportFor,
                     inProgress, network>>
      /\ maxEpoch'[a] = maxEpoch[a] + 1 /\ diskMaxEpoch'[a] = maxEpoch[a] + 1
  BY <1>1 DEF FinishStart, TypeOK
<1>6. /\ requested[a] = {} /\ ~inProgress[a].open /\ \A t \in Stores : supportFrom[a][t] = ZeroState
      /\ maxEpoch[a] = diskMaxEpoch[a] /\ maxRequested[a] = diskMaxRequested[a]
      /\ diskMaxEpoch[a] \in Nat /\ diskMaxRequested[a] \in Nat
  BY <1>5, RequesterFacts
<1>7. CheckedOut(a)'.maxEpoch = maxEpoch'[a] /\ \A t \in Stores : Requested(a, t)' = supportFrom'[a][t]
  BY <1>5, <1>6 DEF CheckedOut, Requested
<1>8. RequesterIsDurable!(a)'
  BY <1>2, <1>3, <1>5, <1>6, <1>7, ConstantsAssumption
<1>9. ASSUME NEW t \in Stores PROVE KeysAreRequested!(a, t)' /\ EpochBound(a, t) <= EpochBound(a, t)'
  <2>1. EpochBound(a, t) = diskMaxEpoch[a] /\ EpochBound(a, t)' = diskMaxEpoch[a] + 1
    BY <1>5, <1>6 DEF EpochBound, Floor
  <2>2. KeysAreRequested!(a, t)'
    BY <1>5, <1>6, <1>7
  <2> QED
    BY <1>6, <2>1, <2>2
<1>10. /\ \A s, t \in Stores : \A m \in HeartbeatsTo(s, t)' : m \in HeartbeatsTo(s, t)
       /\ diskMaxRequested[a] <= diskMaxRequested'[a]
  BY <1>5, <1>6, LostMessages
<1>11. RequesterIsDurable' /\ KeysAreRequested' /\ RequestsGrow
  BY <1>4, <1>8, <1>9, <1>10, RequesterAt
<1>12. ProvidedFromHeartbeats
  BY <1>1, <1>4, <1>5, LostMessages, SameProvider
<1> QED
  BY <1>11, <1>12, HandlerInvKept

\* The stores that a heartbeat tick adds are asked for support of the current epoch.
LEMMA HandlerAddStores ==
  ASSUME HandlerInv, TypeOK', NEW a \in Stores, LoopReady(a), AddStores(a),
         UNCHANGED <<status, diskMaxEpoch, diskMaxWithdrawn, diskSupportFor, maxEpoch, supportFor,
                     maxWithdrawn, idleTS, inProgress, answer>>,
         \A x \in Stores \ {a} : /\ clock'[x] = clock[x]
                                 /\ diskMaxRequested'[x] = diskMaxRequested[x] /\ maxRequested'[x] = maxRequested[x],
         maxRequested'[a] = diskMaxRequested'[a],
         diskMaxRequested[a] <= diskMaxRequested'[a],
         diskMaxRequested'[a] <= clock'[a] + LivenessInterval,
         \A m \in network' \ network :
           /\ m.type = "MsgHeartbeat" /\ m.from = a
           /\ m.to \in requested'[a]
           /\ m.epoch = supportFrom'[a][m.to].epoch
           /\ diskMaxRequested[a] < m.expiration /\ m.expiration = diskMaxRequested'[a]
  PROVE  HandlerInv'
<1>1. TypeOK
  BY DEF HandlerInv
<1> DEFINE added == storesToAdd[a] \ requested[a]
<1>2. /\ requested'[a] = requested[a] \cup added
      /\ \A t \in Stores : supportFrom'[a][t] =
           IF t \in added THEN [epoch |-> maxEpoch[a], expiration |-> 0] ELSE supportFrom[a][t]
  BY <1>1 DEF AddStores, NewSupport, TypeOK
<1>3. OnlyAt(a)
  BY <1>1 DEF AddStores, OnlyAt, TypeOK
<1>4. \A t \in Stores : t \in added => t \notin requested[a]
  OBVIOUS
<1> HIDE DEF added
<1>5. status[a] = "running" /\ ~inProgress[a].open
  BY DEF LoopReady
<1>6. /\ CheckedOut(a)'.maxEpoch = maxEpoch[a]
      /\ \A t \in Stores : Requested(a, t)' = supportFrom'[a][t]
  BY <1>5 DEF CheckedOut, Requested
<1>7. RequesterIsDurable!(a)'
  BY <1>5, <1>6, RequesterFacts
<1>8. ASSUME NEW t \in Stores
      PROVE  /\ KeysAreRequested!(a, t)' /\ EpochBound(a, t) <= EpochBound(a, t)'
             /\ t \in requested'[a] => 0 < supportFrom'[a][t].epoch /\ supportFrom'[a][t].epoch = EpochBound(a, t)'
  <2>1. EpochBound(a, t)' = EpochBound(a, t) /\ EpochBound(a, t) \in Nat
    <3>1. Floor(a, t)' = Floor(a, t)
      BY <1>2, <1>4 DEF Floor
    <3> QED
      BY <1>5, <3>1, RequesterFacts DEF EpochBound
  <2>2. KeysAreRequested!(a, t) /\ maxEpoch[a] \in Nat /\ supportFrom[a][t].epoch \in Nat /\ 0 < maxEpoch[a]
    BY <1>5, RequesterFacts
  <2>3. KeysAreRequested!(a, t)'
    <3>1. CASE t \in added
      BY <1>2, <1>6, <2>2, <3>1
    <3>2. CASE t \notin added
      BY <1>2, <1>6, <2>2, <3>2
    <3> QED
      BY <3>1, <3>2
  <2>4. t \in requested'[a] => 0 < supportFrom'[a][t].epoch /\ supportFrom'[a][t].epoch = EpochBound(a, t)'
    BY <1>5, <2>3 DEF EpochBound, Floor
  <2> QED
    BY <2>1, <2>3, <2>4
<1>9. ASSUME NEW s \in Stores, NEW t \in Stores, NEW m \in HeartbeatsTo(s, t)'
      PROVE  \/ m \in HeartbeatsTo(s, t)
             \/ /\ s = a
                /\ 0 < m.epoch /\ m.epoch = EpochBound(a, t)'
                /\ diskMaxRequested[a] < m.expiration /\ m.expiration = diskMaxRequested'[a]
  <2>1. CASE m \in network
    BY <2>1 DEF HeartbeatsTo
  <2>2. CASE m \notin network
    <3>1. m \in network' \ network /\ m.from = s /\ m.to = t
      BY <2>2 DEF HeartbeatsTo
    <3> QED
      BY <1>8, <3>1
  <2> QED
    BY <2>1, <2>2
<1>10. RequesterIsDurable' /\ KeysAreRequested' /\ RequestsGrow
  BY <1>3, <1>7, <1>8, <1>9, RequesterAt
<1>11. \A s, t \in Stores : ResponsesTo(s, t)' \subseteq ResponsesTo(s, t)
  BY DEF ResponsesTo
<1>12. ProvidedFromHeartbeats
  BY <1>1, <1>3, <1>11, SameProvider
<1> QED
  BY <1>10, <1>12, HandlerInvKept

LEMMA HandlerHeartbeatTick ==
  ASSUME HandlerInv, TypeOK', NEW a \in Stores,
         HeartbeatTickDisabled(a) \/ SendHeartbeats(a) \/ SendHeartbeatsWriteError(a)
  PROVE  HandlerInv'
<1> USE DEF disk, supporterVars
<1>1. TypeOK
  BY DEF HandlerInv
<1>2. /\ LoopReady(a) /\ AddStores(a)
      /\ UNCHANGED <<status, diskMaxEpoch, diskMaxWithdrawn, diskSupportFor, maxEpoch, supportFor,
                     maxWithdrawn, idleTS, inProgress, answer>>
  BY DEF HeartbeatTickDisabled, SendHeartbeats, SendHeartbeatsWriteError
<1>3. /\ maxRequested[a] = diskMaxRequested[a] /\ diskMaxRequested[a] <= clock[a] + LivenessInterval
      /\ clock[a] \in Nat /\ diskMaxRequested[a] \in Nat /\ LivenessInterval \in Nat
  BY <1>2, RequesterFacts, ConstantsAssumption DEF LoopReady
<1>4. CASE HeartbeatTickDisabled(a)
  BY <1>2, <1>3, <1>4, HandlerAddStores DEF HeartbeatTickDisabled
<1>5. CASE SendHeartbeatsWriteError(a)
  <2>1. PICK now \in Now(a) : clock' = [clock EXCEPT ![a] = now]
    BY <1>5 DEF SendHeartbeatsWriteError
  <2>2. now \in Nat /\ clock[a] < now /\ clock'[a] = now /\ \A x \in Stores \ {a} : clock'[x] = clock[x]
    BY <1>1, <2>1, NowLater
  <2>3. UNCHANGED <<diskMaxRequested, maxRequested, network>>
    BY <1>5 DEF SendHeartbeatsWriteError
  <2>4. /\ diskMaxRequested'[a] <= clock'[a] + LivenessInterval
        /\ diskMaxRequested[a] <= diskMaxRequested'[a] /\ maxRequested'[a] = diskMaxRequested'[a]
    BY <1>3, <2>2, <2>3
  <2> QED
    BY <1>2, <2>2, <2>3, <2>4, HandlerAddStores
<1>6. CASE SendHeartbeats(a)
  <2> DEFINE new(now) == Forward(maxRequested[a], now + LivenessInterval)
  <2>1. PICK now \in Now(a) :
          /\ clock' = [clock EXCEPT ![a] = now]
          /\ maxRequested' = [maxRequested EXCEPT ![a] = new(now)]
          /\ diskMaxRequested' = [diskMaxRequested EXCEPT ![a] = new(now)]
          /\ network' = network \cup
               {[type |-> "MsgHeartbeat", from |-> a, to |-> t, now |-> now,
                 epoch |-> supportFrom'[a][t].epoch, expiration |-> new(now)] : t \in requested'[a]}
    BY <1>6 DEF SendHeartbeats
  <2>2. now \in Nat /\ clock[a] < now /\ clock'[a] = now /\ \A x \in Stores \ {a} : clock'[x] = clock[x]
    BY <1>1, <2>1, NowLater
  <2>3. new(now) = now + LivenessInterval /\ diskMaxRequested[a] < new(now)
    BY <1>3, <2>2 DEF Forward
  <2> HIDE DEF new
  <2>4. /\ \A x \in Stores \ {a} : diskMaxRequested'[x] = diskMaxRequested[x] /\ maxRequested'[x] = maxRequested[x]
        /\ diskMaxRequested'[a] = new(now) /\ maxRequested'[a] = new(now)
    BY <1>1, <2>1 DEF TypeOK
  <2>5. /\ diskMaxRequested'[a] <= clock'[a] + LivenessInterval
        /\ diskMaxRequested[a] <= diskMaxRequested'[a] /\ maxRequested'[a] = diskMaxRequested'[a]
    BY <1>3, <2>2, <2>3, <2>4
  <2>6. \A m \in network' \ network :
           /\ m.type = "MsgHeartbeat" /\ m.from = a
           /\ m.to \in requested'[a]
           /\ m.epoch = supportFrom'[a][m.to].epoch
           /\ diskMaxRequested[a] < m.expiration /\ m.expiration = diskMaxRequested'[a]
    BY <2>1, <2>3, <2>4
  <2> QED
    BY <1>2, <2>2, <2>4, <2>5, <2>6, HandlerAddStores
<1> QED
  BY <1>4, <1>5, <1>6

LEMMA HandlerRemoveIdleStores ==
  ASSUME HandlerInv, TypeOK', NEW a \in Stores, RemoveIdleStores(a)
  PROVE  HandlerInv'
<1> USE DEF disk, supporterVars
<1>1. TypeOK
  BY DEF HandlerInv
<1>2. PICK now \in Now(a) : clock' = [clock EXCEPT ![a] = now] /\ idleTS' = [idleTS EXCEPT ![a] = now]
  BY DEF RemoveIdleStores
<1>3. now \in Nat /\ clock[a] < now /\ clock'[a] = now /\ \A x \in Stores \ {a} : clock'[x] = clock[x]
  BY <1>1, <1>2, NowLater
<1>4. OnlyAt(a)
  BY <1>1, <1>2, <1>3 DEF RemoveIdleStores, OnlyAt, TypeOK
<1>5. /\ UNCHANGED <<status, diskMaxEpoch, diskMaxRequested, diskSupportFor, maxEpoch, maxRequested, supportFor,
                     inProgress, network>>
      /\ status[a] = "running" /\ ~inProgress[a].open
      /\ requested'[a] = requested[a] \cap recentlyQueried[a]
      /\ \A t \in Stores : supportFrom'[a][t] = IF t \in recentlyQueried[a] THEN supportFrom[a][t] ELSE ZeroState
  BY <1>1 DEF RemoveIdleStores, LoopReady, TypeOK
<1>6. CheckedOut(a)'.maxEpoch = maxEpoch[a] /\ \A t \in Stores : Requested(a, t)' = supportFrom'[a][t]
  BY <1>5 DEF CheckedOut, Requested
<1>7. RequesterIsDurable!(a)'
  <2>1. RequesterIsDurable!(a) /\ clock[a] \in Nat /\ diskMaxRequested[a] \in Nat /\ LivenessInterval \in Nat
        /\ maxEpoch[a] \in Nat
    BY RequesterFacts, ConstantsAssumption
  <2> QED
    BY <1>3, <1>5, <1>6, <2>1
<1>8. ASSUME NEW t \in Stores PROVE KeysAreRequested!(a, t)' /\ EpochBound(a, t) <= EpochBound(a, t)'
  <2>1. KeysAreRequested!(a, t) /\ maxEpoch[a] \in Nat /\ supportFrom[a][t].epoch \in Nat
    BY RequesterFacts
  <2>2. KeysAreRequested!(a, t)'
    BY <1>5, <1>6, <2>1
  <2>3. Floor(a, t) <= Floor(a, t)'
    BY <1>5, <2>1 DEF Floor
  <2> QED
    BY <1>5, <2>2, <2>3 DEF EpochBound
<1>9. /\ \A s, t \in Stores : \A m \in HeartbeatsTo(s, t)' : m \in HeartbeatsTo(s, t)
      /\ diskMaxRequested[a] <= diskMaxRequested'[a]
  BY <1>5, LostMessages, RequesterFacts
<1>10. RequesterIsDurable' /\ KeysAreRequested' /\ RequestsGrow
  BY <1>4, <1>7, <1>8, <1>9, RequesterAt
<1>11. ProvidedFromHeartbeats
  BY <1>1, <1>4, <1>5, LostMessages, SameProvider
<1> QED
  BY <1>10, <1>11, HandlerInvKept

LEMMA HandlerReceiveHeartbeat ==
  ASSUME HandlerInv, TypeOK', NEW a \in Stores, NEW m \in network, ReceiveHeartbeat(a, m)
  PROVE  HandlerInv'
<1> USE DEF disk, requesterVars, supporterVars
<1>1. TypeOK /\ m.from \in Stores
  BY MessageTypes DEF HandlerInv, MessagesTyped
<1>2. /\ Receive(a, m) /\ m.type = "MsgHeartbeat"
      /\ UNCHANGED <<status, diskMaxEpoch, diskMaxRequested, diskSupportFor, maxEpoch, maxRequested,
                     requested, supportFrom, supportFor>>
  BY DEF ReceiveHeartbeat
<1>3. status[a] = "running" /\ m.to = a /\ network' = network \ {m} /\ clock[a] <= clock'[a]
  BY <1>1, <1>2, ReceiveClock
<1>4. /\ OnlyAt(a)
      /\ CheckedOut(a)'.maxEpoch = CheckedOut(a).maxEpoch
      /\ \A x \in Stores : /\ Requested(a, x)' = Requested(a, x)
                           /\ x # m.from => /\ Provided(a, x)' = Provided(a, x)
                                            /\ PendingTo(x, a)' = PendingTo(x, a)
      /\ Provided(a, m.from)' = HandleHeartbeat(Provided(a, m.from), m)
      /\ PendingTo(m.from, a)' = PendingTo(m.from, a) \cup
           {[to |-> m.from, epoch |-> Provided(a, m.from)'.epoch,
             expiration |-> Provided(a, m.from)'.expiration]}
  BY <1>1, ReceiveHeartbeatView
<1>5. RequesterIsDurable' /\ KeysAreRequested' /\ RequestsGrow
  BY <1>2, <1>3, <1>4, LostMessages, SameRequester
<1>6. ASSUME NEW s \in Stores
      PROVE  /\ \A x \in ProvidedStates(a, s)' :
                  \/ x \in ProvidedStates(a, s)
                  \/ \E y \in ProvidedStates(a, s), n \in HeartbeatsTo(s, a) : x = HandleHeartbeat(y, n)
             /\ \A x \in Answers(a, s)' :
                  \/ \E y \in Answers(a, s) : x.epoch = y.epoch /\ x.expiration = y.expiration
                  \/ \E y \in ProvidedStates(a, s), n \in HeartbeatsTo(s, a) :
                       /\ x.epoch = HandleHeartbeat(y, n).epoch
                       /\ x.expiration = HandleHeartbeat(y, n).expiration
  <2>1. ResponsesTo(s, a)' \subseteq ResponsesTo(s, a)
    BY <1>3, LostMessages
  <2>2. CASE s # m.from
    <3>1. ProvidedStates(a, s)' = ProvidedStates(a, s) /\ Answers(a, s)' \subseteq Answers(a, s)
      BY <1>2, <1>4, <2>1, <2>2 DEF ProvidedStates, Answers
    <3> QED
      BY <3>1
  <2>3. CASE s = m.from
    <3>1. Provided(a, s) \in ProvidedStates(a, s) /\ m \in HeartbeatsTo(s, a)
      BY <1>2, <1>3, <2>3 DEF ProvidedStates, HeartbeatsTo
    <3>2. ProvidedStates(a, s)' = {diskSupportFor[a][s], supportFor[a][s], HandleHeartbeat(Provided(a, s), m)}
      BY <1>2, <1>4, <2>3 DEF ProvidedStates
    <3>3. diskSupportFor[a][s] \in ProvidedStates(a, s) /\ supportFor[a][s] \in ProvidedStates(a, s)
      BY DEF ProvidedStates
    <3>4. ASSUME NEW x \in Answers(a, s)'
          PROVE  \/ x \in Answers(a, s)
                 \/ /\ x.epoch = HandleHeartbeat(Provided(a, s), m).epoch
                    /\ x.expiration = HandleHeartbeat(Provided(a, s), m).expiration
      BY <1>4, <2>1, <2>3 DEF Answers
    <3>5. \A x \in Answers(a, s)' :
                  \/ \E y \in Answers(a, s) : x.epoch = y.epoch /\ x.expiration = y.expiration
                  \/ \E y \in ProvidedStates(a, s), n \in HeartbeatsTo(s, a) :
                       /\ x.epoch = HandleHeartbeat(y, n).epoch
                       /\ x.expiration = HandleHeartbeat(y, n).expiration
      BY <3>1, <3>4
    <3>6. \A x \in ProvidedStates(a, s)' :
                  \/ x \in ProvidedStates(a, s)
                  \/ \E y \in ProvidedStates(a, s), n \in HeartbeatsTo(s, a) : x = HandleHeartbeat(y, n)
      BY <3>1, <3>2, <3>3
    <3> QED
      BY <3>5, <3>6
  <2> QED
    BY <2>2, <2>3
<1>7. ProvidedFromHeartbeats
  BY <1>1, <1>3, <1>4, <1>6, LostMessages, ProviderAt
<1> QED
  BY <1>5, <1>7, HandlerInvKept

\* No response that passes the assertions is from a store that is not a key.
LEMMA ResponseFromKey ==
  ASSUME HandlerInv, NEW a \in Stores, NEW m \in network, m.type = "MsgHeartbeatResp", m.to = a,
         HeartbeatRespAssertions(Requested(a, m.from), m)
  PROVE  m.from \in requested[a]
<1>1. m.from \in Stores /\ m.epoch \in Nat /\ m.expiration \in Nat
  BY MessageTypes DEF HandlerInv, MessagesTyped
<1>2. m \in Answers(m.from, a)
  BY DEF Answers, ResponsesTo
<1>3. 0 < m.epoch /\ FromFirstEpoch(m)
  BY <1>1, <1>2 DEF HandlerInv, AnswersInOrder
<1>4. m.from \notin requested[a] => Requested(a, m.from).epoch = 0
  BY <1>1, RequesterFacts DEF ZeroState
<1> QED
  BY <1>1, <1>3, <1>4 DEF FromFirstEpoch, HeartbeatRespAssertions

LEMMA HandlerReceiveHeartbeatResp ==
  ASSUME HandlerInv, TypeOK', NEW a \in Stores, NEW m \in network, ReceiveHeartbeatResp(a, m)
  PROVE  HandlerInv'
<1> USE DEF disk, requesterVars, supporterVars
<1>1. TypeOK /\ m.from \in Stores /\ m.epoch \in Nat /\ m.expiration \in Nat
  BY MessageTypes DEF HandlerInv, MessagesTyped
<1>2. /\ Receive(a, m) /\ m.type = "MsgHeartbeatResp" /\ HeartbeatRespAssertions(Requested(a, m.from), m)
      /\ UNCHANGED <<status, diskMaxEpoch, diskMaxRequested, diskSupportFor, maxEpoch, maxRequested,
                     requested, supportFrom, supportFor>>
  BY DEF ReceiveHeartbeatResp, Requested
<1>3. status[a] = "running" /\ m.to = a /\ network' = network \ {m} /\ clock[a] <= clock'[a] /\ clock'[a] \in Nat
  BY <1>1, <1>2, ReceiveClock
<1>4. /\ OnlyAt(a)
      /\ CheckedOut(a)'.maxEpoch = Forward(CheckedOut(a).maxEpoch, m.epoch)
      /\ \A x \in Stores : /\ Provided(a, x)' = Provided(a, x)
                           /\ PendingTo(x, a)' = PendingTo(x, a)
                           /\ x # m.from => Requested(a, x)' = Requested(a, x)
      /\ Requested(a, m.from)' = HandleHeartbeatResp(Requested(a, m.from), m)
  BY <1>1, ReceiveHeartbeatRespView
<1>5. m.from \in requested[a]
  BY <1>2, <1>3, ResponseFromKey
<1>6. /\ CheckedOut(a)'.maxEpoch \in Nat /\ CheckedOut(a).maxEpoch \in Nat
      /\ CheckedOut(a).maxEpoch <= CheckedOut(a)'.maxEpoch /\ m.epoch <= CheckedOut(a)'.maxEpoch
  BY <1>1, <1>4, RequesterFacts DEF Forward
<1>7. RequesterIsDurable!(a)'
  <2>1. RequesterIsDurable!(a) /\ clock[a] \in Nat /\ diskMaxRequested[a] \in Nat /\ LivenessInterval \in Nat
        /\ maxEpoch[a] \in Nat
    BY RequesterFacts, ConstantsAssumption
  <2> QED
    BY <1>2, <1>3, <1>6, <2>1
<1>8. ASSUME NEW t \in Stores PROVE KeysAreRequested!(a, t)' /\ EpochBound(a, t) <= EpochBound(a, t)'
  <2>1. EpochBound(a, t)' = EpochBound(a, t) /\ EpochBound(a, t) \in Nat
    BY <1>2, RequesterFacts DEF EpochBound, Floor
  <2>2. /\ KeysAreRequested!(a, t) /\ supportFrom[a][t].epoch \in Nat /\ Requested(a, t).epoch \in Nat
        /\ Requested(a, t) \in SupportState
    BY RequesterFacts
  <2>3. CASE t = m.from
    <3>1. /\ Requested(a, t)'.epoch \in Nat
          /\ Requested(a, t).epoch <= Requested(a, t)'.epoch
          /\ Requested(a, t)'.epoch = Requested(a, t).epoch \/ Requested(a, t)'.epoch = m.epoch
      BY <1>1, <1>4, <2>2, <2>3, HandleHeartbeatRespGrows
    <3> QED
      BY <1>1, <1>2, <1>5, <1>6, <2>1, <2>2, <2>3, <3>1
  <2>4. CASE t # m.from
    BY <1>2, <1>4, <1>6, <2>1, <2>2, <2>4
  <2> QED
    BY <2>3, <2>4
<1>9. /\ \A s, t \in Stores : \A n \in HeartbeatsTo(s, t)' : n \in HeartbeatsTo(s, t)
      /\ diskMaxRequested[a] <= diskMaxRequested'[a]
  BY <1>2, <1>3, LostMessages, RequesterFacts
<1>10. RequesterIsDurable' /\ KeysAreRequested' /\ RequestsGrow
  BY <1>4, <1>7, <1>8, <1>9, RequesterAt
<1>11. ASSUME NEW s \in Stores
       PROVE  /\ \A x \in ProvidedStates(a, s)' : x \in ProvidedStates(a, s)
              /\ \A x \in Answers(a, s)' : \E y \in Answers(a, s) : x.epoch = y.epoch /\ x.expiration = y.expiration
  <2>1. ResponsesTo(s, a)' \subseteq ResponsesTo(s, a)
    BY <1>3, LostMessages
  <2>2. ProvidedStates(a, s)' = ProvidedStates(a, s) /\ Answers(a, s)' \subseteq Answers(a, s)
    BY <1>2, <1>4, <2>1 DEF ProvidedStates, Answers
  <2> QED
    BY <2>2
<1>12. ProvidedFromHeartbeats
  BY <1>1, <1>3, <1>4, <1>11, LostMessages, ProviderAt
<1> QED
  BY <1>10, <1>12, HandlerInvKept

LEMMA HandlerCommitBatch ==
  ASSUME HandlerInv, TypeOK', NEW a \in Stores, CommitBatch(a)
  PROVE  HandlerInv'
<1>1. TypeOK
  BY DEF HandlerInv
<1>2. inProgress[a].open /\ status[a] = "running" /\ inProgress[a] \in Update
  <2>1. inProgress[a].open
    BY DEF CommitBatch
  <2> QED
    BY <1>1, <2>1, RequesterFacts DEF TypeOK, NoUpdate
<1>3. CheckedOut(a) = inProgress[a]
  BY <1>2 DEF CheckedOut
<1>4. OnlyAt(a)
  BY <1>1 DEF CommitBatch, Reset, OnlyAt, TypeOK
<1>5. /\ inProgress'[a] = NoUpdate
      /\ maxEpoch'[a] = CheckedOut(a).maxEpoch /\ diskMaxEpoch'[a] = CheckedOut(a).maxEpoch
      /\ supportFrom'[a] = inProgress[a].supportFrom /\ supportFor'[a] = inProgress[a].supportFor
      /\ UNCHANGED <<status, clock, diskMaxRequested, maxRequested, requested>>
      /\ \A s \in Stores : \/ diskSupportFor'[a][s] = inProgress[a].supportFor[s]
                           \/ diskSupportFor'[a][s] = diskSupportFor[a][s]
  BY <1>1, <1>3 DEF CommitBatch, Reset, TypeOK
<1>6. ~inProgress'[a].open
  BY <1>5 DEF NoUpdate
<1>7. /\ CheckedOut(a)'.maxEpoch = CheckedOut(a).maxEpoch
      /\ \A t \in Stores : supportFrom'[a][t] = Requested(a, t) /\ Requested(a, t)' = Requested(a, t)
  BY <1>3, <1>5, <1>6 DEF CheckedOut, Requested
<1>8. network' = network \cup
        {[type |-> "MsgHeartbeatResp", from |-> a, to |-> r.to, now |-> clock[a],
          epoch |-> r.epoch, expiration |-> r.expiration] : r \in inProgress[a].responses}
  BY DEF CommitBatch
<1>9. RequesterIsDurable!(a)'
  <2>1. RequesterIsDurable!(a) /\ maxEpoch[a] \in Nat /\ CheckedOut(a).maxEpoch \in Nat
    BY RequesterFacts
  <2> QED
    BY <1>2, <1>5, <1>6, <1>7, <2>1
<1>10. ASSUME NEW t \in Stores PROVE KeysAreRequested!(a, t)' /\ EpochBound(a, t) <= EpochBound(a, t)'
  <2>1. /\ KeysAreRequested!(a, t) /\ supportFrom[a][t].epoch \in Nat /\ Requested(a, t).epoch \in Nat
        /\ RequesterIsDurable!(a) /\ maxEpoch[a] \in Nat /\ CheckedOut(a).maxEpoch \in Nat
    BY RequesterFacts
  <2>2. KeysAreRequested!(a, t)'
    BY <1>5, <1>7, <2>1
  <2>3. Floor(a, t) <= Floor(a, t)'
    BY <1>5, <1>7, <2>1 DEF Floor
  <2> QED
    BY <1>2, <1>5, <2>2, <2>3 DEF EpochBound
<1>11. /\ \A s, t \in Stores : \A n \in HeartbeatsTo(s, t)' : n \in HeartbeatsTo(s, t)
       /\ \A s, t \in Stores : t # a => ResponsesTo(s, t)' \subseteq ResponsesTo(s, t)
       /\ diskMaxRequested[a] <= diskMaxRequested'[a]
  <2>1. \A s, t \in Stores : \A n \in HeartbeatsTo(s, t)' : n \in HeartbeatsTo(s, t)
    BY <1>8 DEF HeartbeatsTo
  <2>2. \A s, t \in Stores : t # a => ResponsesTo(s, t)' \subseteq ResponsesTo(s, t)
    BY <1>8 DEF ResponsesTo
  <2> QED
    BY <1>5, <2>1, <2>2, RequesterFacts
<1>12. RequesterIsDurable' /\ KeysAreRequested' /\ RequestsGrow
  BY <1>4, <1>9, <1>10, <1>11, RequesterAt
<1>13. ASSUME NEW s \in Stores
       PROVE  /\ \A x \in ProvidedStates(a, s)' : x \in ProvidedStates(a, s)
              /\ \A x \in Answers(a, s)' : \E y \in Answers(a, s) : x.epoch = y.epoch /\ x.expiration = y.expiration
  <2>1. Provided(a, s) = inProgress[a].supportFor[s] /\ Provided(a, s)' = inProgress[a].supportFor[s]
    BY <1>3, <1>5, <1>6 DEF Provided, CheckedOut
  <2>2. PendingTo(s, a)' = {}
    BY <1>5 DEF PendingTo, NoUpdate
  <2>3. \A x \in ProvidedStates(a, s)' : x \in ProvidedStates(a, s)
    BY <1>5, <2>1 DEF ProvidedStates
  <2>4. \A x \in ResponsesTo(s, a)' :
          \/ x \in ResponsesTo(s, a)
          \/ \E r \in PendingTo(s, a) : x.epoch = r.epoch /\ x.expiration = r.expiration
    BY <1>8 DEF ResponsesTo, PendingTo
  <2>5. \A x \in Answers(a, s)' : \E y \in Answers(a, s) : x.epoch = y.epoch /\ x.expiration = y.expiration
    BY <2>2, <2>4 DEF Answers
  <2> QED
    BY <2>3, <2>5
<1>14. ProvidedFromHeartbeats
  BY <1>1, <1>4, <1>11, <1>13, ProviderAt
<1> QED
  BY <1>12, <1>14, HandlerInvKept

LEMMA HandlerInit == Init => HandlerInv
<1> SUFFICES ASSUME Init PROVE HandlerInv
  OBVIOUS
<1>1. TypeOK
  BY TypeInit
<1>2. /\ \A s, t \in Stores : /\ Provided(t, s) = ZeroState /\ Requested(s, t) = ZeroState
                              /\ HeartbeatsTo(s, t) = {} /\ Answers(t, s) = {}
                              /\ supportFrom[s][t] = ZeroState
                              /\ ProvidedStates(t, s) = {ZeroState}
      /\ \A s \in Stores : /\ status[s] = "down" /\ requested[s] = {} /\ ~inProgress[s].open
                           /\ diskMaxRequested[s] = 0 /\ diskMaxEpoch[s] = 0 /\ maxEpoch[s] = 0
                           /\ CheckedOut(s).maxEpoch = 0
  BY DEF Init, Provided, Requested, CheckedOut, NoUpdate, HeartbeatsTo, ResponsesTo, PendingTo, Answers,
         ProvidedStates
<1>3. RequesterIsDurable /\ KeysAreRequested /\ HeartbeatsInOrder /\ AnswersInOrder
  BY <1>2 DEF RequesterIsDurable, KeysAreRequested, HeartbeatsInOrder, AnswersInOrder
<1>4. ProvidedInOrder
  <2>1. ZeroState.epoch = 0 /\ ZeroState.expiration = 0
    BY DEF ZeroState
  <2>2. \A s, t \in Stores : EpochBound(s, t) = 0
    BY <1>2 DEF EpochBound
  <2> QED
    BY <1>2, <2>1, <2>2 DEF ProvidedInOrder, FromFirstEpoch, WithinBound
<1> QED
  BY <1>1, <1>3, <1>4 DEF HandlerInv

LEMMA HandlerStutter == HandlerInv /\ UNCHANGED vars => HandlerInv'
<1> SUFFICES ASSUME HandlerInv, UNCHANGED vars PROVE HandlerInv'
  OBVIOUS
<1> USE DEF vars, disk, requesterVars, supporterVars
<1>1. /\ \A s \in Stores : CheckedOut(s)' = CheckedOut(s)
      /\ \A s, t \in Stores : Floor(s, t)' = Floor(s, t)
  BY DEF CheckedOut, Floor
<1>2. \A s, t \in Stores : /\ HeartbeatsTo(s, t)' = HeartbeatsTo(s, t)
                           /\ Answers(t, s)' = Answers(t, s)
                           /\ ProvidedStates(t, s)' = ProvidedStates(t, s)
                           /\ Requested(s, t)' = Requested(s, t)
                           /\ EpochBound(s, t)' = EpochBound(s, t)
  BY <1>1 DEF HeartbeatsTo, ResponsesTo, PendingTo, Answers, ProvidedStates, Provided, Requested, EpochBound
<1>3. TypeOK' /\ RequesterIsDurable' /\ KeysAreRequested'
  BY <1>1, <1>2 DEF HandlerInv, TypeOK, RequesterIsDurable, KeysAreRequested
<1>4. HeartbeatsInOrder' /\ ProvidedInOrder' /\ AnswersInOrder'
  BY <1>2 DEF HandlerInv, HeartbeatsInOrder, ProvidedInOrder, AnswersInOrder
<1> QED
  BY <1>3, <1>4 DEF HandlerInv

LEMMA HandlerStep == HandlerInv /\ [Next]_vars => HandlerInv'
<1> SUFFICES ASSUME HandlerInv, [Next]_vars PROVE HandlerInv'
  OBVIOUS
<1>1. TypeOK'
  BY TypeStep DEF HandlerInv
<1>2. CASE UNCHANGED vars
  BY <1>2, HandlerStutter
<1>3. ASSUME NEW s \in Stores, NEW t \in Stores, SupportFrom(s, t) \/ SupportFromUnknown(s, t)
      PROVE  HandlerInv'
  BY <1>1, <1>3, HandlerSupportFrom
<1>4. ASSUME NEW s \in Stores, Crash(s) \/ PanicOnCheckOut(s) \/ Start(s) \/ FinishStart(s)
      PROVE  HandlerInv'
  BY <1>1, <1>4, HandlerCrash, HandlerStart, HandlerFinishStart
<1>5. ASSUME NEW s \in Stores, HeartbeatTickDisabled(s) \/ SendHeartbeats(s) \/ SendHeartbeatsWriteError(s)
                               \/ RemoveIdleStores(s)
      PROVE  HandlerInv'
  BY <1>1, <1>5, HandlerHeartbeatTick, HandlerRemoveIdleStores
<1>6. ASSUME NEW s \in Stores, WithdrawSupport(s) \/ WithdrawSupportWriteError(s) \/ CrashInWithdrawSupport(s)
      PROVE  HandlerInv'
  BY <1>1, <1>6, HandlerWithdrawSupport, HandlerCrashInWithdrawSupport
<1>7. ASSUME NEW s \in Stores, CommitBatch(s) \/ BatchWriteError(s)
      PROVE  HandlerInv'
  BY <1>1, <1>7, HandlerCommitBatch, HandlerBatchWriteError
<1>8. ASSUME NEW m \in network, DropMessage(m)
      PROVE  HandlerInv'
  BY <1>1, <1>8, HandlerDropMessage
<1>9. ASSUME NEW m \in network, NEW s \in Stores,
             ReceiveHeartbeat(s, m) \/ ReceiveHeartbeatResp(s, m) \/ PanicOnHeartbeatResp(s, m)
      PROVE  HandlerInv'
  BY <1>1, <1>9, HandlerReceiveHeartbeat, HandlerReceiveHeartbeatResp, HandlerPanic
<1> QED
  BY <1>2, <1>3, <1>4, <1>5, <1>6, <1>7, <1>8, <1>9 DEF Next

\* The heartbeat assertion is about what t provides in its view; a response is
\* ahead of what s knows only if t has withdrawn.
LEMMA HandlerAssertions == HandlerInv => AssertionsHold /\ CheckInFindsStore
<1> SUFFICES ASSUME HandlerInv PROVE AssertionsHold /\ CheckInFindsStore
  OBVIOUS
<1>1. MessagesTyped
  BY MessageTypes DEF HandlerInv
<1>2. NoExpirationRegression
  <2> SUFFICES ASSUME NEW m \in network, m.type = "MsgHeartbeat"
               PROVE  HeartbeatAssertion(Provided(m.to, m.from), m)
    BY DEF NoExpirationRegression, Provided
  <2>1. m.from \in Stores /\ m.to \in Stores
    BY <1>1 DEF MessagesTyped
  <2>2. m \in HeartbeatsTo(m.from, m.to) /\ Provided(m.to, m.from) \in ProvidedStates(m.to, m.from)
    BY DEF HeartbeatsTo, ProvidedStates
  <2> QED
    BY <2>1, <2>2 DEF HandlerInv, ProvidedInOrder, HeartbeatAssertion
<1>3. KnownResponsesAssertions
  <2> SUFFICES ASSUME NEW m \in network, m.type = "MsgHeartbeatResp", status[m.to] = "running",
                      m.from \in requested[m.to]
               PROVE  HeartbeatRespAssertions(Requested(m.to, m.from), m)
    BY DEF KnownResponsesAssertions, Requested
  <2>1. m.from \in Stores /\ m.to \in Stores /\ m.epoch \in Nat /\ m.expiration \in Nat
    BY <1>1 DEF MessagesTyped
  <2>2. m \in Answers(m.from, m.to)
    BY DEF Answers, ResponsesTo
  <2>3. WithinBound(m, EpochBound(m.to, m.from))
    BY <2>1, <2>2 DEF HandlerInv, AnswersInOrder
  <2>4. /\ EpochBound(m.to, m.from) = supportFrom[m.to][m.from].epoch
        /\ supportFrom[m.to][m.from].epoch \in Nat /\ Requested(m.to, m.from).epoch \in Nat
        /\ supportFrom[m.to][m.from].epoch <= Requested(m.to, m.from).epoch
    BY <2>1, RequesterFacts DEF EpochBound, Floor
  <2> QED
    BY <2>1, <2>3, <2>4 DEF WithinBound, HeartbeatRespAssertions
<1>4. CheckInFindsStore
  <2> SUFFICES ASSUME NEW s \in Stores, NEW t \in Stores, inProgress[s].open, t \notin requested[s]
               PROVE  inProgress[s].supportFrom[t] = supportFrom[s][t]
    BY DEF CheckInFindsStore
  <2>1. Requested(s, t) = inProgress[s].supportFrom[t]
    BY DEF Requested, CheckedOut
  <2> QED
    BY <2>1, RequesterFacts
<1> QED
  BY <1>2, <1>3, <1>4 DEF AssertionsHold

\* The assertion of handleHeartbeat holds for every heartbeat under way, and
\* those of handleHeartbeatResponse for every response of a store that is in
\* supportFrom, for any number of stores and for any constants, whichever
\* writes fail, messages are lost or reordered, and clocks regress. Responses
\* of stores that were dropped as idle are not covered: they fail (see
\* PanicOnHeartbeatResp).
THEOREM HandlerAssertionsHold == Spec => []AssertionsHold
<1>1. HandlerInv => AssertionsHold
  BY HandlerAssertions
<1> QED
  BY <1>1, HandlerInit, HandlerStep, PTL DEF Spec

\* checkInUpdate of a batch finds every store whose state the batch changed, for
\* any constants: the pointer it writes through is never nil.
THEOREM CheckInAlwaysFindsStore == Spec => []CheckInFindsStore
<1>1. HandlerInv => CheckInFindsStore
  BY HandlerAssertions
<1> QED
  BY <1>1, HandlerInit, HandlerStep, PTL DEF Spec
===============================================================================
