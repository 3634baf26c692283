--------------------------- MODULE StoreLivenessInv ---------------------------
(***************************************************************************)
(* The inductive invariant behind DurableSupport and DisjointSupport.       *)
(*                                                                          *)
(* The views that the next message is handled on are what CheckedOut        *)
(* returns: Provided(t, s) is the support t provides to s there, and        *)
(* Requested(s, t) the support from t that s knows of.  A promise of t to s *)
(* is a pair of an epoch and an expiration on its way from t to s.  It can  *)
(* still reach raft on s only when s runs and the epoch is not below        *)
(* Floor(s, t): such a promise must be covered by what t has on disk.       *)
(***************************************************************************)
EXTENDS StoreLiveness

Provided(t, s) == CheckedOut(t).supportFor[s]
Requested(s, t) == CheckedOut(s).supportFrom[t]

\* The epoch of the next heartbeat from s to t, which no earlier one exceeds and
\* below which no response changes what s knows of the support from t.
Floor(s, t) == IF t \in requested[s] THEN supportFrom[s][t].epoch ELSE maxEpoch[s]

HeartbeatsTo(s, t) == {m \in network : m.type = "MsgHeartbeat" /\ m.from = s /\ m.to = t}
ResponsesTo(s, t) == {m \in network : m.type = "MsgHeartbeatResp" /\ m.from = t /\ m.to = s}
PendingTo(s, t) == {r \in inProgress[t].responses : r.to = s}

\* A store that is not down has in memory what it has on disk.  This is what a
\* failing write of withdrawSupport breaks.
MemoryIsDurable ==
  \A s \in Stores :
    status[s] # "down" =>
      /\ maxEpoch[s] = diskMaxEpoch[s]
      /\ maxRequested[s] = diskMaxRequested[s]
      /\ maxWithdrawn[s] = diskMaxWithdrawn[s]
      /\ supportFor[s] = diskSupportFor[s]

\* The clock of a store that is up has reached every withdrawal, and that of a
\* running store is at most LivenessInterval behind every request.
ClocksCaughtUp ==
  \A s \in Stores :
    /\ status[s] # "down" => diskMaxWithdrawn[s] <= clock[s]
    /\ status[s] = "running" => diskMaxRequested[s] <= clock[s] + LivenessInterval /\ idleTS[s] <= clock[s]

\* Only a running store handles a batch; a store that does not run knows of no support.
OnlyRunningStoresWork ==
  \A s \in Stores :
    /\ inProgress[s].open => status[s] = "running"
    /\ status[s] # "running" => requested[s] = {}
    /\ \A t \in Stores \ requested[s] : supportFrom[s][t] = ZeroState

\* No expiration is beyond what the requester has persisted as MaxRequested.
RequestsArePersisted ==
  \A s, t \in Stores :
    /\ \A m \in HeartbeatsTo(s, t) \cup ResponsesTo(s, t) : m.expiration <= diskMaxRequested[s]
    /\ \A r \in PendingTo(s, t) : r.expiration <= diskMaxRequested[s]
    /\ diskSupportFor[t][s].expiration <= diskMaxRequested[s]
    /\ inProgress[t].open => Provided(t, s).expiration <= diskMaxRequested[s]
    /\ t \in requested[s] => Requested(s, t).expiration <= diskMaxRequested[s]

\* No supported epoch is beyond what the requester has persisted as MaxEpoch, so
\* a restarted requester starts above all of them.
EpochsArePersisted ==
  \A s, t \in Stores :
    /\ \A m \in HeartbeatsTo(s, t) : m.epoch <= diskMaxEpoch[s]
    /\ \A m \in ResponsesTo(s, t) : m.expiration # 0 => m.epoch <= diskMaxEpoch[s]
    /\ \A r \in PendingTo(s, t) : r.expiration # 0 => r.epoch <= diskMaxEpoch[s]
    /\ diskSupportFor[t][s].expiration # 0 => diskSupportFor[t][s].epoch <= diskMaxEpoch[s]
    /\ inProgress[t].open /\ Provided(t, s).expiration # 0 => Provided(t, s).epoch <= diskMaxEpoch[s]
    /\ inProgress[t].open /\ Provided(t, s) # supportFor[t][s] => Provided(t, s).epoch <= diskMaxEpoch[s]
    /\ status[s] = "running" => diskMaxEpoch[s] <= CheckedOut(s).maxEpoch
    /\ t \in requested[s] => Requested(s, t).epoch <= CheckedOut(s).maxEpoch

\* What s requests from t never goes beyond its floor, and neither does a change
\* that t is about to commit for s.
RequestsBelowFloor ==
  \A s, t \in Stores :
    status[s] = "running" =>
      /\ \A m \in HeartbeatsTo(s, t) : m.epoch <= Floor(s, t)
      /\ inProgress[t].open /\ Provided(t, s) # supportFor[t][s] => Provided(t, s).epoch <= Floor(s, t)

\* The epochs that t provides support for only grow, on disk and in a batch.
ProvidedEpochsGrow ==
  \A s, t \in Stores :
    /\ \A m \in ResponsesTo(s, t) : m.epoch <= diskSupportFor[t][s].epoch
    /\ \A r \in PendingTo(s, t) : r.epoch <= Provided(t, s).epoch
    /\ \/ supportFor[t][s].epoch < Provided(t, s).epoch
       \/ /\ supportFor[t][s].epoch = Provided(t, s).epoch
          /\ supportFor[t][s].expiration <= Provided(t, s).expiration

\* The promise of epoch and expiration can still reach raft on s as support.
Live(s, t, epoch, expiration) ==
  /\ status[s] = "running"
  /\ clock[s] < expiration
  /\ Floor(s, t) <= epoch

\* What t has on disk honours the promise.
CoveredOnDisk(s, t, epoch, expiration) ==
  \/ expiration <= diskMaxWithdrawn[t]
  \/ diskSupportFor[t][s].epoch = epoch /\ expiration <= diskSupportFor[t][s].expiration

\* Whoever hears of a later epoch from t also hears that the promise has expired.
Superseded(s, t, epoch, expiration) ==
  /\ \A m \in ResponsesTo(s, t) : epoch < m.epoch => expiration <= m.now
  /\ \A r \in PendingTo(s, t) : epoch < r.epoch => expiration <= clock[t]

\* Every promise that is live is covered: one that s knows of or that is in flight
\* by what t has on disk, one that t is about to send by the batch it will commit.
PromisesAreCovered ==
  \A s, t \in Stores :
    /\ t \in requested[s] =>
         LET p == Requested(s, t)
         IN  Live(s, t, p.epoch, p.expiration) =>
               /\ CoveredOnDisk(s, t, p.epoch, p.expiration)
               /\ Superseded(s, t, p.epoch, p.expiration)
    /\ \A p \in ResponsesTo(s, t) :
         Live(s, t, p.epoch, p.expiration) =>
           /\ CoveredOnDisk(s, t, p.epoch, p.expiration)
           /\ Superseded(s, t, p.epoch, p.expiration)
    /\ \A p \in PendingTo(s, t) :
         Live(s, t, p.epoch, p.expiration) =>
           /\ Provided(t, s).epoch = p.epoch
           /\ p.expiration <= Provided(t, s).expiration
           /\ Superseded(s, t, p.epoch, p.expiration)

\* What SupportFrom reports, and what it reported, is bounded by what s has
\* persisted and is still known to s as long as it has not expired on its clock.
ReportsAreKnown ==
  \A s, t \in Stores :
    /\ supportFrom[s][t].expiration <= diskMaxRequested[s]
    /\ answer[s][t].expiration <= diskMaxRequested[s]
    /\ supportFrom[s][t].epoch <= diskMaxEpoch[s]
    /\ answer[s][t].epoch <= diskMaxEpoch[s]
    /\ t \in requested[s] =>
         /\ answer[s][t].epoch <= supportFrom[s][t].epoch
         /\ supportFrom[s][t].epoch <= Requested(s, t).epoch
         /\ clock[s] < supportFrom[s][t].expiration =>
              /\ supportFrom[s][t].epoch = Requested(s, t).epoch
              /\ supportFrom[s][t].expiration <= Requested(s, t).expiration
    /\ status[s] = "running" /\ clock[s] < answer[s][t].expiration =>
         /\ t \in requested[s]
         /\ answer[s][t].epoch = supportFrom[s][t].epoch
         /\ answer[s][t].expiration <= supportFrom[s][t].expiration

\* Support that was not queried since the last removeIdleStores expires before the next.
IdleSupportExpires ==
  \A s, t \in Stores :
    status[s] = "running" /\ t \in requested[s] \ recentlyQueried[s] =>
      answer[s][t].expiration <= idleTS[s] + LivenessInterval

\* The inductive invariant: what a store promised, persisted and reported stays
\* consistent through the handlers, the restarts and the write errors of the
\* heartbeat and the batch paths (withdrawSupport's writes must not fail).
Inv ==
  /\ TypeOK
  /\ MemoryIsDurable
  /\ ClocksCaughtUp
  /\ OnlyRunningStoresWork
  /\ RequestsArePersisted
  /\ EpochsArePersisted
  /\ RequestsBelowFloor
  /\ ProvidedEpochsGrow
  /\ PromisesAreCovered
  /\ ReportsAreKnown
  /\ IdleSupportExpires
------------------------------------------------------------------------------
(* The inductive invariant behind AssertionsHold and CheckInFindsStore, which  *)
(* holds however writes fail.                                                  *)

\* The epoch that no heartbeat from s to t exceeds: it never decreases.
EpochBound(s, t) == IF status[s] = "running" THEN Floor(s, t) ELSE diskMaxEpoch[s]

\* The support t provides to s: on disk, in memory and in a batch.
ProvidedStates(t, s) == {diskSupportFor[t][s], supportFor[t][s], Provided(t, s)}

\* What t is about to answer to s, or has answered.
Answers(t, s) == ResponsesTo(s, t) \cup PendingTo(s, t)

\* Only a withdrawal goes beyond the requested epoch, and it provides no support.
WithinBound(x, bound) == x.epoch <= bound \/ (x.epoch = bound + 1 /\ x.expiration = 0)

\* The first epoch is 1, and an epoch that was withdrawn is a later one.
FromFirstEpoch(x) == /\ x.epoch = 0 => x.expiration = 0
                     /\ x.epoch = 1 => x.expiration # 0

\* The meta of a requester is on disk, and every round of heartbeats asks for a
\* later expiration than the round before, also after a restart.
RequesterIsDurable ==
  \A s \in Stores :
    /\ status[s] # "down" => maxEpoch[s] = diskMaxEpoch[s] /\ maxRequested[s] = diskMaxRequested[s]
    /\ status[s] = "running" => 0 < maxEpoch[s] /\ diskMaxRequested[s] <= clock[s] + LivenessInterval
    /\ status[s] # "running" => ~inProgress[s].open /\ requested[s] = {}
    /\ maxEpoch[s] <= CheckedOut(s).maxEpoch

\* A store that is not a key has no state in a batch either; the epoch of one
\* that is a key grows, up to MaxEpoch.
KeysAreRequested ==
  \A s, t \in Stores :
    /\ t \notin requested[s] => supportFrom[s][t] = ZeroState /\ Requested(s, t) = ZeroState
    /\ t \in requested[s] =>
         /\ 0 < supportFrom[s][t].epoch
         /\ supportFrom[s][t].epoch <= maxEpoch[s]
         /\ supportFrom[s][t].epoch <= Requested(s, t).epoch
         /\ Requested(s, t).epoch <= CheckedOut(s).maxEpoch

\* Among the heartbeats in flight, one for a later epoch asks for a later expiration.
HeartbeatsInOrder ==
  \A s, t \in Stores : \A m \in HeartbeatsTo(s, t) :
    /\ 0 < m.epoch /\ m.epoch <= EpochBound(s, t)
    /\ 0 < m.expiration /\ m.expiration <= diskMaxRequested[s]
    /\ \A n \in HeartbeatsTo(s, t) : n.epoch < m.epoch => n.expiration < m.expiration

\* So does a heartbeat for a later epoch than the one t supports.
ProvidedInOrder ==
  \A s, t \in Stores : \A x \in ProvidedStates(t, s) :
    /\ FromFirstEpoch(x)
    /\ WithinBound(x, EpochBound(s, t))
    /\ x.expiration <= diskMaxRequested[s]
    /\ \A m \in HeartbeatsTo(s, t) : x.epoch < m.epoch => x.expiration < m.expiration

AnswersInOrder ==
  \A s, t \in Stores : \A x \in Answers(t, s) :
    0 < x.epoch /\ FromFirstEpoch(x) /\ WithinBound(x, EpochBound(s, t))

\* The inductive invariant: TypeOK, and what a heartbeat asks for and what is
\* answered never leaves the order in which s requested it.
HandlerInv ==
  /\ TypeOK
  /\ RequesterIsDurable
  /\ KeysAreRequested
  /\ HeartbeatsInOrder
  /\ ProvidedInOrder
  /\ AnswersInOrder
===============================================================================
