--------------------------- MODULE ProposalBuffer ---------------------------
(***************************************************************************)
(* The write path of a range at one replica: requests that check the       *)
(* lease, are tracked and evaluate (replica_write.go), the proposal buffer *)
(* that sequences them and decides what timestamps to close                *)
(* (replica_proposal_buf.go), their way through raft, the checks when they *)
(* apply (kvserverbase/forced_error.go, replica_app_batch.go), their       *)
(* reproposals (replica_raft.go, replica_application_result.go), and the   *)
(* side transport that closes timestamps too (replica_closedts.go).        *)
(*                                                                         *)
(* r.mu is held in read mode by TrackEvaluatingRequest and Insert, one     *)
(* action each, and in write mode by a flush, an action per proposal, and  *)
(* by a refresh: lock says which holds it. The tracker is used through     *)
(* what Tracker promises; LockfreeTracker implements that.                 *)
(***************************************************************************)
EXTENDS HlcTimestamp, SequencesExt

CONSTANTS
  Requests,       \* a request, and the proposals made for it
  Kinds,          \* "write", "untracked", "change" and "lease" requests
  Inputs,         \* the timestamps of requests
  Targets,        \* the closed timestamp targets
  MaxWall,        \* bound: the largest wall time
  LeaseLength,    \* the wall time from a lease's start to its expiration
  MaxLease,       \* bound: the largest lease sequence
  MaxGeneration,  \* bound: the reproposals with a new lease index
  MaxWire,        \* bound: the entries that are on their way
  ArrMinSize, ArrMaxSize, ArrShrinkDelay,   \* propBufArray*
  MayDestroy,     \* the replica may be destroyed
  Untracked, Nobody

ValidConstants ==
  /\ Kinds \subseteq {"write", "untracked", "change", "lease"}
  /\ Inputs \subseteq Timestamps /\ Targets \subseteq Timestamps
  /\ MaxWall \in Nat /\ LeaseLength \in Nat \ {0}
  /\ ArrMinSize \in Nat \ {0} /\ ArrMaxSize \in Nat
  /\ Untracked \notin Timestamps /\ Nobody \notin Requests

ASSUME ConstantsAssumption == ValidConstants

VARIABLES
  lease,          \* the applied lease: its sequence, who holds it, its times
  applied,        \* ReplicaState: LeaseAppliedIndex, RaftClosedTimestamp
  assigned,       \* assignedLAI, assignedClosedTimestamp
  prop,           \* per request, where it is and its latest ProposalData
  tracked,        \* the evalTracker: the timestamp a request is tracked at
  arr,            \* the array of the buffer, its size and allocatedIdx
  proposals,      \* r.mu.proposals
  wire,           \* what was given to raft and has not been applied or lost
  lock,           \* how r.mu is held in write mode
  flush,          \* the local variables of FlushLockedWithRaftGroup
  refresh,        \* what refreshProposalsLocked has yet to insert
  applying,       \* the request whose result raft processing is handling
  updateCheck,    \* a raft update check is scheduled
  destroyed,
  published,      \* history: the highest timestamp the side transport closed
  applications    \* history: how often the command of a request applied

leaseVars == <<lease, applied, published>>
bufVars == <<assigned, prop, tracked, arr, proposals, updateCheck>>
raftVars == <<wire, applying, destroyed, applications>>
lockVars == <<lock, flush, refresh>>
vars == <<leaseVars, bufVars, raftVars, lockVars>>

Promise == INSTANCE Tracker WITH answer <- EmptyTS

NoFlush == [owner |-> Nobody, i |-> 0, used |-> 0, target |-> EmptyTS, ents |-> <<>>]

NewRequest == [pc |-> "idle", kind |-> "write", seq |-> 0, exp |-> EmptyTS, wts |-> EmptyTS,
               minTS |-> EmptyTS, tok |-> FALSE, seen |-> FALSE,
               lai |-> 0, closed |-> EmptyTS, gen |-> 0]

Init ==
  /\ lease = [seq |-> 1, mine |-> TRUE, start |-> EmptyTS, exp |-> At(LeaseLength, 0)]
  /\ applied = [lai |-> 0, closed |-> EmptyTS]
  /\ assigned = [lai |-> 0, closed |-> EmptyTS]
  /\ prop = [r \in Requests |-> NewRequest]
  /\ tracked = [r \in Requests |-> Untracked]
  /\ arr = [buf |-> <<>>, alloc |-> 0, size |-> ArrMinSize, shrink |-> 0]
  /\ proposals = {} /\ wire = <<>>
  /\ lock = "free" /\ flush = NoFlush /\ refresh = <<>>
  /\ applying = Nobody /\ updateCheck = FALSE /\ destroyed = FALSE
  /\ published = EmptyTS /\ applications = [r \in Requests |-> 0]

-----------------------------------------------------------------------------
(* Evaluation: executeWriteBatch *)

(* checkExecutionCanProceedRWOrAdmin: a write needs the lease, a lease is  *)
(* requested without it. The lease status is used until the proposal.      *)
CheckExecution(r) ==
  /\ prop[r].pc = "idle" /\ ~destroyed
  /\ \E kind \in Kinds, ts \in Inputs :
       /\ kind = "lease" <=> ~lease.mine
       /\ prop' = [prop EXCEPT ![r] = [NewRequest EXCEPT
            !.pc = "checked", !.kind = kind, !.seq = lease.seq, !.exp = lease.exp, !.wts = ts]]
  /\ UNCHANGED <<leaseVars, assigned, tracked, arr, proposals, updateCheck, raftVars, lockVars>>

(* TrackEvaluatingRequest, for a request that AppliesTimestampCache; the   *)
(* token of another is the zero value, which is "still tracked".           *)
TrackEvaluatingRequest(r) ==
  LET minTS == NextTS(assigned.closed)
  IN /\ prop[r].pc = "checked" /\ lock = "free"
     /\ IF prop[r].kind = "write"
          THEN /\ tracked' = [tracked EXCEPT ![r] = Forward(prop[r].wts, minTS)]
               /\ prop' = [prop EXCEPT ![r].pc = "evaluate", ![r].minTS = minTS, ![r].tok = TRUE]
          ELSE /\ prop' = [prop EXCEPT ![r].pc = "evaluate", ![r].tok = TRUE]
               /\ UNCHANGED tracked
     /\ UNCHANGED <<leaseVars, assigned, arr, proposals, updateCheck, raftVars, lockVars>>

(* applyTimestampCache bumps the write above minTS, and above the reads    *)
(* before the lease, whose start is the cache's low water mark.            *)
WriteTimestamp(p) == Forward(Forward(p.wts, p.minTS), NextTS(lease.start))

(* evalAndPropose up to the buffer; the evaluation may fail. *)
Evaluate(r) ==
  /\ prop[r].pc = "evaluate"
  /\ \/ prop' = [prop EXCEPT ![r].pc = "insert", ![r].wts = IF prop[r].kind = "write"
                                                              THEN WriteTimestamp(prop[r])
                                                              ELSE @]
     \/ prop' = [prop EXCEPT ![r].pc = "fail"]
  /\ UNCHANGED <<leaseVars, assigned, tracked, arr, proposals, updateCheck, raftVars, lockVars>>

(* Mutant: the deferred call is missing. *)
DoneIfNotMoved_Leaks(r) ==
  /\ prop[r].pc = "fail" /\ lock = "free"
  /\ prop' = [prop EXCEPT ![r].pc = "done", ![r].tok = FALSE]
  /\ applying' = IF applying = r THEN Nobody ELSE applying
  /\ UNCHANGED <<leaseVars, assigned, tracked, arr, proposals, updateCheck, wire, destroyed,
                 applications, lockVars>>

(* DoneIfNotMoved of a request that gives up: needs the lock. *)
DoneIfNotMoved(r) ==
  /\ prop[r].pc = "fail" /\ lock = "free"
  /\ tracked' = [tracked EXCEPT ![r] = Untracked]
  /\ prop' = [prop EXCEPT ![r].pc = "done", ![r].tok = FALSE]
  /\ applying' = IF applying = r THEN Nobody ELSE applying
  /\ UNCHANGED <<leaseVars, assigned, arr, proposals, updateCheck, wire, destroyed, applications,
                 lockVars>>

-----------------------------------------------------------------------------
(* Insertion *)

(* The array with one more proposal, in the slot that was allocated. *)
WithProposal(r) == [arr EXCEPT !.buf = Append(@, <<r, prop[r].gen>>), !.alloc = @ + 1]

(* Mutant: the second slot schedules the check. *)
CheckScheduled_SecondSlot == updateCheck \/ arr.alloc = 1

(* insertIntoArray: whoever takes the first slot schedules a check. *)
CheckScheduled == updateCheck \/ arr.alloc = 0

(* One iteration of allocateIndex of Insert: take a slot, or flush, or     *)
(* wait for somebody else's flush.                                         *)
Insert(r) ==
  /\ prop[r].pc = "insert" /\ lock = "free"
  /\ \/ /\ destroyed
        /\ prop' = [prop EXCEPT ![r].pc = "fail"]
        /\ UNCHANGED <<arr, updateCheck, applying>>
     \/ /\ ~destroyed /\ arr.alloc < arr.size
        /\ arr' = WithProposal(r)
        /\ updateCheck' = CheckScheduled
        /\ prop' = [prop EXCEPT ![r].pc = "buffered"]
        /\ applying' = IF applying = r THEN Nobody ELSE applying
     \/ /\ ~destroyed /\ arr.alloc >= arr.size
        /\ arr' = [arr EXCEPT !.alloc = @ + 1]
        /\ prop' = [prop EXCEPT ![r].pc = IF arr.alloc = arr.size THEN "flush" ELSE "wait"]
        /\ UNCHANGED <<updateCheck, applying>>
  /\ UNCHANGED <<leaseVars, assigned, tracked, proposals, wire, destroyed, applications, lockVars>>

(* full.Broadcast() *)
Broadcast(p) == [r \in Requests |-> IF p[r].pc = "wait" THEN [p[r] EXCEPT !.pc = "insert"] ELSE p[r]]

(* adjustSize; shrink counts the flushes that used little of the array. *)
AdjustSize(a, used) ==
  CASE used <= a.size \div 4 ->
         IF a.size <= ArrMinSize THEN a
         ELSE IF a.shrink + 1 = ArrShrinkDelay
                THEN [a EXCEPT !.shrink = 0,
                               !.size = IF @ \div 2 <= ArrMinSize THEN ArrMinSize ELSE @ \div 2]
                ELSE [a EXCEPT !.shrink = @ + 1]
    [] used >= a.size ->
         [a EXCEPT !.shrink = 0, !.size = IF 2 * @ <= ArrMaxSize THEN 2 * @ ELSE @]
    [] OTHER -> [a EXCEPT !.shrink = 0]

(* The start of FlushLockedWithRaftGroup: allocatedIdx is cleared. *)
BeginFlush(owner) ==
  /\ lock' = "flush"
  /\ arr' = [arr EXCEPT !.alloc = 0]
  /\ \E target \in Targets :
       flush' = [NoFlush EXCEPT !.owner = owner, !.i = 1, !.used = arr.alloc, !.target = target]

(* flushRLocked of the request that found the buffer full. *)
FlushRLocked(r) ==
  /\ prop[r].pc = "flush" /\ lock = "free"
  /\ IF destroyed
       THEN /\ prop' = [Broadcast(prop) EXCEPT ![r].pc = "fail"]
            /\ UNCHANGED <<lock, flush, arr>>
       ELSE BeginFlush(r) /\ UNCHANGED prop
  /\ UNCHANGED <<leaseVars, assigned, tracked, proposals, updateCheck, raftVars, refresh>>

(* handleRaftReady flushes when an update check is scheduled for the range *)
(* and at other times; it holds raftMu and is not applying entries.        *)
HandleRaftReady ==
  /\ lock = "free" /\ ~destroyed /\ applying = Nobody
  /\ updateCheck \/ arr.alloc > 0
  /\ BeginFlush(Nobody)
  /\ updateCheck' = FALSE
  /\ UNCHANGED <<leaseVars, assigned, prop, tracked, proposals, raftVars, refresh>>

-----------------------------------------------------------------------------
(* The flush, proposal by proposal *)

(* The proposal in the slot is an earlier ProposalData of the request. *)
Superseded(slot) == slot[2] # prop[slot[1]].gen

(* Mutant: it is not noticed that the proposal has been applied. *)
Seen_NotApplied(slot) == Superseded(slot)

Seen(slot) == Superseded(slot) \/ prop[slot[1]].seen

Entry(r, p) == [r |-> r, gen |-> p.gen, kind |-> p.kind, seq |-> p.seq, wts |-> p.wts,
                lai |-> p.lai, closed |-> p.closed]

(* Mutant: the lower bound of the tracker itself is closed. *)
ClosedTarget_AtBound(target, lb, exp) ==
  Backward(IF lb = EmptyTS THEN target ELSE Backward(target, lb), WallPrev(exp))

(* What allocateLAIAndClosedTimestampLocked tries to close: the target, if *)
(* nothing evaluates there and the lease lasts until then.                 *)
ClosedTarget(target, lb, exp) ==
  Backward(IF lb = EmptyTS THEN target ELSE Backward(target, FloorPrev(lb)), WallPrev(exp))

(* allocateLAIAndClosedTimestampLocked: the new assigned values, and the   *)
(* proposal with its lease index and closed timestamp; a lease request     *)
(* gets neither.                                                           *)
Allocated(p, lb) ==
  LET lai == assigned.lai + 1
      closed == Forward(assigned.closed, ClosedTarget(flush.target, lb, p.exp))
  IN IF p.kind = "lease"
       THEN [assigned |-> assigned, p |-> p]
       ELSE [assigned |-> [lai |-> lai, closed |-> closed],
             p |-> [p EXCEPT !.lai = lai, !.closed = closed]]

(* The answers LowerBound may give, in the wall times of the model. *)
LowerBounds(tr) == {lb \in {At(w, 0) : w \in 0 .. MaxWall} : Promise!SoundBound(lb, tr)}

NextSlot == [flush EXCEPT !.i = @ + 1]

(* The iteration rejects the proposal: it has already been applied, or it  *)
(* is an unsafe lease request.                                             *)
FlushRejects ==
  LET slot == arr.buf[flush.i]
      r == slot[1]
  IN /\ lock = "flush" /\ flush.i <= Len(arr.buf)
     /\ Seen(slot) \/ prop[r].kind = "lease"
     /\ IF Seen(slot)
          THEN UNCHANGED <<prop, tracked, proposals>>
          ELSE /\ prop' = [prop EXCEPT ![r].pc = "done", ![r].tok = FALSE]
               /\ tracked' = [tracked EXCEPT ![r] = Untracked]
               /\ proposals' = proposals \ {r}
     /\ flush' = NextSlot
     /\ UNCHANGED <<leaseVars, assigned, arr, updateCheck, raftVars, lock, refresh>>

(* reproposal := !p.tok.stillTracked() *)
Reproposal(p) == ~p.tok

(* The iteration registers the proposal, which leaves the tracker, is      *)
(* sequenced and joins the batch; a change of replicas is proposed by      *)
(* itself, after what precedes it. Raft's one error drops the proposals    *)
(* and is not returned: Lose.                                              *)
FlushProposes ==
  LET slot == arr.buf[flush.i]
      r == slot[1]
      left == [tracked EXCEPT ![r] = Untracked]
      p == [prop[r] EXCEPT !.pc = "registered", !.tok = FALSE]
  IN /\ lock = "flush" /\ flush.i <= Len(arr.buf)
     /\ ~Seen(slot)
     /\ proposals' = proposals \cup {r}
     /\ tracked' = left
     /\ \E lb \in LowerBounds(left) :
          LET a == IF Reproposal(prop[r]) THEN [assigned |-> assigned, p |-> p]
                                          ELSE Allocated(p, lb)
          IN /\ assigned' = a.assigned
             /\ prop' = [prop EXCEPT ![r] = a.p]
             /\ \/ /\ p.kind # "change"
                   /\ flush' = [NextSlot EXCEPT !.ents = Append(@, Entry(r, a.p))]
                   /\ UNCHANGED wire
                \/ /\ p.kind = "change"
                   /\ wire' = wire \o Append(flush.ents, Entry(r, a.p))
                   /\ flush' = [NextSlot EXCEPT !.ents = <<>>]
     /\ UNCHANGED <<leaseVars, arr, updateCheck, applying, destroyed, applications, lock, refresh>>

(* The end: the batch is proposed, the array is cleared and resized, and   *)
(* those who wait for a slot are woken. Who found the buffer full tries    *)
(* again.                                                                  *)
EndFlush ==
  LET p == IF flush.used > arr.size THEN Broadcast(prop) ELSE prop
  IN /\ lock = "flush" /\ flush.i > Len(arr.buf)
     /\ wire' = wire \o flush.ents
     /\ arr' = AdjustSize([arr EXCEPT !.buf = <<>>], flush.used)
     /\ prop' = IF flush.owner = Nobody THEN p ELSE [p EXCEPT ![flush.owner].pc = "insert"]
     /\ lock' = IF refresh # <<>> THEN "refresh" ELSE "free"
     /\ flush' = NoFlush
     /\ UNCHANGED <<leaseVars, assigned, tracked, proposals, updateCheck, applying, destroyed,
                    applications, refresh>>

-----------------------------------------------------------------------------
(* Raft, and reproposals in the order of the lease indexes *)

(* Entries are lost on the way to the leader, or dropped by raft. *)
Lose ==
  /\ \E i \in DOMAIN wire : wire' = RemoveAt(wire, i)
  /\ UNCHANGED <<leaseVars, bufVars, applying, destroyed, applications, lockVars>>

(* refreshProposalsLocked: all pending proposals, or those that have been  *)
(* pending for long.                                                       *)
RefreshProposals ==
  /\ lock = "free" /\ applying = Nobody /\ ~destroyed
  /\ Len(wire) + Cardinality(proposals) <= MaxWire
  /\ \E S \in (SUBSET proposals) \ {{}} :
       refresh' \in {s \in [1 .. Cardinality(S) -> S] :
                       /\ IsInjective(s)
                       /\ \A i, j \in DOMAIN s : i < j => prop[s[i]].lai <= prop[s[j]].lai}
  /\ lock' = "refresh"
  /\ UNCHANGED <<leaseVars, bufVars, raftVars, flush>>

(* ReinsertLocked, which flushes a full buffer first. *)
ReinsertLocked ==
  LET r == Head(refresh)
  IN /\ lock = "refresh"
     /\ IF arr.alloc < arr.size
          THEN /\ arr' = WithProposal(r)
               /\ updateCheck' = CheckScheduled
               /\ refresh' = Tail(refresh)
               /\ lock' = IF Tail(refresh) = <<>> THEN "free" ELSE "refresh"
               /\ UNCHANGED flush
          ELSE /\ arr' = [arr EXCEPT !.alloc = 0]
               /\ \E target \in Targets :
                    flush' = [NoFlush EXCEPT !.i = 1, !.used = arr.alloc + 1, !.target = target]
               /\ lock' = "flush"
               /\ UNCHANGED <<refresh, updateCheck>>
     /\ UNCHANGED <<leaseVars, assigned, prop, tracked, proposals, raftVars>>

-----------------------------------------------------------------------------
(* Application *)

(* leasePostApplyLocked: a lease that starts when the last one expires,    *)
(* and OnLeaseChangeLocked.                                                *)
NewLease(mine) ==
  /\ lease.seq < MaxLease /\ lease.exp.wall + LeaseLength <= MaxWall
  /\ lease' = [seq |-> lease.seq + 1, mine |-> mine, start |-> lease.exp,
               exp |-> At(lease.exp.wall + LeaseLength, 0)]
  /\ assigned' = IF mine
                   THEN [lai |-> IF assigned.lai < applied.lai THEN applied.lai ELSE assigned.lai,
                         closed |-> Forward(assigned.closed, applied.closed)]
                   ELSE [lai |-> 0, closed |-> EmptyTS]

(* CheckForcedErr: the command was proposed under the applied lease, and   *)
(* its lease index is new; a lease request has none.                       *)
CanApply(e) == e.seq = lease.seq /\ (e.kind = "lease" \/ applied.lai < e.lai)

(* retrieveLocalProposals: the proposal leaves the map the first time its  *)
(* entry comes up for application.                                         *)
Local(e) == e.r \in proposals /\ e.gen = prop[e.r].gen

(* An entry is applied, or rejected; a local one that was rejected for its *)
(* lease index will be proposed anew (prepareLocalResult).                 *)
Apply ==
  \E i \in DOMAIN wire :
    LET e == wire[i]
        retry == Local(e) /\ e.seq = lease.seq /\ ~CanApply(e)
    IN /\ lock = "free" /\ applying = Nobody /\ ~destroyed
       /\ wire' = RemoveAt(wire, i)
       /\ IF Local(e)
            THEN /\ proposals' = proposals \ {e.r}
                 /\ prop' = [prop EXCEPT ![e.r].seen = TRUE,
                                         ![e.r].pc = IF retry THEN "retry" ELSE "done"]
                 /\ applying' = IF retry THEN e.r ELSE Nobody
            ELSE UNCHANGED <<proposals, prop, applying>>
       /\ IF CanApply(e)
            THEN applications' = [applications EXCEPT ![e.r] = @ + 1]
            ELSE UNCHANGED applications
       /\ IF CanApply(e) /\ e.kind # "lease"
            THEN applied' = [lai |-> e.lai, closed |-> IF e.closed # EmptyTS THEN e.closed
                                                                           ELSE applied.closed]
            ELSE UNCHANGED applied
       /\ IF CanApply(e) /\ e.kind = "lease"
            THEN NewLease(TRUE)
            ELSE UNCHANGED <<lease, assigned>>
       /\ UNCHANGED <<published, tracked, arr, updateCheck, destroyed, lockVars>>

(* Another replica gets the lease, when the old one has expired. *)
OtherAcquiresLease ==
  /\ lock = "free" /\ applying = Nobody
  /\ NewLease(FALSE)
  /\ UNCHANGED <<applied, published, prop, tracked, arr, proposals, updateCheck, raftVars, lockVars>>

(* A command of another leaseholder applies. *)
OtherApplies ==
  /\ lock = "free" /\ applying = Nobody /\ ~lease.mine
  /\ applied.lai < Cardinality(Requests)
  /\ \E closed \in Targets :
       /\ LessEq(closed, WallPrev(lease.exp))
       /\ applied' = [lai |-> applied.lai + 1, closed |-> Forward(applied.closed, closed)]
  /\ UNCHANGED <<lease, published, bufVars, raftVars, lockVars>>

TooLow(p, minTS) == p.kind = "write" /\ LessEq(p.wts, minTS)

(* tryReproposeWithNewLeaseIndex: the command is tracked again, and a new  *)
(* ProposalData is inserted unless its write is not above what is closed.  *)
TryRepropose(r) ==
  LET minTS == NextTS(assigned.closed)
  IN /\ prop[r].pc = "retry" /\ lock = "free"
     /\ prop[r].gen < MaxGeneration
     /\ tracked' = [tracked EXCEPT ![r] = Forward(prop[r].wts, minTS)]
     /\ prop' = [prop EXCEPT ![r] =
          IF TooLow(@, minTS)
            THEN [@ EXCEPT !.pc = "fail"]
            ELSE [@ EXCEPT !.pc = "insert", !.gen = prop[r].gen + 1, !.tok = TRUE,
                           !.seen = FALSE, !.lai = 0, !.closed = EmptyTS]]
     /\ UNCHANGED <<leaseVars, assigned, arr, proposals, updateCheck, raftVars, lockVars>>

-----------------------------------------------------------------------------
(* The side transport, and the end of the replica *)

NothingInFlight == proposals = {} /\ applying = Nobody

(* BumpSideTransportClosed and MaybeForwardClosedLocked *)
BumpSideTransportClosed ==
  /\ lock = "free" /\ ~destroyed
  /\ lease.mine
  /\ NothingInFlight
  /\ \E target \in Targets, lb \in LowerBounds(tracked) :
       /\ ~Less(WallPrev(lease.exp), target)
       /\ lb = EmptyTS \/ Less(target, lb)
       /\ Less(assigned.closed, target)
       /\ assigned' = [assigned EXCEPT !.closed = target]
       /\ published' = Forward(published, target)
  /\ UNCHANGED <<lease, applied, prop, tracked, arr, proposals, updateCheck, raftVars, lockVars>>

Destroy ==
  /\ MayDestroy /\ lock = "free" /\ applying = Nobody /\ ~destroyed
  /\ destroyed' = TRUE
  /\ UNCHANGED <<leaseVars, bufVars, wire, applying, applications, lockVars>>

(* disconnectReplicationRaftMuLocked: the buffer is flushed without        *)
(* proposing, and all proposals are finished.                              *)
Disconnect ==
  LET finished == proposals \cup {slot[1] : slot \in Range(arr.buf)}
      woken == IF arr.alloc > arr.size THEN Broadcast(prop) ELSE prop
  IN /\ lock = "free" /\ applying = Nobody /\ destroyed
     /\ arr.alloc > 0 \/ proposals # {}
     /\ tracked' = [r \in Requests |-> IF r \in finished THEN Untracked ELSE tracked[r]]
     /\ prop' = [r \in Requests |-> IF r \in finished
                                      THEN [woken[r] EXCEPT !.pc = "done", !.tok = FALSE]
                                      ELSE woken[r]]
     /\ proposals' = {}
     /\ arr' = AdjustSize([arr EXCEPT !.buf = <<>>, !.alloc = 0], arr.alloc)
     /\ UNCHANGED <<leaseVars, assigned, updateCheck, raftVars, lockVars>>

Next ==
  \/ HandleRaftReady
  \/ FlushRejects
  \/ FlushProposes
  \/ EndFlush
  \/ Lose
  \/ RefreshProposals
  \/ ReinsertLocked
  \/ Apply
  \/ OtherAcquiresLease
  \/ OtherApplies
  \/ BumpSideTransportClosed
  \/ Destroy
  \/ Disconnect
  \/ \E r \in Requests :
       \/ CheckExecution(r)
       \/ TrackEvaluatingRequest(r)
       \/ Evaluate(r)
       \/ DoneIfNotMoved(r)
       \/ Insert(r)
       \/ FlushRLocked(r)
       \/ TryRepropose(r)

Spec == Init /\ [][Next]_vars

-----------------------------------------------------------------------------
(* Properties *)

(* assertNoWriteBelowClosedTimestamp and assertNoCmdClosedTimestamp-       *)
(* Regression of replica_app_batch.go hold for whatever applies next, in   *)
(* whichever order raft delivers it: it writes above everything that was   *)
(* closed, also by the side transport, and closes no less.                 *)
ClosedTimestampsHold ==
  \A e \in Range(wire) :
    CanApply(e) /\ e.kind # "lease" =>
      /\ e.kind = "write" => Less(applied.closed, e.wts) /\ Less(published, e.wts)
      /\ LessEq(applied.closed, e.closed)

(* A command applies at most once, however often it was reproposed under   *)
(* the same lease index and under new ones.                                *)
AppliesAtMostOnce == \A r \in Requests : applications[r] <= 1

(* Nobody stays in the tracker for good: what is done has left it.         *)
NoLeakedTokens == \A r \in Requests : prop[r].pc \in {"registered", "done"} => tracked[r] = Untracked

(* Who waits for a slot waits for a flush that will wake it: one that      *)
(* found the buffer overfull is under way, or the request that found it    *)
(* full has yet to flush it.                                               *)
WaitersAreWoken ==
  (\E r \in Requests : prop[r].pc = "wait") =>
    \/ lock = "flush" /\ flush.used > arr.size
    \/ arr.alloc > arr.size /\ \E r \in Requests : prop[r].pc = "flush"

(* What is in the buffer will be flushed: the update check of whoever took *)
(* the first slot is enough for all, however flushes and reproposals       *)
(* interleave with it.                                                     *)
BufferWillBeFlushed == arr.buf # <<>> => updateCheck \/ lock = "flush"

(* The buffer of allocateIndex and insertIntoArray is served: neither who  *)
(* waits for a slot nor what is in one is forgotten.                       *)
BufferIsServed == WaitersAreWoken /\ BufferWillBeFlushed
=============================================================================
