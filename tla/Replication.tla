---------------------------- MODULE Replication ----------------------------
(***************************************************************************)
(* Flow control from a raft leader to one follower: tracker/progress.go    *)
(* and the parts of raft.go that drive it (maybeSendAppend, stepLeader) or *)
(* answer it (handleAppendEntries, handleSnapshot), within one term. The   *)
(* channels lose messages and may reorder them; the leader compacts its    *)
(* log, so that the follower may need a snapshot. A log is the sequence of *)
(* the terms of its entries. The window of appends in flight is the        *)
(* sequence that Inflights implements.                                     *)
(***************************************************************************)
EXTENDS Integers, Sequences, FiniteSets, FiniteSetsExt

CONSTANTS
  Term,             \* the term of the leader
  Elections,        \* what the leader and the follower may have when it is elected
  Settings          \* the configurations and bounds, see conf

ASSUME SettingsAssumption ==
  \A s \in Settings : s.maxInflight \in Nat \ {0} /\ s.maxMsgEntries \in Nat \ {0}

(* At its election a leader keeps its log, from firstIndex on, its applied *)
(* and its commit index, and the follower its own; decided is what any     *)
(* peer knows as committed, and the follower may know more of it than the  *)
(* leader. What the terms before guarantee: the logs agree up to any entry *)
(* they have in common, and the leader has all that was decided.           *)
ASSUME ElectionsAssumption ==
  /\ Term \in Nat \ {0}
  /\ \A e \in Elections :
       /\ e.log \in Seq(1 .. Term - 1) /\ e.flog \in Seq(1 .. Term - 1)
       /\ e.first \in Nat \ {0} /\ e.applied \in Nat /\ e.commit \in Nat
       /\ e.decided \in Nat /\ e.fcommit \in Nat
       /\ e.first <= e.applied + 1 /\ e.applied <= e.commit /\ e.commit <= e.decided
       /\ e.decided <= Len(e.log)
       /\ e.fcommit <= e.decided /\ e.fcommit <= Len(e.flog)
       /\ \A i \in 1 .. e.fcommit : e.flog[i] = e.log[i]
       /\ \A i \in DOMAIN e.flog \cap DOMAIN e.log :
            e.flog[i] = e.log[i] => \A j \in 1 .. i : e.flog[j] = e.log[j]

VARIABLES
  conf,          \* the setting of this behaviour
  log,           \* the leader's log
  first,         \* raftLog.firstIndex of the leader
  applied,       \* RaftAppliedIndex of the leader's replica
  commit,        \* raftLog.committed of the leader
  pr,            \* the Progress of the follower
  toFollower,    \* appends under way
  toLeader,      \* the answers to appends under way
  beat,          \* the heartbeat, or the answer to one, that is under way
  snap,          \* the snapshot: "none", "sending", "applied", "failed"
  flog,          \* the follower's log, durable
  fcommit,       \* raftLog.committed of the follower, durable
  facc,          \* raftLog.accTerm of the follower
  decided,       \* what the group had committed when the leader was elected
  compactions, lost    \* bounds

leader == <<log, first, applied, commit, pr>>
follower == <<flog, fcommit, facc>>
bounds == <<compactions, lost>>
vars == <<conf, decided, leader, toFollower, toLeader, beat, snap, follower, bounds>>

MaxInflight == conf.maxInflight            \* Config.MaxInflightMsgs
MaxMsgEntries == conf.maxMsgEntries        \* Config.MaxSizePerMsg, in entries
CommitViaMsgApp == conf.commitViaMsgApp    \* advanceCommitViaMsgAppOnly
Reorders == conf.reorders                  \* whether the channels reorder messages
\* Bounds.
MaxLog == conf.maxLog                      \* the leader's log
MaxCompactions == conf.maxCompactions      \* log truncations at the leader
MaxLost == conf.maxLost                    \* messages and snapshots lost, and Unreachable reports
MaxChannel == conf.maxChannel              \* no heartbeat is sent above this many messages under way

TermAt(l, i) == IF i = 0 THEN 0 ELSE l[i]

-----------------------------------------------------------------------------
(* Progress. *)

ResetState(p, state) ==
  [p EXCEPT !.paused = FALSE, !.pending = 0, !.state = state, !.inflights = <<>>]

BecomeProbe(p) ==
  LET next == IF p.state = "Snapshot" THEN Max({p.match, p.pending}) + 1 ELSE p.match + 1
  IN [ResetState(p, "Probe") EXCEPT !.next = next, !.sentCommit = Min({@, next - 1})]

BecomeReplicate(p) == [ResetState(p, "Replicate") EXCEPT !.next = p.match + 1]

BecomeSnapshot(p, i) ==
  [ResetState(p, "Snapshot") EXCEPT !.pending = i, !.next = i + 1, !.sentCommit = i]

InflightsFull(p) == Len(p.inflights) = MaxInflight

(* FreeLE: the first n are acknowledged, and the next one is not. *)
FreeInflights(p, to) ==
  LET n == CHOOSE n \in 0 .. Len(p.inflights) :
             /\ \A k \in 1 .. n : p.inflights[k] <= to
             /\ n < Len(p.inflights) => p.inflights[n + 1] > to
  IN [p EXCEPT !.inflights = SubSeq(@, n + 1, Len(@))]

CanSendEntries(p, last) ==
  p.next <= last /\ (p.state = "Probe" \/ ~InflightsFull(p))

SentEntries(p, n) ==
  LET q == IF p.state = "Replicate" /\ n > 0
           THEN [p EXCEPT !.next = @ + n, !.inflights = Append(@, p.next + n - 1)] ELSE p
  IN [q EXCEPT !.paused = TRUE]

(* Mutant: nothing is sent while the window is full. *)
ShouldSendMsgApp_NoProbe(p, last, c) ==
  \/ p.state = "Probe" /\ ~p.paused
  \/ /\ p.state = "Replicate"
     /\ \/ CanSendEntries(p, last)
        \/ c > p.sentCommit /\ p.sentCommit < p.next - 1
        \/ CommitViaMsgApp /\ c > p.matchCommit /\ p.matchCommit + 1 < p.next /\ ~p.paused

ShouldSendMsgApp(p, last, c) ==
  \/ p.state = "Probe" /\ ~p.paused
  \/ /\ p.state = "Replicate"
     /\ \/ CanSendEntries(p, last)
        \/ p.match < last /\ ~p.paused
        \/ c > p.sentCommit /\ p.sentCommit < p.next - 1                \* CanBumpCommit
        \/ CommitViaMsgApp /\ c > p.matchCommit /\ p.matchCommit + 1 < p.next /\ ~p.paused

(* Mutant: Next is not raised with Match. *)
MaybeUpdate_KeepNext(p, n) == IF n > p.match THEN [p EXCEPT !.match = n] ELSE p

MaybeUpdate(p, n) ==
  IF n > p.match THEN [p EXCEPT !.match = n, !.next = Max({@, n + 1})] ELSE p

MaybeUpdateMatchCommit(p, c) ==
  IF c > p.matchCommit THEN [p EXCEPT !.matchCommit = c, !.sentCommit = Max({@, c})] ELSE p

(* The result of MaybeDecrTo, or p if the rejection is stale. *)
MaybeDecrTo(p, rejected, matchHint) ==
  LET to(next) == [p EXCEPT !.next = next, !.sentCommit = Min({@, next - 1})]
  IN CASE p.state = "Replicate" -> IF rejected <= p.match THEN p ELSE to(p.match + 1)
       [] p.state # "Replicate" /\ p.next - 1 # rejected -> p
       [] OTHER -> [to(Max({Min({rejected, matchHint + 1}), p.match + 1}))
                      EXCEPT !.paused = FALSE]

IsStaleRejection(p, rejected) ==
  IF p.state = "Replicate" THEN rejected <= p.match ELSE p.next - 1 # rejected

-----------------------------------------------------------------------------
(* The leader sends. s holds what that changes: the progress, the appends  *)
(* under way and the snapshot.                                             *)

maybeSendSnapshot(s) ==
  IF s.pr.active
  THEN [s EXCEPT !.pr = BecomeSnapshot(@, applied), !.snap = "sending"] ELSE s

maybeSendAppend(s) ==
  LET p == s.pr
      last == Len(s.log)
      n == IF CanSendEntries(p, last) THEN Min({MaxMsgEntries, last - p.next + 1}) ELSE 0
  IN CASE ~ShouldSendMsgApp(p, last, s.commit) -> s
       [] ShouldSendMsgApp(p, last, s.commit) /\ p.next < first -> maybeSendSnapshot(s)
       [] OTHER ->
            [s EXCEPT !.pr = [SentEntries(p, n) EXCEPT !.sentCommit = Max({@, s.commit})],
                      !.ch = Append(@, [index |-> p.next - 1, n |-> n, commit |-> s.commit,
                                        match |-> p.match])]

(* The loop that sends as many appends as it can: the window bounds it. (A *)
(* set around a state makes TLC compute the state once.)                   *)
SendAll(s) ==
  LET sent[k \in 0 .. MaxInflight + 1] ==
        IF k = 0 THEN s ELSE CHOOSE u \in {maybeSendAppend(v) : v \in {sent[k - 1]}} : TRUE
  IN sent[MaxInflight + 1]

Now == [pr |-> pr, ch |-> toFollower, snap |-> snap, log |-> log, commit |-> commit]

(* s is the leader's new state; the appends it sent are under way. *)
LeaderTakes(new) ==
  \E s \in {new} :
    /\ pr' = s.pr
    /\ toFollower' = s.ch
    /\ snap' = s.snap
    /\ log' = s.log
    /\ commit' = s.commit

(* raftLog.findConflictByTerm; terms below the first index are unknown. *)
findConflictByTerm(l, known, index, term) ==
  LET guesses == {i \in 1 .. index : i < known \/ l[i] <= term}
      i == IF guesses = {} THEN 0 ELSE Max(guesses)
  IN [index |-> i, term |-> IF i < known THEN 0 ELSE TermAt(l, i)]

RejectedAt(s, m) ==
  LET hint == IF m.logTerm > 0
              THEN findConflictByTerm(log, first - 1, m.hint, m.logTerm).index ELSE m.hint
      p == MaybeDecrTo(s.pr, m.index, hint)
  IN IF IsStaleRejection(s.pr, m.index) THEN s
     ELSE maybeSendAppend([s EXCEPT !.pr = IF p.state = "Replicate" THEN BecomeProbe(p) ELSE p])

(* Another voter makes a quorum with the leader and the follower, whose    *)
(* acknowledgement alone therefore commits.                                *)
AcceptedAt(s, m) ==
  LET old == s.pr
      p == MaybeUpdate(old, m.index)
      q == CASE p.state = "Probe" -> BecomeReplicate(p)
             [] p.state = "Snapshot" /\ p.match + 1 >= first -> BecomeReplicate(BecomeProbe(p))
             [] p.state = "Replicate" -> FreeInflights(p, m.index)
             [] OTHER -> p
      c == IF TermAt(log, p.match) = Term THEN Max({s.commit, p.match}) ELSE s.commit
      t == [s EXCEPT !.pr = q, !.commit = c]
  IN IF m.index > old.match \/ (m.index = old.match /\ old.state = "Probe")
     THEN SendAll(IF c > s.commit THEN maybeSendAppend(t) ELSE t)
     ELSE s

-----------------------------------------------------------------------------
(* Channels. *)

Positions(ch) == IF Reorders \/ ch = <<>> THEN DOMAIN ch ELSE {1}

Without(ch, k) == SubSeq(ch, 1, k - 1) \o SubSeq(ch, k + 1, Len(ch))

SnapStatusAt(p, ok) ==
  [BecomeProbe([p EXCEPT !.pending = IF ok THEN @ ELSE 0]) EXCEPT !.paused = TRUE]

-----------------------------------------------------------------------------
(* Actions of the leader. *)

(* MsgProp *)
Propose ==
  /\ Len(log) < MaxLog
  /\ LeaderTakes(maybeSendAppend([Now EXCEPT !.log = Append(@, Term)]))
  /\ UNCHANGED <<first, applied, toLeader, beat, follower, bounds>>

(* Another voter acknowledged up to i: maybeCommit, bcastAppend. *)
OthersAcknowledge(i) ==
  /\ i > commit
  /\ log[i] = Term
  /\ LeaderTakes(maybeSendAppend([Now EXCEPT !.commit = i]))
  /\ UNCHANGED <<first, applied, toLeader, beat, follower, bounds>>

(* The replica applies the next entry that is committed. *)
Apply ==
  /\ applied < commit
  /\ applied' = applied + 1
  /\ UNCHANGED <<log, first, commit, pr, toFollower, toLeader, beat, snap, follower, bounds>>

(* The log is truncated below what is applied. *)
Compact(i) ==
  /\ compactions < MaxCompactions
  /\ first < i /\ i <= applied + 1
  /\ first' = i
  /\ compactions' = compactions + 1
  /\ UNCHANGED <<log, applied, commit, pr, toFollower, toLeader, beat, snap, follower, lost>>

(* tickHeartbeat: MsgBeat *)
SendHeartbeat ==
  /\ beat.type = "none"
  /\ Len(toFollower) + Len(toLeader) < MaxChannel
  /\ LET c == IF CommitViaMsgApp THEN 0 ELSE Min({pr.match, commit})
     IN /\ beat' = [type |-> "Heartbeat", commit |-> c, match |-> pr.match]
        /\ pr' = [pr EXCEPT !.sentCommit = Max({@, c})]
  /\ UNCHANGED <<log, first, applied, commit, toFollower, toLeader, snap, follower, bounds>>

(* MsgCheckQuorum marks the followers inactive until they are heard of. *)
MarkInactive ==
  /\ pr.active
  /\ pr' = [pr EXCEPT !.active = FALSE]
  /\ UNCHANGED <<log, first, applied, commit, toFollower, toLeader, beat, snap, follower, bounds>>

ReceiveHeartbeatResp ==
  /\ beat.type = "HeartbeatResp"
  /\ beat' = [type |-> "none"]
  /\ LeaderTakes(maybeSendAppend([Now EXCEPT !.pr.active = TRUE, !.pr.paused = FALSE]))
  /\ UNCHANGED <<first, applied, toLeader, follower, bounds>>

ReceiveAppResp(k) ==
  LET m == toLeader[k]
      s == [Now EXCEPT !.pr = MaybeUpdateMatchCommit([@ EXCEPT !.active = TRUE], m.commit)]
  IN /\ LeaderTakes(IF m.reject THEN RejectedAt(s, m) ELSE AcceptedAt(s, m))
     /\ toLeader' = Without(toLeader, k)
     /\ UNCHANGED <<first, applied, beat, follower, bounds>>

(* MsgSnapStatus: sendSnapshotUsingDelegate always reports how it ended. *)
ReportSnapshot ==
  /\ snap \in {"applied", "failed"}
  /\ snap' = "none"
  /\ pr' = IF pr.state = "Snapshot" THEN SnapStatusAt(pr, snap = "applied") ELSE pr
  /\ UNCHANGED <<log, first, applied, commit, toFollower, toLeader, beat, follower, bounds>>

(* MsgUnreachable: a message could not be sent. *)
Unreachable ==
  /\ lost < MaxLost
  /\ lost' = lost + 1
  /\ pr.state = "Replicate"
  /\ pr' = BecomeProbe(pr)
  /\ UNCHANGED <<log, first, applied, commit, toFollower, toLeader, beat, snap, follower, compactions>>

-----------------------------------------------------------------------------
(* Actions of the follower. *)

Accept(index) == [index |-> index, commit |-> fcommit', reject |-> FALSE, hint |-> 0, logTerm |-> 0]

(* Mutant: the append is taken wherever the log ends. *)
Fits_Any(m) == m.index <= Len(flog)

(* raftLog.match: m continues the follower's log. *)
Fits(m) == m.index <= Len(flog) /\ TermAt(flog, m.index) = TermAt(log, m.index)

ReceiveApp(k) ==
  LET m == toFollower[k]
      lastIndex == m.index + m.n
      matching == {i \in m.index + 1 .. lastIndex : i <= Len(flog) /\ flog[i] = log[i]}
      ok == matching = m.index + 1 .. lastIndex
      hint == findConflictByTerm(flog, 0, Min({m.index, Len(flog)}), TermAt(log, m.index))
  IN /\ toFollower' = Without(toFollower, k)
     /\ \/ /\ m.index < fcommit
           /\ UNCHANGED <<flog, fcommit, facc>>
           /\ toLeader' = Append(toLeader, Accept(fcommit))
        \/ /\ m.index >= fcommit /\ Fits(m)
           /\ flog' = IF ok THEN flog
                    ELSE SubSeq(flog, 1, m.index) \o SubSeq(log, m.index + 1, lastIndex)
           /\ facc' = IF ok THEN facc ELSE Term
           /\ fcommit' = Max({fcommit, Min({m.commit, lastIndex})})
           /\ toLeader' = Append(toLeader, Accept(lastIndex))
        \/ /\ m.index >= fcommit /\ ~Fits(m)
           /\ UNCHANGED <<flog, fcommit, facc>>
           /\ toLeader' = Append(toLeader,
                [index |-> m.index, commit |-> fcommit, reject |-> TRUE, hint |-> hint.index,
                 logTerm |-> hint.term])
     /\ UNCHANGED <<leader, beat, snap, bounds>>

ReceiveHeartbeat ==
  /\ beat.type = "Heartbeat"
  /\ fcommit' = IF facc = Term THEN Max({fcommit, Min({beat.commit, Len(flog)})}) ELSE fcommit
  /\ beat' = [type |-> "HeartbeatResp"]
  /\ UNCHANGED <<leader, toFollower, toLeader, snap, flog, facc, bounds>>

(* The snapshot of whoever sends it is at an index i that peer applied,    *)
(* maybe ahead of the leader, from which the log can continue; then the    *)
(* follower answers the leader.                                            *)
ReceiveSnapshot(i) ==
  /\ snap = "sending"
  /\ first - 1 <= i /\ i <= Max({commit, decided})
  /\ snap' = "applied"
  /\ \/ /\ i <= fcommit
        /\ UNCHANGED <<flog, fcommit, facc>>
     \/ /\ i > fcommit /\ i <= Len(flog) /\ flog[i] = log[i]
        /\ fcommit' = i
        /\ UNCHANGED <<flog, facc>>
     \/ /\ i > fcommit /\ ~(i <= Len(flog) /\ flog[i] = log[i])
        /\ flog' = SubSeq(log, 1, i)
        /\ fcommit' = i
        /\ facc' = Term
  /\ toLeader' = Append(toLeader, Accept(fcommit'))
  /\ UNCHANGED <<leader, toFollower, beat, bounds>>

(* accTerm is recovered from the last entry. *)
FollowerRestarts ==
  /\ facc' = TermAt(flog, Len(flog))
  /\ UNCHANGED <<leader, toFollower, toLeader, beat, snap, flog, fcommit, bounds>>

-----------------------------------------------------------------------------
(* What is lost. *)

Lose ==
  /\ lost < MaxLost
  /\ lost' = lost + 1
  /\ \/ /\ \E k \in DOMAIN toFollower : toFollower' = Without(toFollower, k)
        /\ UNCHANGED <<toLeader, beat, snap>>
     \/ /\ \E k \in DOMAIN toLeader : toLeader' = Without(toLeader, k)
        /\ UNCHANGED <<toFollower, beat, snap>>
     \/ /\ beat.type # "none"
        /\ beat' = [type |-> "none"]
        /\ UNCHANGED <<toFollower, toLeader, snap>>
     \/ /\ snap \in {"sending", "applied"}        \* or only the news of it
        /\ snap' = "failed"
        /\ UNCHANGED <<toFollower, toLeader, beat>>
  /\ UNCHANGED <<leader, follower, compactions>>

(* becomeLeader: reset keeps the commit index and forgets the progress, the *)
(* empty entry is appended and the first probe sent.                       *)
Init ==
  /\ conf \in Settings
  /\ \E e \in Elections :
       /\ log = Append(e.log, Term)
       /\ first = e.first /\ applied = e.applied /\ commit = e.commit /\ decided = e.decided
       /\ flog = e.flog /\ fcommit = e.fcommit
       /\ pr = [match |-> 0, next |-> Len(e.log) + 1, state |-> "Probe", paused |-> TRUE,
                active |-> FALSE, pending |-> 0, sentCommit |-> e.commit, matchCommit |-> 0,
                inflights |-> <<>>]
       /\ toFollower = <<[index |-> Len(e.log), n |-> 1, commit |-> e.commit, match |-> 0]>>
  /\ facc = TermAt(flog, Len(flog))
  /\ toLeader = <<>>
  /\ beat = [type |-> "none"]
  /\ snap = "none"
  /\ compactions = 0 /\ lost = 0

Next ==
  /\ UNCHANGED <<conf, decided>>
  /\ \/ Propose
     \/ Apply
     \/ \E i \in DOMAIN log : OthersAcknowledge(i) \/ ReceiveSnapshot(i)
     \/ \E i \in 1 .. MaxLog + 1 : Compact(i)
     \/ SendHeartbeat \/ MarkInactive \/ ReceiveHeartbeatResp
     \/ \E k \in Positions(toLeader) : ReceiveAppResp(k)
     \/ ReportSnapshot \/ Unreachable
     \/ \E k \in Positions(toFollower) : ReceiveApp(k)
     \/ ReceiveHeartbeat
     \/ FollowerRestarts
     \/ Lose

Spec == Init /\ [][Next]_vars

-----------------------------------------------------------------------------
(* Properties. *)

(* Match is durable in the follower's log and equal to the leader's, and   *)
(* so is what the follower has committed, MatchCommit included, also where *)
(* it is ahead of the leader: the leader never counts what the follower    *)
(* lacks, and checkMatch never panics at the follower, whatever is lost or *)
(* reordered.                                                              *)
MatchIsDurable ==
  /\ pr.match <= Len(flog)
  /\ \A i \in 1 .. pr.match : flog[i] = log[i]
  /\ pr.matchCommit <= fcommit
  /\ fcommit <= Len(flog) /\ fcommit <= Len(log)
  /\ \A i \in 1 .. fcommit : flog[i] = log[i]
  /\ \A k \in DOMAIN toFollower : toFollower[k].match <= Len(flog)
  /\ beat.type = "Heartbeat" => beat.match <= Len(flog)

(* "Invariant: 0 <= Match < Next" and the window of appends in flight lies *)
(* between them, in order, is never larger than allowed (Inflights.Add     *)
(* panics) and is empty unless replicating.                                *)
WindowAhead ==
  /\ pr.match < pr.next /\ pr.next <= Len(log) + 1
  /\ \A k \in DOMAIN pr.inflights : pr.match < pr.inflights[k] /\ pr.inflights[k] < pr.next
  /\ \A j, k \in DOMAIN pr.inflights : j < k => pr.inflights[j] < pr.inflights[k]
  /\ Len(pr.inflights) <= MaxInflight
  /\ pr.state # "Replicate" => pr.inflights = <<>>

(* Replication never stalls: when nothing more is proposed or lost, the    *)
(* follower gets the whole log and the commit index, whatever was lost and *)
(* whichever state the progress was in.                                    *)
CatchesUp == <>[](flog = log /\ fcommit = commit /\ pr.match = Len(log))
=============================================================================
