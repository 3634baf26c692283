-------------------------------- MODULE Raft --------------------------------
(***************************************************************************)
(* The raft group of a range: pkg/raft/raft.go with its log (log.go,       *)
(* log_unstable.go) as kvserver runs it: elections with and without        *)
(* pre-vote, log replication and commit, leader transfer, fortification by *)
(* Store Liveness, asynchronous storage writes, crashes.                   *)
(*                                                                         *)
(* A handler is an operator from the peer's record to its new record: r.out*)
(* collects the messages that go out at once (raft.msgs), r.after those    *)
(* that wait for the storage write (raft.msgsAfterAppend), r.bad the       *)
(* assertions that failed, which stop the process. The network holds every *)
(* message ever sent: any of them may arrive late, again, or never. Not in *)
(* this module: flow control (Progress.Next), snapshots and log            *)
(* compaction, configuration changes, learners.                            *)
(***************************************************************************)
EXTENDS Integers, Sequences, FiniteSets, SequencesExt

CONSTANTS
  Peers,              \* the voters of the range
  None,               \* raft.None: no peer
  Values,             \* what may be proposed
  Noop,               \* the empty entry of a new leader
  Settings,           \* the configurations and bounds, see conf
  Lost(_, _)          \* the messages that never arrive with a setting of this name

ASSUME NoneAssumption == None \notin Peers
ASSUME PeersAssumption == IsFiniteSet(Peers)

VARIABLES
  conf,       \* the setting of this behaviour
  raft,       \* raft[p]: the volatile state of peer p
  stable,     \* stable[p]: its HardState and log on disk
  msgs,       \* the messages sent so far
  support,    \* support[p][q]: Store Liveness support of p's store for q's
  restarts,   \* bound: how many restarts there were
  elected,    \* history: <<term, peer>> of every election won
  ledger,     \* history: ledger[t], the log of the leader of term t
  decided,    \* history: the longest committed log
  pledges,    \* history: the votes and fortifications that were sent
  failed      \* history: the assertions that failed

vars == <<conf, raft, stable, msgs, support, restarts, elected, ledger, decided, pledges,
          failed>>

PreVote == conf.preVote                    \* Config.PreVote
Fortify == conf.fortify                    \* StoreLiveness.SupportFromEnabled
CommitViaMsgApp == conf.commitViaMsgApp    \* advanceCommitViaMsgAppOnly
NonBlockingSync == conf.nonBlockingSync    \* kv.raft_log.non_blocking_synchronization.enabled
MayTransfer == conf.mayTransfer            \* whether leadership is transferred at all
MayStepDown == conf.mayStepDown            \* whether leaders lose touch with their quorum
MayForget == conf.mayForget                \* whether followers are told to forget their leader
\* Bounds.
MayCampaign == conf.mayCampaign            \* a sequence: the peers that may campaign for each term
MaxMsgEntries == conf.maxMsgEntries        \* Config.MaxSizePerMsg, in entries
MaxLog == conf.maxLog                      \* proposals are made below this length
MaxRestarts == conf.maxRestarts            \* restarts of all peers together
MaxEpoch == conf.maxEpoch                  \* Store Liveness epochs
Unsteady == conf.unsteady                  \* <<p, q>>: p's support for q's store changes

MaxTerm == Len(MayCampaign)

TypeOfResponse == {"VoteResp", "PreVoteResp", "AppResp", "FortifyLeaderResp"}

FromLeader == {"App", "Heartbeat", "FortifyLeader", "TimeoutNow"}

IsQuorum(S) == 2 * Cardinality(S) > Cardinality(Peers)

LessOf(a, b) == IF a < b THEN a ELSE b

-----------------------------------------------------------------------------
(* The log. *)

(* raftLog.term; index 0 is before the first entry. *)
TermAt(log, i) == IF i = 0 THEN 0 ELSE log[i].term

matchTerm(log, i, t) == i <= Len(log) /\ TermAt(log, i) = t

LastTerm(log) == TermAt(log, Len(log))

isUpToDate(log, t, i) ==
  \/ t > LastTerm(log)
  \/ t = LastTerm(log) /\ i >= Len(log)

(* raftLog.match: the last index of the slice m that the log holds. *)
MatchUpTo(log, m) ==
  CHOOSE k \in 0 .. Len(m.entries) :
    /\ \A j \in 1 .. k : matchTerm(log, m.index + j, m.entries[j].term)
    /\ k < Len(m.entries) => ~matchTerm(log, m.index + k + 1, m.entries[k + 1].term)

Fail(r, what) == [r EXCEPT !.bad = @ \cup {what}]

(* unstable.truncateAndAppend of m's entries behind the k-th. *)
CanTruncateAndAppend(r, m, k) ==
  /\ m.term >= r.acc
  /\ \/ m.index + k = Len(r.log)
     \/ m.index + k < Len(r.log) /\ m.term # r.acc

commitTo(r, i) ==
  IF r.committed >= i THEN r
  ELSE IF Len(r.log) < i THEN Fail(r, "tocommit is out of range")
  ELSE [r EXCEPT !.committed = i]

(* Mutant: no message waits for the storage write it depends on. *)
send_AtOnce(r, m) == [r EXCEPT !.out = @ \cup {m}]

send(r, m) ==
  IF m.type \in TypeOfResponse THEN [r EXCEPT !.after = @ \cup {m}]
                               ELSE [r EXCEPT !.out = @ \cup {m}]

-----------------------------------------------------------------------------
(* Fortification. *)

(* replicaRLockedStoreLiveness.SupportFor: epoch 0 unless the store is     *)
(* supported now.                                                          *)
SupportFor(p, q) == IF support[p][q].live THEN support[p][q].epoch ELSE 0

supportingFortifiedLeader(p, r) ==
  /\ r.leadEpoch # 0
  /\ r.lead # None
  /\ SupportFor(p, r.lead) = r.leadEpoch

(* The assertions that supportingFortifiedLeader makes on the way. *)
AskSupport(p, r) ==
  CASE r.leadEpoch = 0 -> r
    [] r.leadEpoch # 0 /\ r.lead = None ->
         Fail(r, "lead epoch is set but leader is not")
    [] OTHER -> IF SupportFor(p, r.lead) >= r.leadEpoch THEN r
                ELSE Fail(r, "epochs in store liveness shouldn't regress")

-----------------------------------------------------------------------------
(* Changes of role. *)

reset(p, r, term) ==
  LET s == IF r.term = term THEN r
           ELSE LET a == AskSupport(p, r)
                    b == IF supportingFortifiedLeader(p, r) /\ r.lead # p
                         THEN Fail(a, "should not be changing terms when supporting a fortified leader")
                         ELSE a
                IN [b EXCEPT !.term = term, !.vote = None, !.lead = None, !.leadEpoch = 0]
  IN [s EXCEPT !.leadTransferee = None, !.votes = [yes |-> {}, no |-> {}],
               !.match = [q \in Peers |-> IF q = p THEN Len(r.log) ELSE 0]]

becomeFollower(p, r, term, lead) ==
  [reset(p, r, term) EXCEPT !.lead = lead, !.state = "Follower"]

becomeCandidate(p, r) ==
  [reset(p, r, r.term + 1) EXCEPT !.vote = p, !.state = "Candidate"]

becomePreCandidate(p, r) ==
  LET a == AskSupport(p, r)
      b == IF supportingFortifiedLeader(p, r) /\ r.lead # p
           THEN Fail(a, "should not be supporting a fortified leader when becoming pre-candidate")
           ELSE a
  IN [b EXCEPT !.votes = [yes |-> {}, no |-> {}], !.lead = None, !.leadEpoch = 0,
               !.state = "PreCandidate"]

appendEntry(p, r, v) ==
  LET s == [r EXCEPT !.log = Append(@, [term |-> r.term, val |-> v]), !.acc = r.term]
  IN send(s, [type |-> "AppResp", from |-> p, to |-> p, term |-> r.term,
              index |-> Len(s.log)])

(* bcastFortify: the leader supports itself without a message. *)
bcastFortify(p, r) ==
  IF ~Fortify THEN r
  ELSE [r EXCEPT !.leadEpoch = IF SupportFor(p, p) # 0 THEN SupportFor(p, p) ELSE @,
                 !.out = @ \cup {[type |-> "FortifyLeader", from |-> p, to |-> q,
                                  term |-> r.term] : q \in Peers \ {p}}]

becomeLeader(p, r) ==
  appendEntry(p, [reset(p, r, r.term) EXCEPT !.lead = p, !.state = "Leader"], Noop)

campaign(p, r, t) ==
  LET s == IF t = "PreElection" THEN becomePreCandidate(p, r) ELSE becomeCandidate(p, r)
      kind == IF t = "PreElection" THEN "PreVote" ELSE "Vote"
      resp == IF t = "PreElection" THEN "PreVoteResp" ELSE "VoteResp"
      term == IF t = "PreElection" THEN s.term + 1 ELSE s.term
  IN [s EXCEPT
       !.after = @ \cup {[type |-> resp, from |-> p, to |-> p, term |-> term,
                          reject |-> FALSE]},
       !.out = @ \cup {[type |-> kind, from |-> p, to |-> q, term |-> term,
                        index |-> Len(s.log), logTerm |-> LastTerm(s.log),
                        force |-> t = "Transfer"] : q \in Peers \ {p}}]

hup(p, r, t) ==
  IF r.state = "Leader" THEN r
  ELSE LET a == AskSupport(p, r)
       IN IF supportingFortifiedLeader(p, r) /\ r.lead # p THEN a ELSE campaign(p, a, t)

-----------------------------------------------------------------------------
(* Messages. *)

AppRespOf(p, r, m, i) ==
  [type |-> "AppResp", from |-> p, to |-> m.from, term |-> r.term, index |-> i]

(* The log is not shorter than the leader believes it to be.               *)
checkMatch(r, m) == m.match <= Len(r.log)

(* Mutant: commits up to the end of the log, also behind what this append matched. *)
AppCommit_Log(log, m) == LessOf(m.commit, Len(log))

(* What an append that left the given log commits there. *)
AppCommit(log, m) == LessOf(m.commit, m.index + Len(m.entries))

handleAppendEntries(p, r, m) ==
  LET k == MatchUpTo(r.log, m)
      accepted ==
        IF k = Len(m.entries) THEN r
        ELSE [r EXCEPT !.log = SubSeq(@, 1, m.index + k)
                                 \o SubSeq(m.entries, k + 1, Len(m.entries)),
                       !.acc = m.term]
  IN CASE ~checkMatch(r, m) -> Fail(r, "match is out of range")
       [] checkMatch(r, m) /\ m.index < r.committed ->
            send(r, AppRespOf(p, r, m, r.committed))
       [] checkMatch(r, m) /\ m.index >= r.committed /\ matchTerm(r.log, m.index, m.logTerm)
            /\ k < Len(m.entries) /\ m.index + k + 1 <= r.committed ->
            Fail(r, "entry is already committed")
       [] checkMatch(r, m) /\ m.index >= r.committed /\ matchTerm(r.log, m.index, m.logTerm)
            /\ (k = Len(m.entries) \/ (m.index + k + 1 > r.committed
                                       /\ CanTruncateAndAppend(r, m, k))) ->
            send(commitTo(accepted, AppCommit(accepted.log, m)),
                 AppRespOf(p, r, m, m.index + Len(m.entries)))
       [] OTHER -> r

handleHeartbeat(p, r, m) ==
  LET s == IF m.term = r.acc THEN commitTo(r, LessOf(m.commit, Len(r.log))) ELSE r
  IN IF checkMatch(r, m)
     THEN send(s, [type |-> "HeartbeatResp", from |-> p, to |-> m.from, term |-> r.term])
     ELSE Fail(r, "match is out of range")

handleFortify(p, r, m) ==
  LET epoch == SupportFor(p, r.lead)
      s == IF epoch = 0 THEN r ELSE [r EXCEPT !.leadEpoch = epoch]
  IN send(s, [type |-> "FortifyLeaderResp", from |-> p, to |-> m.from, term |-> r.term,
              epoch |-> epoch, reject |-> epoch = 0])

(* Mutant: commits what a quorum acknowledged, of whatever term. *)
maybeCommit_AnyTerm(r) ==
  LET quorums == {i \in 1 .. Len(r.log) : IsQuorum({q \in Peers : r.match[q] >= i})}
      index == IF quorums = {} THEN 0 ELSE CHOOSE i \in quorums : \A j \in quorums : j <= i
  IN IF index > r.committed THEN commitTo(r, index) ELSE r

(* maybeCommit: what a quorum acknowledged, if it is of the leader's term. *)
maybeCommit(r) ==
  LET quorums == {i \in 1 .. Len(r.log) : IsQuorum({q \in Peers : r.match[q] >= i})}
      index == IF quorums = {} THEN 0 ELSE CHOOSE i \in quorums : \A j \in quorums : j <= i
  IN IF index > r.committed /\ TermAt(r.log, index) = r.term THEN commitTo(r, index) ELSE r

transferLeader(p, r, to) ==
  becomeFollower(p, send(r, [type |-> "TimeoutNow", from |-> p, to |-> to, term |-> r.term]),
                 r.term, r.lead)

(* Mutant: hands over to a peer that is still behind. *)
AppRespAtLeader_Early(p, r, m) ==
  IF m.index <= r.match[m.from] THEN r
  ELSE LET s == maybeCommit([r EXCEPT !.match[m.from] = m.index])
       IN IF m.from = s.leadTransferee THEN transferLeader(p, s, m.from) ELSE s

(* The answer to an append: Match and the commit index; then the leader    *)
(* hands over if it waited for this peer to catch up.                      *)
AppRespAtLeader(p, r, m) ==
  IF m.index <= r.match[m.from] THEN r
  ELSE LET s == maybeCommit([r EXCEPT !.match[m.from] = m.index])
       IN IF m.from = s.leadTransferee /\ s.match[m.from] = Len(s.log)
          THEN transferLeader(p, s, m.from) ELSE s

stepLeader(p, r, m) == IF m.type = "AppResp" THEN AppRespAtLeader(p, r, m) ELSE r

(* What becomes of a message of the leader of this term. *)
FollowLeader(p, r, m) ==
  CASE m.type = "App" -> handleAppendEntries(p, r, m)
    [] m.type = "Heartbeat" -> handleHeartbeat(p, r, m)
    [] m.type = "FortifyLeader" -> handleFortify(p, r, m)

(* poll: the first answer of a peer counts. *)
poll(r, m) ==
  CASE m.from \in r.votes.yes \cup r.votes.no -> r
    [] m.from \notin r.votes.yes \cup r.votes.no /\ ~m.reject ->
         [r EXCEPT !.votes.yes = @ \cup {m.from}]
    [] OTHER -> [r EXCEPT !.votes.no = @ \cup {m.from}]

stepCandidate(p, r, m) ==
  LET myVoteResp == IF r.state = "PreCandidate" THEN "PreVoteResp" ELSE "VoteResp"
      s == poll(r, m)
  IN CASE m.type \in FromLeader \ {"TimeoutNow"} ->
            FollowLeader(p, becomeFollower(p, r, m.term, m.from), m)
       [] m.type = myVoteResp ->
            CASE IsQuorum(s.votes.yes) ->
                   IF r.state = "PreCandidate" THEN campaign(p, s, "Election")
                   ELSE bcastFortify(p, becomeLeader(p, s))
              [] ~IsQuorum(s.votes.yes) /\ ~IsQuorum(Peers \ s.votes.no) ->
                   becomeFollower(p, s, s.term, s.lead)
              [] OTHER -> s
       [] OTHER -> r

stepFollower(p, r, m) ==
  CASE m.type \in FromLeader \ {"TimeoutNow"} -> FollowLeader(p, [r EXCEPT !.lead = m.from], m)
    [] m.type = "TimeoutNow" -> hup(p, [r EXCEPT !.leadEpoch = 0], "Transfer")
    [] OTHER -> r

(* Mutant: a peer forgets that it voted. *)
stepVote_Twice(p, r, m) ==
  LET canVote == r.lead = None \/ r.vote = m.from
      resp == IF m.type = "Vote" THEN "VoteResp" ELSE "PreVoteResp"
      grant == canVote /\ isUpToDate(r.log, m.logTerm, m.index)
  IN send([r EXCEPT !.vote = IF grant /\ m.type = "Vote" THEN m.from ELSE @],
          [type |-> resp, from |-> p, to |-> m.from,
           term |-> IF grant THEN m.term ELSE r.term, reject |-> ~grant])

(* MsgVote and MsgPreVote. *)
stepVote(p, r, m) ==
  LET canVote == \/ r.vote = m.from
                 \/ r.vote = None /\ r.lead = None
                 \/ m.type = "PreVote" /\ m.term > r.term
      resp == IF m.type = "Vote" THEN "VoteResp" ELSE "PreVoteResp"
      grant == canVote /\ isUpToDate(r.log, m.logTerm, m.index)
  IN send([r EXCEPT !.vote = IF grant /\ m.type = "Vote" THEN m.from ELSE @],
          [type |-> resp, from |-> p, to |-> m.from,
           term |-> IF grant THEN m.term ELSE r.term, reject |-> ~grant])

(* Mutant: fortification does not keep a peer from voting. *)
IgnoresVote_NotFortified(p, r, m, inLease) ==
  m.type \in {"Vote", "PreVote"} /\ ~m.force /\ inLease

(* The votes of a later term that a peer does not even look at; inLease:   *)
(* it heard from its leader within the election timeout.                   *)
IgnoresVote(p, r, m, inLease) ==
  /\ m.type \in {"Vote", "PreVote"}
  /\ ~m.force
  /\ \/ inLease
     \/ supportingFortifiedLeader(p, r) /\ r.lead # m.from

(* The peer's state once it has taken in the term of a later message. *)
TakeTerm(p, r, m) ==
  CASE m.type = "PreVote" -> [AskSupport(p, r) EXCEPT !.leadEpoch = 0]
    [] m.type = "Vote" ->
         becomeFollower(p, [AskSupport(p, r) EXCEPT !.leadEpoch = 0], m.term, None)
    [] m.type = "PreVoteResp" /\ ~m.reject -> r
    [] m.type \in FromLeader -> becomeFollower(p, [r EXCEPT !.leadEpoch = 0], m.term, m.from)
    [] OTHER -> becomeFollower(p, r, m.term, None)

StepAtTerm(p, r, m) ==
  CASE m.type \in {"Vote", "PreVote"} -> stepVote(p, r, m)
    [] m.type \notin {"Vote", "PreVote"} /\ r.state = "Leader" -> stepLeader(p, r, m)
    [] m.type \notin {"Vote", "PreVote"} /\ r.state = "Follower" -> stepFollower(p, r, m)
    [] OTHER -> stepCandidate(p, r, m)

Step(p, r, m, inLease) ==
  CASE m.term > r.term /\ IgnoresVote(p, r, m, inLease) -> AskSupport(p, r)
    [] m.term > r.term /\ ~IgnoresVote(p, r, m, inLease) ->
         StepAtTerm(p, TakeTerm(p, r, m), m)
    [] m.term < r.term /\ m.type \in {"App", "Heartbeat"} ->
         send(r, AppRespOf(p, r, m, 0))
    [] m.term < r.term /\ m.type = "PreVote" ->
         send(r, [type |-> "PreVoteResp", from |-> p, to |-> m.from, term |-> r.term,
                  reject |-> TRUE])
    [] m.term < r.term /\ m.type \notin {"App", "Heartbeat", "PreVote"} -> r
    [] OTHER -> StepAtTerm(p, r, m)

-----------------------------------------------------------------------------
(* Actions. *)

(* What a leader may send in this state (maybeSendAppend, sendHeartbeat):  *)
(* Progress.Next is above Match and at most behind the log, and an append  *)
(* that the window leaves no room for has no entries. A message the flow   *)
(* control holds back is one that never arrives.                           *)
LeaderSends(p, r) ==
  IF r.state # "Leader" THEN {}
  ELSE UNION {
    {[type |-> "App", from |-> p, to |-> q, term |-> r.term, index |-> next - 1,
      logTerm |-> TermAt(r.log, next - 1),
      entries |-> SubSeq(r.log, next, LessOf(Len(r.log), next + n - 1)),
      commit |-> r.committed, match |-> r.match[q]] :
        next \in r.match[q] + 1 .. Len(r.log) + 1, n \in {0, MaxMsgEntries}}
    \cup {[type |-> "Heartbeat", from |-> p, to |-> q, term |-> r.term,
           commit |-> IF CommitViaMsgApp THEN 0 ELSE LessOf(r.match[q], r.committed),
           match |-> r.match[q]]}
    : q \in Peers \ {p}}

(* The messages of M that the network does not lose. *)
Sent(M) == {m \in M : ~Lost(conf.name, m)}

(* The messages of M worth keeping: not those of a term that the receiver  *)
(* will ignore whatever happens, nor the requests whose answer comes too   *)
(* late for their sender whatever happens, as it is at the last term.      *)
Pending(M, st) ==
  {m \in M : \/ m.term >= st[m.to].term
             \/ /\ m.type \in {"App", "Heartbeat", "PreVote"}
                /\ m.term = MaxTerm \/ st[m.from].term < MaxTerm}

HardState(r) ==
  [term |-> r.term, vote |-> r.vote, committed |-> r.committed, lead |-> r.lead,
   leadEpoch |-> r.leadEpoch, log |-> r.log]

(* Mutant: the accepted term is taken from the HardState. *)
newRaft_AccTerm(p, hs) ==
  [term |-> hs.term, vote |-> hs.vote, lead |-> hs.lead, leadEpoch |-> hs.leadEpoch,
   state |-> "Follower", votes |-> [yes |-> {}, no |-> {}], leadTransferee |-> None,
   log |-> hs.log, acc |-> hs.term, committed |-> hs.committed,
   match |-> [q \in Peers |-> IF q = p THEN Len(hs.log) ELSE 0],
   out |-> {}, after |-> {}, bad |-> {}]

(* newRaft from the given disk state. *)
newRaft(p, hs) ==
  [term |-> hs.term, vote |-> hs.vote, lead |-> hs.lead, leadEpoch |-> hs.leadEpoch,
   state |-> "Follower", votes |-> [yes |-> {}, no |-> {}], leadTransferee |-> None,
   log |-> hs.log, acc |-> LastTerm(hs.log), committed |-> hs.committed,
   match |-> [q \in Peers |-> IF q = p THEN Len(hs.log) ELSE 0],
   out |-> {}, after |-> {}, bad |-> {}]

History(p, r) ==
  /\ elected' = IF r.state = "Leader" THEN elected \cup {<<r.term, p>>} ELSE elected
  /\ ledger' = IF r.state = "Leader" THEN [ledger EXCEPT ![r.term] = r.log] ELSE ledger
  /\ decided' = IF r.committed > Len(decided) THEN SubSeq(r.log, 1, r.committed) ELSE decided

(* The votes and fortifications among the responses that are sent. *)
Pledged(M) == {m \in M : m.type \in {"VoteResp", "FortifyLeaderResp"} /\ ~m.reject}

(* A response to itself dies with the process. *)
WithoutOwn(p, M) == {m \in M : m.from # p \/ m.to # p}

(* storeEntriesAndCommitBatch waits for the disk if messages depend on it  *)
(* and the setting says so or the log is overwritten.                      *)
BlockingSync(p, r) ==
  r.after # {} /\ (~NonBlockingSync \/ ~IsPrefix(raft[p].log, r.log))

(* Handler result r becomes p's state and its messages go out. Then it is  *)
(* written to disk and the messages that depend on it go out: with the     *)
(* blocking sync before the next step, unless the process crashes in       *)
(* between; otherwise later (Persist). A failed assertion stops the        *)
(* process where it was, until it is restarted.                            *)
Take(p, r, net) ==
  /\ raft[p].bad = {}
  /\ UNCHANGED support
  /\ \/ /\ r.bad = {}
        /\ ~BlockingSync(p, r)
        /\ raft' = [raft EXCEPT ![p] = [r EXCEPT !.out = {}]]
        /\ msgs' = Pending(net \cup Sent(r.out \cup LeaderSends(p, r)), stable)
        /\ History(p, r)
        /\ UNCHANGED <<stable, restarts, pledges, failed>>
     \/ /\ r.bad = {}
        /\ BlockingSync(p, r)
        /\ raft' = [raft EXCEPT ![p] = [r EXCEPT !.out = {}, !.after = {}]]
        /\ stable' = [stable EXCEPT ![p] = HardState(r)]
        /\ msgs' = Pending(net \cup Sent(r.out \cup r.after \cup LeaderSends(p, r)), stable')
        /\ History(p, r)
        /\ pledges' = pledges \cup Pledged(r.after)
        /\ UNCHANGED <<restarts, failed>>
     \/ /\ r.bad = {}
        /\ BlockingSync(p, r)
        /\ restarts < MaxRestarts
        /\ restarts' = restarts + 1
        /\ raft' = [raft EXCEPT ![p] = newRaft(p, stable[p])]
        /\ msgs' = WithoutOwn(p, Pending(net \cup Sent(r.out \cup LeaderSends(p, r)), stable))
        /\ History(p, r)
        /\ UNCHANGED <<stable, pledges, failed>>
     \/ /\ r.bad # {}
        /\ failed' = failed \cup r.bad
        /\ raft' = [raft EXCEPT ![p].bad = r.bad]
        /\ UNCHANGED <<stable, msgs, restarts, elected, ledger, decided, pledges>>

(* A message arrives. A response to itself is delivered once. *)
Receive(m) ==
  /\ m.type = "TimeoutNow" /\ m.term >= raft[m.to].term =>
       m.term < MaxTerm /\ m.to \in MayCampaign[m.term + 1]
  /\ \E inLease \in BOOLEAN :
       /\ inLease => raft[m.to].lead # None
       /\ Take(m.to, Step(m.to, raft[m.to], m, inLease),
               IF m.from = m.to THEN msgs \ {m} ELSE msgs)

(* tickElection, elapsed: past the election timeout. *)
TickElection(p, elapsed) ==
  LET r == raft[p]
      s == [AskSupport(p, r) EXCEPT !.leadEpoch = 0]
  IN /\ r.state # "Leader"
     /\ elapsed => r.term < MaxTerm /\ p \in MayCampaign[r.term + 1]
     /\ Take(p, CASE supportingFortifiedLeader(p, r) -> AskSupport(p, r)
                  [] ~supportingFortifiedLeader(p, r) /\ elapsed ->
                       hup(p, s, IF PreVote THEN "PreElection" ELSE "Election")
                  [] OTHER -> s,
             msgs)

(* MsgCheckQuorum: the leader did not hear from a quorum in a while. *)
CheckQuorum(p) ==
  /\ MayStepDown
  /\ raft[p].state = "Leader"
  /\ Take(p, becomeFollower(p, raft[p], raft[p].term, p), msgs)

(* MsgProp at the leader. *)
Propose(p, v) ==
  /\ raft[p].state = "Leader"
  /\ raft[p].leadTransferee = None
  /\ Len(raft[p].log) < MaxLog
  /\ Take(p, appendEntry(p, raft[p], v), msgs)

(* MsgTransferLeader at the leader; the request for itself only aborts.    *)
TransferLeader(p, q) ==
  LET r == raft[p]
      s == [r EXCEPT !.leadTransferee = q]
  IN /\ MayTransfer
     /\ r.state = "Leader"
     /\ r.leadTransferee # q
     /\ Take(p, CASE q = p -> [r EXCEPT !.leadTransferee = None]
                  [] q # p /\ r.match[q] = Len(r.log) -> transferLeader(p, s, q)
                  [] OTHER -> s,
             msgs)

(* tickHeartbeat: a transfer is given up after the election timeout. *)
AbortTransfer(p) ==
  /\ raft[p].state = "Leader"
  /\ raft[p].leadTransferee # None
  /\ Take(p, [raft[p] EXCEPT !.leadTransferee = None], msgs)

(* MsgForgetLeader *)
ForgetLeader(p) ==
  LET r == raft[p]
  IN /\ MayForget
     /\ r.state = "Follower"
     /\ r.lead # None
     /\ Take(p, IF supportingFortifiedLeader(p, r) THEN AskSupport(p, r)
                ELSE [AskSupport(p, r) EXCEPT !.lead = None, !.leadEpoch = 0],
             msgs)

(* What was written is durable; the responses that waited for it are sent. *)
Persist(p) ==
  /\ raft[p].bad = {}
  /\ raft[p].after # {} \/ stable[p] # HardState(raft[p])
  /\ stable' = [stable EXCEPT ![p] = HardState(raft[p])]
  /\ raft' = [raft EXCEPT ![p].after = {}]
  /\ msgs' = Pending(msgs \cup Sent(raft[p].after), stable')
  /\ pledges' = pledges \cup Pledged(raft[p].after)
  /\ UNCHANGED <<support, restarts, elected, ledger, decided, failed>>

(* A crash: what is not on disk is lost. *)
Restart(p) ==
  /\ restarts < MaxRestarts
  /\ restarts' = restarts + 1
  /\ raft' = [raft EXCEPT ![p] = newRaft(p, stable[p])]
  /\ msgs' = WithoutOwn(p, msgs)
  /\ UNCHANGED <<stable, support, elected, ledger, decided, pledges, failed>>

(* Store Liveness: the store of p withdraws its support for that of q, or  *)
(* gives it for a new epoch (StoreLiveness.tla).                           *)
Withdraw(p, q) ==
  /\ support[p][q].live
  /\ support' = [support EXCEPT ![p][q].live = FALSE]
  /\ UNCHANGED <<raft, stable, msgs, restarts, elected, ledger, decided, pledges, failed>>

Provide(p, q) ==
  /\ support[p][q].epoch < MaxEpoch
  /\ support' = [support EXCEPT ![p][q] = [epoch |-> @.epoch + 1, live |-> TRUE]]
  /\ UNCHANGED <<raft, stable, msgs, restarts, elected, ledger, decided, pledges, failed>>

Init ==
  /\ conf \in Settings
  /\ stable = [p \in Peers |-> [term |-> 0, vote |-> None, committed |-> 0, lead |-> None,
                                leadEpoch |-> 0, log |-> <<>>]]
  /\ raft = [p \in Peers |-> newRaft(p, stable[p])]
  /\ msgs = {}
  /\ support = [p \in Peers |-> [q \in Peers |-> [epoch |-> 1, live |-> TRUE]]]
  /\ restarts = 0
  /\ elected = {}
  /\ ledger = [t \in 1 .. MaxTerm |-> <<>>]
  /\ decided = <<>>
  /\ pledges = {}
  /\ failed = {}

Next ==
  /\ UNCHANGED conf
  /\ \/ \E m \in msgs : Receive(m)
     \/ \E p \in Peers :
          \/ \E elapsed \in BOOLEAN : TickElection(p, elapsed)
          \/ CheckQuorum(p)
          \/ \E v \in Values : Propose(p, v)
          \/ \E q \in Peers : TransferLeader(p, q)
          \/ AbortTransfer(p)
          \/ ForgetLeader(p)
          \/ Persist(p)
          \/ Restart(p)
     \/ \E pq \in Unsteady : Withdraw(pq[1], pq[2]) \/ Provide(pq[1], pq[2])

Spec == Init /\ [][Next]_vars

-----------------------------------------------------------------------------
(* Properties. *)

(* At most one peer is ever elected in a term (becomeLeader), whatever is  *)
(* lost, repeated or reordered and whoever crashes before its vote was     *)
(* durable.                                                                *)
ElectionSafety ==
  \A a, b \in elected : a[1] = b[1] => a[2] = b[2]

(* What peers know as committed never differs (raftLog.commitTo), and no   *)
(* peer that restarts or changes leaders loses it. It holds with the       *)
(* blocking sync of the log, and fails without it.                         *)
CommittedAgree ==
  \A p \in Peers : IsPrefix(SubSeq(raft[p].log, 1, raft[p].committed), decided)

(* A leader of a later term than an entry was committed in holds the entry *)
(* (isUpToDate, maybeCommit), with the blocking sync of the log.           *)
LeaderCompleteness ==
  \A p \in Peers :
    raft[p].state = "Leader" /\ raft[p].term > LastTerm(decided) => IsPrefix(decided, raft[p].log)

(* raftLog.accTerm: the log is a prefix of the log of the accTerm's leader,*)
(* and its last term, accTerm and the term of the peer are in order. With  *)
(* the blocking sync of the log, as above.                                 *)
LogOfAcceptedLeader ==
  \A p \in Peers :
    /\ LastTerm(raft[p].log) <= raft[p].acc /\ raft[p].acc <= raft[p].term
    /\ raft[p].acc > 0 => IsPrefix(raft[p].log, ledger[raft[p].acc])

(* The panics on a log that contradicts the leader's idea of it never      *)
(* fire: checkMatch, commitTo, maybeAppend.                                *)
LogAssertions ==
  failed \cap {"match is out of range", "tocommit is out of range",
               "entry is already committed"} = {}

(* While a leader leads and a quorum, itself included, supports its store  *)
(* at the epoch it promised, no other peer is elected at a later term      *)
(* (handleFortify, hup, Step): the ground that leader leases stand on.     *)
FortifiedLeaderIsUnique ==
  \A p \in Peers :
    LET holding == {q \in Peers \ {p} :
                      \E m \in pledges : /\ m.type = "FortifyLeaderResp" /\ m.from = q
                                         /\ m.to = p /\ m.term = raft[p].term
                                         /\ m.epoch = SupportFor(q, p)}
    IN raft[p].state = "Leader" /\ IsQuorum(holding \cup {p}) =>
         \A e \in elected : e[1] <= raft[p].term

(* Leadership is handed only to a peer whose log on disk holds all of the  *)
(* leader's (transferLeader), so that it can win and nothing is lost.      *)
TransferTargetCaughtUp ==
  \A m \in msgs :
    m.type = "TimeoutNow" =>
      stable[m.to].term > m.term \/ IsPrefix(ledger[m.term], stable[m.to].log)
=============================================================================
