------------------------------- MODULE MCRaft -------------------------------
(* Three peers for TLC, with several settings in one state graph: who may  *)
(* campaign for which term, what may happen, and which messages the        *)
(* network loses.                                                          *)
EXTENDS Raft

CONSTANTS p1, p2, p3

Default ==
  [name |-> "default", preVote |-> FALSE, fortify |-> FALSE, commitViaMsgApp |-> TRUE,
   nonBlockingSync |-> FALSE, mayTransfer |-> FALSE, mayStepDown |-> FALSE, mayForget |-> FALSE,
   mayCampaign |-> <<{p1}>>, maxMsgEntries |-> 2, maxLog |-> 0, maxRestarts |-> 0,
   maxEpoch |-> 1, unsteady |-> {}]

(* Two candidates for one term, leaders that give up, two restarts, and    *)
(* disks that lag behind.                                                  *)
Elections ==
  [Default EXCEPT !.name = "elections", !.nonBlockingSync = TRUE, !.mayStepDown = TRUE,
                  !.mayForget = TRUE, !.mayCampaign = <<{p1, p2}>>, !.maxRestarts = 2]

(* A log that is overwritten, and a restart: the second peer misses the    *)
(* first term.                                                             *)
Log ==
  [Default EXCEPT !.name = "log", !.mayCampaign = <<{p1}, {p2}>>, !.maxRestarts = 1]

(* Logs that diverge behind an entry they share: the third peer hears of   *)
(* nothing in the first term, the second of its first entry.               *)
LogTail ==
  [Default EXCEPT !.name = "tail", !.mayCampaign = <<{p1}, {p2}>>, !.maxMsgEntries = 1,
                  !.maxLog = 2]

(* Leadership is transferred while proposals go on.                        *)
Transfer ==
  [Default EXCEPT !.name = "transfer", !.commitViaMsgApp = FALSE, !.mayTransfer = TRUE,
                  !.mayCampaign = <<{p1}, {p2}>>, !.maxMsgEntries = 1, !.maxLog = 2]

(* A fortified leader, pre-votes against it, a follower whose store        *)
(* withdraws its support.                                                  *)
Fortified ==
  [Default EXCEPT !.name = "fortified", !.preVote = TRUE, !.fortify = TRUE,
                  !.mayCampaign = <<{p1}, {p2}>>, !.maxRestarts = 1, !.maxEpoch = 2,
                  !.unsteady = {<<p3, p1>>}]

(* Two leaders take turns: the first gets an entry of its first term to a  *)
(* quorum only in its second, and the other one comes back.                *)
Turns ==
  [Default EXCEPT !.name = "turns", !.mayCampaign = <<{p1}, {p3}, {p1}, {p3}>>,
                  !.maxMsgEntries = 1]

MCSettings == {Elections, Log, LogTail, Transfer, Fortified, Turns}

(* Entries that are acknowledged before they are durable.                  *)
Sync ==
  [Default EXCEPT !.name = "sync", !.nonBlockingSync = TRUE, !.maxLog = 2, !.maxRestarts = 1]

SyncSettings == {Sync}

(* A heartbeat, or an append that neither appends nor commits.             *)
Beat(m) ==
  \/ m.type = "Heartbeat"
  \/ m.type = "App" /\ m.entries = <<>> /\ (m.index = 0 \/ m.commit = 0)

(* An append without entries whose position is not known to be committed.  *)
Probe(m) == m.type = "App" /\ m.entries = <<>> /\ (m.index = 0 \/ m.commit < m.index)

Rejection(m) == m.type \in {"VoteResp", "PreVoteResp"} /\ m.reject

(* The answer to a stale append or heartbeat, which only tells of a term.  *)
TermOnly(m) == m.type = "AppResp" /\ m.index = 0

MCLost(name, m) ==
  CASE name = "elections" -> m.type \in {"App", "Heartbeat"}
    [] name = "log" -> Beat(m) \/ (m.type = "App" /\ m.term = 1 /\ m.to = p2)
    [] name = "tail" -> \/ Beat(m) \/ Probe(m) \/ Rejection(m) \/ TermOnly(m)
                        \/ m.term = 1 /\ (m.to = p3 \/ (m.type = "App" /\ m.index > 0))
                        \/ m.term = 2 /\ m.type = "Vote" /\ m.to = p1
    [] name = "transfer" -> \/ Rejection(m) \/ TermOnly(m) \/ Probe(m)
                            \/ m.type \in {"App", "Heartbeat"} /\ (m.term = 2 \/ m.to = p3)
                            \/ m.term = 1 /\ m.to = p3
    [] name = "fortified" -> \/ m.type \in {"App", "Heartbeat"} \/ Rejection(m)
                             \/ m.type \in {"Vote", "PreVote"} /\ m.term = 1 /\ m.to = p3
    [] name = "turns" -> \/ Beat(m) \/ Rejection(m)
                         \/ m.type = "App" /\ (m.term < 3 \/ m.to # p2)
                         \/ m.type = "App" /\ m.term = 3 /\ m.index > 0
    [] name = "sync" -> Beat(m) \/ (m.type = "App" /\ m.to = p3)
=============================================================================
