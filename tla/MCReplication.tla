---------------------------- MODULE MCReplication ----------------------------
(* A leader of term 3 and what its follower may have kept; the window  *)
(* of appends in flight and the changes of the configuration by            *)
(* themselves.                                                             *)
EXTENDS Replication, Inflights

CONSTANT Ids     \* the peers that configuration changes may name

VARIABLES
  part,          \* chosen once and for all
  config, wanted, failed

(* The follower has entries of a leader in between, and knows of one that  *)
(* is committed, which the new leader does not...                          *)
Diverged ==
  [log |-> <<1, 1>>, first |-> 1, applied |-> 0, commit |-> 0, decided |-> 1,
   flog |-> <<1, 2, 2>>, fcommit |-> 1]

(* ... or it has nothing, and the leader's log is compacted.               *)
Empty ==
  [log |-> <<1, 1, 1>>, first |-> 3, applied |-> 2, commit |-> 2, decided |-> 3,
   flog |-> <<>>, fcommit |-> 0]

MCElections == {Diverged, Empty}

(* Everything is reordered, and heartbeats carry the commit index.         *)
Flow ==
  [name |-> "flow", maxInflight |-> 1, maxMsgEntries |-> 1, commitViaMsgApp |-> FALSE,
   reorders |-> TRUE, maxLog |-> 4, maxCompactions |-> 1, maxLost |-> 1, maxChannel |-> 1]

(* Channels in order, and only appends carry the commit index.             *)
Live ==
  [Flow EXCEPT !.name = "live", !.maxInflight = 2, !.commitViaMsgApp = TRUE, !.reorders = FALSE]

MCSettings == {Flow, Live}

Changer == INSTANCE RaftConfChange WITH First <- 1, MaxChanges <- 2, Infinity <- 9

(* The leader keeps sending heartbeats, what is not lost arrives, and the  *)
(* snapshot queue ends with a report.                                      *)
LiveFairness ==
  LET live == part = "flow" /\ conf.name = "live" /\ UNCHANGED <<conf, decided>>
  IN /\ WF_vars(live /\ SendHeartbeat)
     /\ WF_vars(live /\ ReceiveHeartbeat)
     /\ WF_vars(live /\ ReceiveHeartbeatResp)
     /\ WF_vars(live /\ \E k \in Positions(toFollower) : ReceiveApp(k))
     /\ WF_vars(live /\ \E k \in Positions(toLeader) : ReceiveAppResp(k))
     /\ WF_vars(live /\ ReportSnapshot)
     /\ WF_vars(live /\ \E i \in DOMAIN log : ReceiveSnapshot(i))

MCInit ==
  /\ Init /\ InflightsInit /\ Changer!Init
  /\ part \in {"flow", "window", "changes"}
  /\ part = "flow" \/ (conf.name = "flow" /\ flog = <<>>)

MCNext ==
  /\ \/ part = "flow" /\ Next /\ UNCHANGED <<inflightsVars, config, wanted, failed>>
     \/ part = "window" /\ InflightsNext /\ UNCHANGED <<vars, config, wanted, failed>>
     \/ part = "changes" /\ Changer!Next /\ UNCHANGED <<vars, inflightsVars>>
  /\ UNCHANGED part

ReplicationSpec ==
  MCInit /\ [][MCNext]_<<vars, inflightsVars, part, config, wanted, failed>> /\ LiveFairness

-----------------------------------------------------------------------------
(* The follower gets everything: see Replication.                          *)
FollowerCatchesUp == part = "flow" /\ conf.name = "live" => CatchesUp

(* What majorities decide: see RaftConfChange.                             *)
QuorumsAreCounted == part = "changes" => Changer!QuorumsAreCounted

(* Peers have the roles they were given: see RaftConfChange.               *)
RolesAsWanted == Changer!RolesAsWanted

(* Quorums before and after a change overlap: see RaftConfChange.          *)
QuorumsOverlap == [][part = "changes" => Changer!Overlapping]_config
=============================================================================
