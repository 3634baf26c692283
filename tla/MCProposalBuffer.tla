-------------------------- MODULE MCProposalBuffer --------------------------
(* Four parts in one state graph. In "tracker" LockfreeTracker runs: three *)
(* requests, wall times 1 to 3 and one logical tick are enough for a third *)
(* bucket to be wanted while two are in use, and for two loads of an       *)
(* uninitialized bucket to race with a third request. In the others        *)
(* ProposalBuffer runs, over the tracker that LockfreeTracker implements.  *)
EXTENDS ProposalBuffer, LockfreeTracker, TLC

CONSTANT Writers    \* the requests of "closing" and "leases"

VARIABLE part       \* chosen once and for all

MCClientTimestamps == {At(1, 1), At(2, 0), At(3, 0)}
MCInputs == {At(1, 0), At(2, 0)}
MCTargets == {At(1, 1), At(2, 0)}

Only(requests, kinds) ==
  \A r \in Requests : prop[r].pc # "idle" => r \in requests /\ prop[r].kind \in kinds

(* What each part is about, to bound it. *)
InPart ==
  \* Writes at two timestamps while these are closed.
  \/ /\ part = "closing"
     /\ Only(Writers, {"write", "untracked"})
     /\ lease.seq = 1 /\ ~destroyed
  \* Commands that are reproposed while the lease is lost and acquired again.
  \/ /\ part = "leases"
     /\ Only(Writers, {"write", "lease", "change"})
     /\ \A r \in Requests : prop[r].pc = "checked" => prop[r].wts = At(2, 0)
     /\ applied.lai <= 2 /\ ~destroyed
  \* A small buffer that is full, overfull, flushed and disconnected.
  \/ /\ part = "slots"
     /\ Only(Requests, {"untracked"})
     /\ \A r \in Requests : prop[r].pc = "checked" => prop[r].wts = At(2, 0)
     /\ lease.seq = 1 /\ published = EmptyTS /\ refresh = <<>>

MCInit == Init /\ TrackerInit /\ part \in {"tracker", "closing", "leases", "slots"}

MCNext ==
  /\ UNCHANGED part
  /\ \/ part = "tracker" /\ TrackerNext /\ UNCHANGED vars
     \/ part # "tracker" /\ Next /\ InPart' /\ UNCHANGED trackerVars

ProposalsSpec == MCInit /\ [][MCNext]_<<vars, trackerVars, part>>

Symmetry == Permutations(Writers)
=============================================================================
