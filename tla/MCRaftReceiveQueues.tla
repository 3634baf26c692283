----------------------- MODULE MCRaftReceiveQueues -----------------------
(* Small instances of RaftReceiveQueues for TLC. *)
EXTENDS RaftReceiveQueues, TLC

CONSTANTS e1, e2

OneRange == {1}
TwoEnqueuers == {e1, e2}
OneEnqueuer == {e1}
RequestsOnly == {"Request"}

Symmetry == Permutations(Enqueuers)
=============================================================================
