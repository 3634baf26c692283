----------------------- MODULE MCStoreLivenessTransport -----------------------
(* Instances of StoreLivenessTransport for TLC.                               *)
EXTENDS StoreLivenessTransport, TLC

CONSTANTS n1, n2, a, b, c

\* Stores a and b share node n1, store c is on n2.
Placement == [s \in Stores |-> IF s = c THEN n2 ELSE n1]

\* The stores on n1 heartbeat c.
ToC == [s \in Stores |-> IF s = c THEN {} ELSE {c}]

\* Queues have no identity of their own, and a and b are alike.
Symmetry == Permutations(Queues) \cup Permutations(Stores \ {c})

------------------------------------------------------------------------------
(* Two settings in one state graph: in "failures" anything fails and a node   *)
(* stops, but messages are not numbered; in "ordered" no stream fails, queues *)
(* and batches have room for two messages, messages are numbered, and only    *)
(* one of the stores on n1 is started.                                        *)

VARIABLE setting   \* chosen once and for all

Failures == INSTANCE StoreLivenessTransport WITH
  SendBufferSize <- 1, MaxBatch <- 1, MaxStream <- 1, MaxNumber <- 0,
  FailureKinds <- {"breaker", "dial", "idle", "stream"}, Stopping <- {n1}

MCInit == Init /\ setting \in {"failures", "ordered"}

MCNext ==
  /\ \/ setting = "failures" /\ Failures!Next
     \/ setting = "ordered" /\ Next /\ "created" \in {loop'[a], loop'[b]}
  /\ UNCHANGED setting

BothSettings == MCInit /\ [][MCNext]_<<vars, setting>>

(* The fair specification for recovery, with the failures of the cfg.         *)
RecoveryInit == Init /\ setting = "recovery"

RecoveryNext == Next /\ UNCHANGED setting

RecoverySpec == RecoveryInit /\ [][RecoveryNext]_<<vars, setting>> /\ Fairness
===============================================================================
