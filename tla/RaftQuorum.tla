----------------------------- MODULE RaftQuorum -----------------------------
(***************************************************************************)
(* Quorums of raft: majority and joint configurations, what they commit,   *)
(* how their votes end and how long they support a leader                  *)
(* (pkg/raft/quorum). A majority configuration is a set of voters, a joint *)
(* one a pair of them of which the second is empty unless it is joint.     *)
(***************************************************************************)
EXTENDS Integers, FiniteSets, FiniteSetsExt, SequencesExt

CONSTANT Infinity    \* stands for math.MaxUint64 and hlc.MaxTimestamp

(* Mutant: rounds the wrong way for an even number of voters. *)
QuorumValue_Upper(c, reported) ==
  LET n == Cardinality(c)
      srt == SortSeq(SetToSeq({<<reported[v], v>> : v \in c}), LAMBDA a, b : a[1] < b[1])
  IN IF n = 0 THEN Infinity ELSE srt[n \div 2 + 1][1]

(* The value of the voter at position n - (n/2 + 1) of the sorted slice.   *)
(* Voters that have not reported are the zeroes of it.                     *)
QuorumValue(c, reported) ==
  LET n == Cardinality(c)
      srt == SortSeq(SetToSeq({<<reported[v], v>> : v \in c}), LAMBDA a, b : a[1] < b[1])
  IN IF n = 0 THEN Infinity ELSE srt[n - (n \div 2 + 1) + 1][1]

(* MajorityConfig.VoteResult of the voters that said yes and no. *)
VoteResult(c, yes, no) ==
  LET votedCnt == Cardinality(c \cap yes)
      missing == Cardinality(c \ (yes \cup no))
      q == Cardinality(c) \div 2 + 1
  IN CASE c = {} -> "VoteWon"
       [] c # {} /\ votedCnt >= q -> "VoteWon"
       [] c # {} /\ votedCnt < q /\ votedCnt + missing >= q -> "VotePending"
       [] OTHER -> "VoteLost"

CommittedIndex(c, acked) == Min({QuorumValue(c[1], acked), QuorumValue(c[2], acked)})

LeadSupportExpiration(c, supported) ==
  Min({QuorumValue(c[1], supported), QuorumValue(c[2], supported)})

(* JointConfig.VoteResult *)
JointVoteResult(c, yes, no) ==
  LET results == {VoteResult(c[1], yes, no), VoteResult(c[2], yes, no)}
  IN CASE Cardinality(results) = 1 -> CHOOSE x \in results : TRUE
       [] Cardinality(results) > 1 /\ "VoteLost" \in results -> "VoteLost"
       [] OTHER -> "VotePending"
=============================================================================
