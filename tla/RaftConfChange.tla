--------------------------- MODULE RaftConfChange ---------------------------
(***************************************************************************)
(* The configuration of a raft group and how it changes: raft.go           *)
(* applyConfChange and the Changer of pkg/raft/confchange, with simple     *)
(* changes, joint consensus, learners and staged learners. The progress    *)
(* map is reduced to who is tracked and who is tracked as a learner.       *)
(***************************************************************************)
EXTENDS RaftQuorum

CONSTANTS
  Ids,           \* the peers that may ever be a part of the group
  First,         \* the voter the group is bootstrapped with
  \* bounds
  MaxChanges     \* single changes in one configuration change

VARIABLES
  config,    \* quorum.Config, with trk and isLearner of the progress map
  wanted,    \* history: the role each peer has once no configuration is joint
  failed     \* history: whether checkInvariants failed, which panics

vars == <<config, wanted, failed>>

Changes == [type : {"AddNode", "AddLearnerNode", "RemoveNode"}, id : Ids]

Joint(cfg) == cfg.outgoing # {}

-----------------------------------------------------------------------------
(* The Changer. *)

initProgress(cfg, id, isLearner) ==
  LET c == [cfg EXCEPT !.trk = @ \cup {id}]
  IN IF isLearner THEN [c EXCEPT !.learners = @ \cup {id}, !.isLearner = @ \cup {id}]
                  ELSE [c EXCEPT !.incoming = @ \cup {id}]

makeVoter(cfg, id) ==
  IF id \notin cfg.trk THEN initProgress(cfg, id, FALSE)
  ELSE [cfg EXCEPT !.isLearner = @ \ {id}, !.learners = @ \ {id},
                   !.learnersNext = @ \ {id}, !.incoming = @ \cup {id}]

(* The Progress is kept while the outgoing configuration needs it. *)
remove(cfg, id) ==
  LET c == [cfg EXCEPT !.incoming = @ \ {id}, !.learners = @ \ {id},
                       !.learnersNext = @ \ {id}]
  IN CASE id \notin cfg.trk -> cfg
       [] id \in cfg.trk /\ id \in cfg.outgoing -> c
       [] OTHER -> [c EXCEPT !.trk = @ \ {id}, !.isLearner = @ \ {id}]

makeLearner(cfg, id) ==
  LET c == [remove(cfg, id) EXCEPT !.trk = @ \cup {id}]
  IN CASE id \notin cfg.trk -> initProgress(cfg, id, TRUE)
       [] id \in cfg.trk /\ id \in cfg.isLearner -> cfg
       [] id \in cfg.trk /\ id \notin cfg.isLearner /\ id \in cfg.outgoing ->
            [c EXCEPT !.learnersNext = @ \cup {id}]
       [] OTHER -> [c EXCEPT !.isLearner = @ \cup {id}, !.learners = @ \cup {id}]

apply(cfg, ccs) ==
  FoldLeft(LAMBDA c, cc :
             CASE cc.type = "AddNode" -> makeVoter(c, cc.id)
               [] cc.type = "AddLearnerNode" -> makeLearner(c, cc.id)
               [] cc.type = "RemoveNode" -> remove(c, cc.id),
           cfg, ccs)

checkInvariants(cfg) ==
  /\ cfg.incoming \cup cfg.outgoing \cup cfg.learners \cup cfg.learnersNext \subseteq cfg.trk
  /\ cfg.learnersNext \subseteq cfg.outgoing
  /\ cfg.learnersNext \cap cfg.isLearner = {}
  /\ cfg.learners \cap (cfg.incoming \cup cfg.outgoing) = {}
  /\ cfg.learners \subseteq cfg.isLearner
  /\ ~Joint(cfg) => cfg.learnersNext = {} /\ ~cfg.autoLeave

(* What the group is meant to look like after the changes: the last change *)
(* of a peer decides.                                                      *)
RoleAfter(roles, ccs) ==
  FoldLeft(LAMBDA f, cc :
             [f EXCEPT ![cc.id] = CASE cc.type = "AddNode" -> "voter"
                                    [] cc.type = "AddLearnerNode" -> "learner"
                                    [] cc.type = "RemoveNode" -> "none"],
           roles, ccs)

-----------------------------------------------------------------------------
(* applyConfChange: an error of the Changer panics; the callers keep to    *)
(* changes that it takes, but the invariants are its own.                  *)

SwitchTo(cfg) ==
  /\ config' = IF checkInvariants(cfg) THEN cfg ELSE config
  /\ failed' = (failed \/ ~checkInvariants(cfg))

(* Mutant: several voters may change without a joint configuration. *)
CanBeSimple_Any(cfg) == TRUE

(* Simple: at most one voter changes. *)
CanBeSimple(cfg) ==
  Cardinality(SymDiff(config.incoming, cfg.incoming)) <= 1

Simple(ccs) ==
  LET cfg == apply(config, ccs)
  IN /\ ~Joint(config)
     /\ cfg.incoming # {}
     /\ CanBeSimple(cfg)
     /\ SwitchTo(cfg)
     /\ wanted' = RoleAfter(wanted, ccs)

EnterJoint(autoLeave, ccs) ==
  LET cfg == apply([config EXCEPT !.outgoing = config.incoming], ccs)
  IN /\ ~Joint(config)
     /\ config.incoming # {}
     /\ cfg.incoming # {}
     /\ SwitchTo([cfg EXCEPT !.autoLeave = autoLeave])
     /\ wanted' = RoleAfter(wanted, ccs)

(* Mutant: staged learners are forgotten. *)
Left_NoLearners(cfg) ==
  LET members == cfg.incoming \cup cfg.learners
  IN [cfg EXCEPT !.learnersNext = {}, !.outgoing = {}, !.autoLeave = FALSE,
                 !.trk = @ \ (cfg.outgoing \ members)]

(* The configuration without its outgoing half. *)
Left(cfg) ==
  LET learners == cfg.learners \cup cfg.learnersNext
  IN [cfg EXCEPT !.learners = learners, !.isLearner = @ \cup cfg.learnersNext,
                 !.learnersNext = {}, !.outgoing = {}, !.autoLeave = FALSE,
                 !.trk = @ \ (cfg.outgoing \ (cfg.incoming \cup learners))]

LeaveJoint ==
  /\ Joint(config)
  /\ SwitchTo(Left(config))
  /\ UNCHANGED wanted

Init ==
  /\ config = [incoming |-> {First}, outgoing |-> {}, learners |-> {}, learnersNext |-> {},
               autoLeave |-> FALSE, trk |-> {First}, isLearner |-> {}]
  /\ wanted = [id \in Ids |-> IF id = First THEN "voter" ELSE "none"]
  /\ failed = FALSE

Next ==
  \/ LeaveJoint
  \/ \E ccs \in BoundedSeq(Changes, MaxChanges) :
       \/ Simple(ccs)
       \/ \E autoLeave \in BOOLEAN : EnterJoint(autoLeave, ccs)

Spec == Init /\ [][Next]_vars

-----------------------------------------------------------------------------
(* Properties. *)

Voters(cfg) == <<cfg.incoming, cfg.outgoing>>

Wins(cfg, S) == JointVoteResult(Voters(cfg), S, {}) = "VoteWon"

(* Whatever sequence of changes led here: a quorum of the configuration    *)
(* before a change and one of the configuration after it have a peer in    *)
(* common, so that nothing is decided twice while some peers have applied  *)
(* the change and others have not (Simple, EnterJoint, LeaveJoint).        *)
Overlapping ==
  \A S, T \in SUBSET Ids : Wins(config, S) /\ Wins(config, T)' => S \cap T # {}

(* Once no configuration is joint, every peer has the role that the last   *)
(* change that named it gave it: no staged learner is lost on the way      *)
(* through a joint configuration (makeLearner, LeaveJoint). What the       *)
(* Changer checks of its own results never fails (checkInvariants).        *)
RolesAsWanted ==
  LET cfg == IF Joint(config) THEN Left(config) ELSE config
  IN /\ ~failed
     /\ checkInvariants(config)
     /\ \A id \in Ids :
          /\ (id \in cfg.incoming) <=> (wanted[id] = "voter")
          /\ (id \in cfg.learners) <=> (wanted[id] = "learner")

(* CommittedIndex is the largest index that a majority of each side has    *)
(* acknowledged, LeadSupportExpiration the latest time until which one     *)
(* supports the leader.                                                    *)
QuorumValuesAreBacked ==
  \A acked \in [config.trk -> 0 .. 2] :
    LET backed(i) == \A c \in {config.incoming, config.outgoing} :
                       c = {} \/ 2 * Cardinality({v \in c : acked[v] >= i}) > Cardinality(c)
    IN /\ CommittedIndex(Voters(config), acked) = Max({i \in 0 .. 2 : backed(i)})
       /\ LeadSupportExpiration(Voters(config), acked) = Max({i \in 0 .. 2 : backed(i)})

(* An election is reported won only with a majority of each side, lost     *)
(* only if no answer that is still missing could win it, and pending       *)
(* otherwise (JointConfig.VoteResult).                                     *)
ElectionsEndInTime ==
  \A yes, no \in SUBSET config.trk :
    LET won(S) == \A c \in {config.incoming, config.outgoing} :
                    c = {} \/ 2 * Cardinality(c \cap S) > Cardinality(c)
    IN yes \cap no = {} =>
         JointVoteResult(Voters(config), yes, no) =
           CASE won(yes) -> "VoteWon"
             [] ~won(config.trk \ no) -> "VoteLost"
             [] OTHER -> "VotePending"

(* Majorities are counted as they should be, on each side of the           *)
(* configuration: see QuorumValuesAreBacked and ElectionsEndInTime.        *)
QuorumsAreCounted == QuorumValuesAreBacked /\ ElectionsEndInTime
=============================================================================
