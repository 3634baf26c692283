----------------------------- MODULE RaftProofs -----------------------------
(***************************************************************************)
(* ElectionSafety of Raft for any number of peers, any settings, any loss, *)
(* delay and repetition of messages, and crashes at any step, also of      *)
(* peers whose vote is not durable yet.                                    *)
(*                                                                         *)
(* The argument follows the vote of a peer. A grant (a VoteResp that does  *)
(* not reject) is held in r.after until the vote it stands for is on disk; *)
(* then it joins pledges. One vote per term holds for the grants that were *)
(* sent and those that are held back together: the vote on disk is a lower *)
(* bound of the vote in memory, and a grant is only added for the vote in  *)
(* memory. A candidate has been pledged every vote it has counted, a       *)
(* leader those of a quorum, and two quorums have a peer in common.        *)
(*                                                                         *)
(* Handlers are operators from record to record, so each has a lemma: most *)
(* are Inert, they do not touch what elections are about.                  *)
(***************************************************************************)
EXTENDS Raft, FiniteSetTheorems, TLAPS

Fields == {"term", "vote", "lead", "leadEpoch", "state", "votes", "leadTransferee", "log", "acc",
           "committed", "match", "out", "after", "bad"}

(* r is a record with the fields of a peer's volatile state. *)
IsRaft(r) ==
  /\ r = [f \in Fields |-> r[f]]
  /\ r.votes = [f \in {"yes", "no"} |-> r.votes[f]]

Grants(M) == {m \in M : m.type = "VoteResp" /\ ~m.reject}

Sendable(m) == m.from \in Peers /\ m.to \in Peers /\ m.term \in Nat

(* No vote goes out before it is durable. *)
SentOK(r) ==
  /\ \A m \in r.out \cup r.after : Sendable(m)
  /\ \A m \in r.out : m.type # "VoteResp"

(* The peer q has voted for p in term t, durably. *)
Pledge(q, p, t) == \E m \in Grants(pledges) : m.from = q /\ m.to = p /\ m.term = t

Won(p, t) == \E Q \in SUBSET Peers : IsQuorum(Q) /\ \A q \in Q : Pledge(q, p, t)

OneVote(p, G) == \A m, n \in G : m.from = p /\ n.from = p /\ m.term = n.term => m.to = n.to

(* What the state r of p, in the middle of a handler, says of p's votes... *)
VotesOnce(p, r) ==
  /\ IsRaft(r) /\ r.term \in Nat /\ r.vote \in Peers \cup {None}
  /\ SentOK(r)
  /\ stable[p].term \in Nat /\ stable[p].term <= r.term
  /\ stable[p].term = r.term /\ stable[p].vote # None => r.vote = stable[p].vote
  /\ \A m \in Grants(r.after) : m.from = p /\ m.term <= r.term /\ (m.term = r.term => r.vote = m.to)
  /\ OneVote(p, Grants(r.after) \cup Grants(pledges))

(* ... and of the votes that p gathered. *)
Counts(p, r) ==
  /\ r.state \in {"Follower", "PreCandidate", "Candidate", "Leader"}
  /\ r.votes.yes \subseteq Peers
  /\ r.state = "Candidate" => \A q \in r.votes.yes : Pledge(q, p, r.term)
  /\ r.state = "Leader" => Won(p, r.term)

Sound(p, r) == VotesOnce(p, r) /\ Counts(p, r)

(* The vote of a peer on disk stands behind all it has pledged. *)
PledgesAreDurable ==
  \A m \in Grants(pledges) :
    /\ m.from \in Peers /\ m.to \in Peers /\ m.term \in Nat
    /\ m.term <= stable[m.from].term
    /\ m.term = stable[m.from].term => stable[m.from].vote = m.to

MessagesArePledged == \A m \in msgs : Sendable(m) /\ (m \in Grants(msgs) => m \in pledges)

StatesAreFunctions ==
  /\ raft = [p \in Peers |-> raft[p]]
  /\ stable = [p \in Peers |-> stable[p]]
  /\ \A p \in Peers : stable[p].vote \in Peers \cup {None}

LeadersWon == \A e \in elected : e[2] \in Peers /\ Won(e[2], e[1])

ElectionInv ==
  /\ StatesAreFunctions
  /\ PledgesAreDurable
  /\ MessagesArePledged
  /\ LeadersWon
  /\ \A p \in Peers : Sound(p, raft[p])

-----------------------------------------------------------------------------
(* Handlers that elections do not depend on. *)

Inert(r, s) ==
  /\ IsRaft(s)
  /\ s.term = r.term /\ s.vote = r.vote /\ s.state = r.state /\ s.votes = r.votes
  /\ Grants(s.after) = Grants(r.after)
  /\ SentOK(r) => SentOK(s)

LEMMA InertKeeps ==
  ASSUME NEW p, NEW r, NEW s, Inert(r, s)
  PROVE  /\ VotesOnce(p, r) => VotesOnce(p, s)
         /\ Counts(p, r) => Counts(p, s)
BY DEF Inert, VotesOnce, Counts

LEMMA InertTransitive ==
  ASSUME NEW r, NEW s, NEW t, Inert(r, s), Inert(s, t)
  PROVE  Inert(r, t)
BY DEF Inert

LEMMA InertReflexive == ASSUME NEW r, IsRaft(r) PROVE Inert(r, r)
BY DEF Inert

(* The fields that may be assigned at will. *)
LEMMA InertFields ==
  ASSUME NEW r, NEW x, NEW y, IsRaft(r)
  PROVE  /\ Inert(r, [r EXCEPT !.lead = x])
         /\ Inert(r, [r EXCEPT !.leadEpoch = x])
         /\ Inert(r, [r EXCEPT !.lead = x, !.leadEpoch = y])
         /\ Inert(r, [r EXCEPT !.leadTransferee = x])
         /\ Inert(r, [r EXCEPT !.match[x] = y])
         /\ Inert(r, [r EXCEPT !.committed = x])
         /\ Inert(r, [r EXCEPT !.log = x, !.acc = y])
         /\ Inert(r, [r EXCEPT !.bad = x])
<1>1. Inert(r, [r EXCEPT !.lead = x])
  BY DEF Inert, IsRaft, Fields, SentOK
<1>2. Inert(r, [r EXCEPT !.leadEpoch = x])
  BY DEF Inert, IsRaft, Fields, SentOK
<1>3. Inert(r, [r EXCEPT !.lead = x, !.leadEpoch = y])
  BY DEF Inert, IsRaft, Fields, SentOK
<1>4. Inert(r, [r EXCEPT !.leadTransferee = x])
  BY DEF Inert, IsRaft, Fields, SentOK
<1>5. Inert(r, [r EXCEPT !.match[x] = y])
  BY DEF Inert, IsRaft, Fields, SentOK
<1>6. Inert(r, [r EXCEPT !.committed = x])
  BY DEF Inert, IsRaft, Fields, SentOK
<1>7. Inert(r, [r EXCEPT !.log = x, !.acc = y])
  BY DEF Inert, IsRaft, Fields, SentOK
<1>8. Inert(r, [r EXCEPT !.bad = x])
  BY DEF Inert, IsRaft, Fields, SentOK
<1> QED BY <1>1, <1>2, <1>3, <1>4, <1>5, <1>6, <1>7, <1>8

LEMMA InertFail == ASSUME NEW r, NEW what, IsRaft(r) PROVE Inert(r, Fail(r, what))
BY DEF Inert, Fail, IsRaft, Fields, SentOK

LEMMA InertAskSupport == ASSUME NEW r, NEW p, IsRaft(r) PROVE Inert(r, AskSupport(p, r))
BY InertFail, InertReflexive DEF AskSupport

LEMMA InertCommitTo == ASSUME NEW r, NEW i, IsRaft(r) PROVE Inert(r, commitTo(r, i))
BY InertFail, InertReflexive, InertFields DEF commitTo

LEMMA InertSend ==
  ASSUME NEW r, NEW m, IsRaft(r), Sendable(m), m.type # "VoteResp"
  PROVE  Inert(r, send(r, m))
<1> DEFINE s == send(r, m)
<1>1. IsRaft(s) /\ s.term = r.term /\ s.vote = r.vote /\ s.state = r.state /\ s.votes = r.votes
  BY DEF send, IsRaft, Fields
<1>2. s.after \in {r.after, r.after \cup {m}} /\ s.out \in {r.out, r.out \cup {m}}
  BY DEF send, IsRaft, Fields
<1>3. Grants(s.after) = Grants(r.after)
  BY <1>2, Zenon DEF Grants
<1>4. SentOK(r) => SentOK(s)
  BY <1>2 DEF SentOK
<1> QED BY <1>1, <1>3, <1>4 DEF Inert

(* A set of requests is sent. *)
LEMMA InertOut ==
  ASSUME NEW r, NEW M, IsRaft(r), \A m \in M : Sendable(m) /\ m.type # "VoteResp"
  PROVE  Inert(r, [r EXCEPT !.out = @ \cup M])
<1> DEFINE s == [r EXCEPT !.out = @ \cup M]
<1>1. /\ IsRaft(s) /\ s.term = r.term /\ s.vote = r.vote /\ s.state = r.state /\ s.votes = r.votes
      /\ s.after = r.after /\ s.out = r.out \cup M
  BY DEF IsRaft, Fields
<1>2. SentOK(r) => SentOK(s)
  BY <1>1 DEF SentOK
<1> QED BY <1>1, <1>2 DEF Inert

LEMMA InertAppendEntry ==
  ASSUME NEW p \in Peers, NEW r, NEW v, IsRaft(r), r.term \in Nat
  PROVE  Inert(r, appendEntry(p, r, v))
<1> DEFINE s == [r EXCEPT !.log = Append(@, [term |-> r.term, val |-> v]), !.acc = r.term]
           m == [type |-> "AppResp", from |-> p, to |-> p, term |-> r.term, index |-> Len(s.log)]
<1>1. Inert(r, s)
  BY InertFields
<1>2. Sendable(m) /\ m.type # "VoteResp"
  BY DEF Sendable
<1>3. Inert(s, send(s, m))
  BY <1>1, <1>2, InertSend DEF Inert
<1>4. appendEntry(p, r, v) = send(s, m)
  BY DEF appendEntry
<1> QED BY <1>1, <1>3, <1>4, InertTransitive

LEMMA InertBcastFortify ==
  ASSUME NEW p \in Peers, NEW r, IsRaft(r), r.term \in Nat
  PROVE  Inert(r, bcastFortify(p, r))
<1> DEFINE e == IF SupportFor(p, p) # 0 THEN SupportFor(p, p) ELSE r.leadEpoch
           M == {[type |-> "FortifyLeader", from |-> p, to |-> q, term |-> r.term] :
                   q \in Peers \ {p}}
           s == [r EXCEPT !.leadEpoch = e]
<1>1. Inert(r, s)
  BY InertFields
<1>2. \A m \in M : Sendable(m) /\ m.type # "VoteResp"
  BY DEF Sendable
<1>3. Inert(s, [s EXCEPT !.out = @ \cup M])
  <2> HIDE DEF M, s
  <2> QED BY <1>1, <1>2, InertOut DEF Inert
<1>4. bcastFortify(p, r) \in {r, [s EXCEPT !.out = @ \cup M]}
  BY DEF bcastFortify, IsRaft, Fields
<1> QED BY <1>1, <1>3, <1>4, InertTransitive, InertReflexive

LEMMA InertAppResp ==
  ASSUME NEW p \in Peers, NEW r, NEW s, NEW m, NEW i, IsRaft(r), IsRaft(s), s.term \in Nat, Sendable(m)
  PROVE  Inert(r, send(r, AppRespOf(p, s, m, i)))
<1>1. Sendable(AppRespOf(p, s, m, i)) /\ AppRespOf(p, s, m, i).type # "VoteResp"
  BY DEF Sendable, AppRespOf
<1> QED BY <1>1, InertSend

LEMMA InertHandleAppendEntries ==
  ASSUME NEW p \in Peers, NEW r, NEW m, IsRaft(r), r.term \in Nat, Sendable(m)
  PROVE  Inert(r, handleAppendEntries(p, r, m))
<1> DEFINE k == MatchUpTo(r.log, m)
           lastIndex == m.index + Len(m.entries)
           accepted ==
             IF k = Len(m.entries) THEN r
             ELSE [r EXCEPT !.log = SubSeq(@, 1, m.index + k)
                                      \o SubSeq(m.entries, k + 1, Len(m.entries)),
                            !.acc = m.term]
           c == commitTo(accepted, AppCommit(accepted.log, m))
<1>1. Inert(r, accepted)
  BY InertFields, InertReflexive
<1>2. Inert(accepted, c)
  <2> HIDE DEF accepted
  <2> QED BY <1>1, InertCommitTo DEF Inert
<1>3. Inert(r, c)
  <2> HIDE DEF accepted, c
  <2> QED BY <1>1, <1>2, InertTransitive
<1>4. Inert(r, send(c, AppRespOf(p, r, m, lastIndex)))
  <2> HIDE DEF c, lastIndex
  <2>1. Inert(c, send(c, AppRespOf(p, r, m, lastIndex)))
    BY <1>3, InertAppResp DEF Inert
  <2> QED BY <1>3, <2>1, InertTransitive
<1>5. Inert(r, send(r, AppRespOf(p, r, m, r.committed)))
  BY InertAppResp
<1>6. Inert(r, Fail(r, "entry is already committed")) /\ Inert(r, Fail(r, "match is out of range"))
  BY InertFail
<1>7. handleAppendEntries(p, r, m) \in {r, send(c, AppRespOf(p, r, m, lastIndex)),
                                         send(r, AppRespOf(p, r, m, r.committed)),
                                         Fail(r, "match is out of range"),
                                         Fail(r, "entry is already committed")}
  BY Zenon DEF handleAppendEntries
<1> HIDE DEF c, lastIndex
<1> QED BY <1>4, <1>5, <1>6, <1>7, InertReflexive

LEMMA InertHandleHeartbeat ==
  ASSUME NEW p \in Peers, NEW r, NEW m, IsRaft(r), r.term \in Nat, Sendable(m)
  PROVE  Inert(r, handleHeartbeat(p, r, m))
<1> DEFINE s == IF m.term = r.acc THEN commitTo(r, LessOf(m.commit, Len(r.log))) ELSE r
           x == [type |-> "HeartbeatResp", from |-> p, to |-> m.from, term |-> r.term]
<1>1. Inert(r, s)
  BY InertCommitTo, InertReflexive
<1>2. Sendable(x) /\ x.type # "VoteResp"
  BY DEF Sendable
<1>3. Inert(s, send(s, x))
  <2> HIDE DEF s, x
  <2> QED BY <1>1, <1>2, InertSend DEF Inert
<1>4. handleHeartbeat(p, r, m) \in {send(s, x), Fail(r, "match is out of range")}
  BY DEF handleHeartbeat
<1> HIDE DEF s, x
<1> QED BY <1>1, <1>3, <1>4, InertTransitive, InertFail

LEMMA InertHandleFortify ==
  ASSUME NEW p \in Peers, NEW r, NEW m, IsRaft(r), r.term \in Nat, Sendable(m)
  PROVE  Inert(r, handleFortify(p, r, m))
<1> DEFINE epoch == SupportFor(p, r.lead)
           s == IF epoch = 0 THEN r ELSE [r EXCEPT !.leadEpoch = epoch]
           x == [type |-> "FortifyLeaderResp", from |-> p, to |-> m.from, term |-> r.term,
                 epoch |-> epoch, reject |-> epoch = 0]
<1>1. Inert(r, s)
  BY InertFields, InertReflexive
<1>2. Sendable(x) /\ x.type # "VoteResp"
  BY DEF Sendable
<1>3. Inert(s, send(s, x))
  <2> HIDE DEF s, x
  <2> QED BY <1>1, <1>2, InertSend DEF Inert
<1>4. handleFortify(p, r, m) = send(s, x)
  BY DEF handleFortify
<1> HIDE DEF s, x
<1> QED BY <1>1, <1>3, <1>4, InertTransitive

LEMMA InertFollowLeader ==
  ASSUME NEW p \in Peers, NEW r, NEW m, IsRaft(r), r.term \in Nat, Sendable(m),
         m.type \in {"App", "Heartbeat", "FortifyLeader"}
  PROVE  Inert(r, FollowLeader(p, r, m))
<1>1. FollowLeader(p, r, m) \in {handleAppendEntries(p, r, m), handleHeartbeat(p, r, m),
                                 handleFortify(p, r, m)}
  BY DEF FollowLeader
<1> QED BY <1>1, InertHandleAppendEntries, InertHandleHeartbeat, InertHandleFortify

LEMMA InertMaybeCommit == ASSUME NEW r, IsRaft(r) PROVE Inert(r, maybeCommit(r))
<1>1. \E i : maybeCommit(r) \in {r, commitTo(r, i)}
  BY Zenon DEF maybeCommit
<1> QED BY <1>1, InertCommitTo, InertReflexive

-----------------------------------------------------------------------------
(* Changes of term and role. *)

LEMMA VotesOnceLater ==
  ASSUME NEW p, NEW r, NEW s, VotesOnce(p, r), IsRaft(s), SentOK(s),
         s.term \in Nat, s.vote \in Peers \cup {None}, Grants(s.after) = Grants(r.after),
         (s.term = r.term /\ s.vote = r.vote) \/ s.term > r.term
  PROVE  VotesOnce(p, s)
<1>1. \A m \in Grants(r.after) : m.term \in Nat
  BY DEF VotesOnce, SentOK, Sendable, Grants
<1>2. stable[p].term \in Nat /\ stable[p].term <= s.term
  BY DEF VotesOnce
<1>3. stable[p].term = s.term /\ stable[p].vote # None => s.vote = stable[p].vote
  BY DEF VotesOnce
<1>4. \A m \in Grants(s.after) : m.from = p /\ m.term <= s.term /\ (m.term = s.term => s.vote = m.to)
  BY <1>1 DEF VotesOnce
<1> QED BY <1>2, <1>3, <1>4 DEF VotesOnce

(* A grant x may be held for q if the peer has no other vote in this term. *)
LEMMA VotesOnceGrant ==
  ASSUME NEW p \in Peers, NEW q \in Peers, NEW r, NEW s, NEW x,
         PledgesAreDurable, VotesOnce(p, r), r.vote \in {q, None},
         IsRaft(s), SentOK(s), s.term = r.term, s.vote = q,
         Grants(s.after) \subseteq Grants(r.after) \cup {x},
         x.from = p, x.to = q, x.term = r.term
  PROVE  VotesOnce(p, s)
<1>1. stable[p].term = s.term /\ stable[p].vote # None => s.vote = stable[p].vote
  BY NoneAssumption DEF VotesOnce
<1>2. \A m \in Grants(r.after) : m.from = p /\ m.term <= r.term /\ (m.term = r.term => m.to = q)
  BY NoneAssumption DEF VotesOnce, SentOK, Sendable, Grants
<1>3. \A m \in Grants(pledges) : m.from = p /\ m.term = r.term => m.to = q
  <2> SUFFICES ASSUME NEW m \in Grants(pledges), m.from = p, m.term = r.term PROVE m.to = q
    OBVIOUS
  <2>1. m.to \in Peers /\ m.term <= stable[p].term
        /\ (m.term = stable[p].term => stable[p].vote = m.to)
    BY DEF PledgesAreDurable
  <2>2. m.term = stable[p].term
    BY <2>1 DEF VotesOnce
  <2> QED BY <2>1, <2>2, NoneAssumption DEF VotesOnce
<1>4. OneVote(p, Grants(r.after) \cup Grants(pledges) \cup {x})
  <2> SUFFICES ASSUME NEW m \in Grants(r.after) \cup Grants(pledges) \cup {x},
                      NEW n \in Grants(r.after) \cup Grants(pledges) \cup {x},
                      m.from = p, n.from = p, m.term = n.term
               PROVE  m.to = n.to
    BY DEF OneVote
  <2>1. CASE m = x \/ n = x
    BY <2>1, <1>2, <1>3
  <2>2. CASE m # x /\ n # x
    BY <2>2 DEF VotesOnce, OneVote
  <2> QED BY <2>1, <2>2
<1>5. OneVote(p, Grants(s.after) \cup Grants(pledges))
  BY <1>4 DEF OneVote
<1>6. \A m \in Grants(s.after) : m.from = p /\ m.term <= s.term /\ (m.term = s.term => s.vote = m.to)
  BY <1>2 DEF VotesOnce
<1>7. s.vote \in Peers \cup {None} /\ s.term \in Nat /\ stable[p].term \in Nat
      /\ stable[p].term <= s.term
  BY DEF VotesOnce
<1> QED BY <1>1, <1>5, <1>6, <1>7 DEF VotesOnce

LEMMA ResetKeeps ==
  ASSUME NEW p \in Peers, NEW r, VotesOnce(p, r), NEW t \in Nat, r.term <= t
  PROVE  LET s == reset(p, r, t)
         IN /\ VotesOnce(p, s)
            /\ s.term = t /\ s.votes.yes = {} /\ s.state = r.state
            /\ Grants(s.after) = Grants(r.after)
<1> DEFINE a == AskSupport(p, r)
           b == IF supportingFortifiedLeader(p, r) /\ r.lead # p
                THEN Fail(a, "should not be changing terms when supporting a fortified leader")
                ELSE a
           c == IF r.term = t THEN r
                ELSE [b EXCEPT !.term = t, !.vote = None, !.lead = None, !.leadEpoch = 0]
           none == [yes |-> {}, no |-> {}]
           match == [q \in Peers |-> IF q = p THEN Len(r.log) ELSE 0]
           s == [c EXCEPT !.leadTransferee = None, !.votes = none, !.match = match]
<1>0. IsRaft(r) /\ SentOK(r) /\ r.vote \in Peers \cup {None} /\ r.term \in Nat
  BY DEF VotesOnce
<1>1. Inert(r, a)
  BY <1>0, InertAskSupport
<1>2. Inert(r, b)
  <2> HIDE DEF a
  <2>1. \A w : Inert(a, Fail(a, w))
    BY <1>1, InertFail DEF Inert
  <2> QED BY <1>1, <2>1, InertTransitive
<1>3. /\ IsRaft(c) /\ SentOK(c) /\ c.term = t /\ c.state = r.state
      /\ Grants(c.after) = Grants(r.after)
      /\ c.vote = IF r.term = t THEN r.vote ELSE None
  <2> HIDE DEF b
  <2>1. CASE r.term = t
    BY <2>1, <1>0
  <2>2. CASE r.term # t
    <3>1. IsRaft(b) /\ SentOK(b) /\ b.state = r.state /\ Grants(b.after) = Grants(r.after)
      BY <1>0, <1>2 DEF Inert
    <3>2. IsRaft(c) /\ c.term = t /\ c.vote = None /\ c.state = b.state /\ c.after = b.after
          /\ c.out = b.out
      BY <2>2, <3>1 DEF IsRaft, Fields
    <3> HIDE DEF c
    <3> QED BY <2>2, <3>1, <3>2 DEF SentOK
  <2> QED BY <2>1, <2>2
<1>4. reset(p, r, t) = s
  BY DEF reset
<1>5. /\ IsRaft(s) /\ s.term = c.term /\ s.vote = c.vote /\ s.state = c.state
      /\ s.after = c.after /\ s.out = c.out /\ s.votes.yes = {}
  <2> HIDE DEF c, match
  <2> QED BY <1>3 DEF IsRaft, Fields
<1> HIDE DEF s, c
<1>6. SentOK(s)
  BY <1>3, <1>5 DEF SentOK
<1>7. VotesOnce(p, s)
  BY <1>0, <1>3, <1>5, <1>6, VotesOnceLater
<1> QED BY <1>3, <1>4, <1>5, <1>7

LEMMA BecomeFollowerSound ==
  ASSUME NEW p \in Peers, NEW r, VotesOnce(p, r), NEW t \in Nat, r.term <= t, NEW lead
  PROVE  LET s == becomeFollower(p, r, t, lead)
         IN Sound(p, s) /\ s.term = t /\ s.state = "Follower"
<1> DEFINE c == reset(p, r, t)
           s == [c EXCEPT !.lead = lead, !.state = "Follower"]
<1>1. VotesOnce(p, c) /\ c.term = t /\ c.votes.yes = {}
  BY ResetKeeps
<1>2. s = becomeFollower(p, r, t, lead)
  BY DEF becomeFollower
<1> HIDE DEF c
<1>3. /\ IsRaft(s) /\ s.term = c.term /\ s.vote = c.vote /\ s.state = "Follower"
      /\ s.after = c.after /\ s.out = c.out /\ s.votes = c.votes
  BY <1>1 DEF VotesOnce, IsRaft, Fields
<1> HIDE DEF s
<1>4. VotesOnce(p, s)
  <2>1. SentOK(s)
    BY <1>1, <1>3 DEF VotesOnce, SentOK
  <2> QED BY <2>1, <1>1, <1>3, VotesOnceLater DEF VotesOnce
<1>5. Counts(p, s)
  BY <1>1, <1>3 DEF Counts
<1> QED BY <1>1, <1>2, <1>3, <1>4, <1>5 DEF Sound

LEMMA BecomeCandidateSound ==
  ASSUME NEW p \in Peers, NEW r, VotesOnce(p, r)
  PROVE  LET s == becomeCandidate(p, r) IN Sound(p, s) /\ s.vote = p
<1> DEFINE c == reset(p, r, r.term + 1)
           s == [c EXCEPT !.vote = p, !.state = "Candidate"]
<1>0. r.term \in Nat /\ r.term + 1 \in Nat /\ r.term <= r.term + 1
  BY DEF VotesOnce
<1>1. VotesOnce(p, c) /\ c.term = r.term + 1 /\ c.votes.yes = {} /\ Grants(c.after) = Grants(r.after)
  BY <1>0, ResetKeeps
<1>2. s = becomeCandidate(p, r)
  BY DEF becomeCandidate
<1> HIDE DEF c
<1>3. /\ IsRaft(s) /\ s.term = c.term /\ s.vote = p /\ s.after = c.after /\ s.out = c.out
      /\ s.votes = c.votes /\ s.state = "Candidate"
  BY <1>1 DEF VotesOnce, IsRaft, Fields
<1> HIDE DEF s
<1>4. VotesOnce(p, s)
  <2>1. SentOK(s)
    BY <1>1, <1>3 DEF VotesOnce, SentOK
  <2> QED BY <2>1, <1>0, <1>1, <1>3, VotesOnceLater
<1>5. Counts(p, s)
  BY <1>1, <1>3 DEF Counts
<1> QED BY <1>2, <1>3, <1>4, <1>5 DEF Sound

LEMMA BecomePreCandidateSound ==
  ASSUME NEW p \in Peers, NEW r, VotesOnce(p, r)
  PROVE  Sound(p, becomePreCandidate(p, r))
<1> DEFINE a == AskSupport(p, r)
           b == IF supportingFortifiedLeader(p, r) /\ r.lead # p
                THEN Fail(a, "should not be supporting a fortified leader when becoming pre-candidate")
                ELSE a
           none == [yes |-> {}, no |-> {}]
           s == [b EXCEPT !.votes = none, !.lead = None, !.leadEpoch = 0, !.state = "PreCandidate"]
<1>0. IsRaft(r)
  BY DEF VotesOnce
<1>1. Inert(r, a)
  BY <1>0, InertAskSupport
<1>2. Inert(r, b)
  <2> HIDE DEF a
  <2>1. \A w : Inert(a, Fail(a, w))
    BY <1>1, InertFail DEF Inert
  <2> QED BY <1>1, <2>1, InertTransitive
<1>3. VotesOnce(p, b)
  <2> HIDE DEF b
  <2> QED BY <1>2, InertKeeps
<1>4. s = becomePreCandidate(p, r)
  BY DEF becomePreCandidate
<1> HIDE DEF b
<1>5. /\ IsRaft(s) /\ s.term = b.term /\ s.vote = b.vote /\ s.after = b.after /\ s.out = b.out
      /\ s.votes.yes = {} /\ s.state = "PreCandidate"
  BY <1>3 DEF VotesOnce, IsRaft, Fields
<1> HIDE DEF s
<1>6. VotesOnce(p, s)
  <2>1. SentOK(s)
    BY <1>3, <1>5 DEF VotesOnce, SentOK
  <2> QED BY <2>1, <1>3, <1>5, VotesOnceLater DEF VotesOnce
<1>7. Counts(p, s)
  BY <1>5 DEF Counts
<1> QED BY <1>4, <1>6, <1>7 DEF Sound

(* A candidate holds its own vote back like any other. *)
LEMMA CampaignSound ==
  ASSUME NEW p \in Peers, NEW r, NEW t, VotesOnce(p, r), PledgesAreDurable
  PROVE  Sound(p, campaign(p, r, t))
<1> DEFINE s == IF t = "PreElection" THEN becomePreCandidate(p, r) ELSE becomeCandidate(p, r)
           kind == IF t = "PreElection" THEN "PreVote" ELSE "Vote"
           resp == IF t = "PreElection" THEN "PreVoteResp" ELSE "VoteResp"
           term == IF t = "PreElection" THEN s.term + 1 ELSE s.term
           x == [type |-> resp, from |-> p, to |-> p, term |-> term, reject |-> FALSE]
           M == {[type |-> kind, from |-> p, to |-> q, term |-> term,
                  index |-> Len(s.log), logTerm |-> LastTerm(s.log),
                  force |-> t = "Transfer"] : q \in Peers \ {p}}
           c == [s EXCEPT !.after = @ \cup {x}, !.out = @ \cup M]
<1>1. Sound(p, s) /\ (t # "PreElection" => s.vote = p)
  BY BecomeCandidateSound, BecomePreCandidateSound
<1>2. c = campaign(p, r, t)
  BY DEF campaign
<1> HIDE DEF s
<1>3. term \in Nat
  BY <1>1 DEF Sound, VotesOnce
<1>4. Sendable(x) /\ \A m \in M : Sendable(m) /\ m.type # "VoteResp"
  <2> HIDE DEF term
  <2> QED BY <1>3 DEF Sendable
<1>5. x.from = p /\ x.to = p /\ x.term = term /\ x.type = resp
  OBVIOUS
<1> HIDE DEF x, M
<1>6. /\ IsRaft(c) /\ c.term = s.term /\ c.vote = s.vote /\ c.state = s.state /\ c.votes = s.votes
      /\ c.after = s.after \cup {x} /\ c.out = s.out \cup M
  BY <1>1 DEF Sound, VotesOnce, IsRaft, Fields
<1> HIDE DEF c
<1>7. SentOK(c)
  BY <1>1, <1>4, <1>6 DEF Sound, VotesOnce, SentOK
<1>8. Grants(c.after) \subseteq Grants(s.after) \cup {x}
  BY <1>6 DEF Grants
<1>9. VotesOnce(p, c)
  <2>1. CASE t = "PreElection"
    <3>1. Grants(c.after) = Grants(s.after)
      BY <2>1, <1>5, <1>6, Zenon DEF Grants
    <3> QED BY <3>1, <1>1, <1>6, <1>7, VotesOnceLater DEF Sound, VotesOnce
  <2>2. CASE t # "PreElection"
    BY <2>2, <1>1, <1>5, <1>6, <1>7, <1>8, VotesOnceGrant DEF Sound
  <2> QED BY <2>1, <2>2
<1>10. Counts(p, c)
  BY <1>1, <1>6 DEF Sound, Counts
<1> QED BY <1>2, <1>9, <1>10 DEF Sound

LEMMA HupSound ==
  ASSUME NEW p \in Peers, NEW r, NEW t, Sound(p, r), PledgesAreDurable
  PROVE  Sound(p, hup(p, r, t))
<1>1. Inert(r, AskSupport(p, r))
  BY InertAskSupport DEF Sound, VotesOnce
<1>2. Sound(p, AskSupport(p, r))
  BY <1>1, InertKeeps DEF Sound
<1>3. Sound(p, campaign(p, AskSupport(p, r), t))
  BY <1>2, CampaignSound DEF Sound
<1> QED BY <1>2, <1>3 DEF hup

(* Only who was pledged the votes of a quorum becomes leader. *)
LEMMA BecomeLeaderSound ==
  ASSUME NEW p \in Peers, NEW r, VotesOnce(p, r), Won(p, r.term)
  PROVE  Sound(p, bcastFortify(p, becomeLeader(p, r)))
<1> DEFINE c == reset(p, r, r.term)
           l == [c EXCEPT !.lead = p, !.state = "Leader"]
           b == becomeLeader(p, r)
<1>1. VotesOnce(p, c) /\ c.term = r.term /\ c.votes.yes = {}
  <2>1. r.term \in Nat /\ r.term <= r.term
    BY DEF VotesOnce
  <2> QED BY <2>1, ResetKeeps
<1>2. b = appendEntry(p, l, Noop)
  BY DEF becomeLeader
<1> HIDE DEF c
<1>3. /\ IsRaft(l) /\ l.term = c.term /\ l.vote = c.vote /\ l.after = c.after /\ l.out = c.out
      /\ l.votes = c.votes /\ l.state = "Leader"
  BY <1>1 DEF VotesOnce, IsRaft, Fields
<1> HIDE DEF l
<1>4. Sound(p, l)
  <2>1. SentOK(l)
    BY <1>1, <1>3 DEF VotesOnce, SentOK
  <2>2. VotesOnce(p, l)
    BY <2>1, <1>1, <1>3, VotesOnceLater DEF VotesOnce
  <2>3. Counts(p, l)
    BY <1>1, <1>3 DEF Counts
  <2> QED BY <2>2, <2>3 DEF Sound
<1>5. Inert(l, b)
  BY <1>2, <1>4, InertAppendEntry DEF Sound, VotesOnce
<1> HIDE DEF b
<1>6. Sound(p, b)
  BY <1>4, <1>5, InertKeeps DEF Sound
<1>7. Inert(b, bcastFortify(p, b))
  BY <1>6, InertBcastFortify DEF Sound, VotesOnce
<1> QED BY <1>6, <1>7, InertKeeps DEF Sound, b

-----------------------------------------------------------------------------
(* Messages. *)

Arrived(p, m) ==
  /\ Sendable(m) /\ m.to = p
  /\ m.type = "VoteResp" /\ ~m.reject => m \in Grants(pledges)

AtTerm(r, m) == m.type \notin {"PreVote", "PreVoteResp"} => m.term = r.term

LEMMA SoundSend ==
  ASSUME NEW p \in Peers, NEW r, NEW m, Sound(p, r), Sendable(m), m.type # "VoteResp"
  PROVE  Sound(p, send(r, m))
BY InertSend, InertKeeps DEF Sound, VotesOnce

LEMMA TransferLeaderSound ==
  ASSUME NEW p \in Peers, NEW r, NEW to \in Peers, Sound(p, r)
  PROVE  Sound(p, transferLeader(p, r, to))
<1> DEFINE x == [type |-> "TimeoutNow", from |-> p, to |-> to, term |-> r.term]
           s == send(r, x)
<1>1. r.term \in Nat /\ r.term <= r.term
  BY DEF Sound, VotesOnce
<1>2. Sendable(x) /\ x.type # "VoteResp"
  BY <1>1 DEF Sendable
<1>3. Inert(r, s)
  <2> HIDE DEF x
  <2> QED BY <1>2, InertSend DEF Sound, VotesOnce
<1> HIDE DEF s
<1>4. VotesOnce(p, s) /\ s.term = r.term
  BY <1>3, InertKeeps DEF Sound, Inert
<1>5. transferLeader(p, r, to) = becomeFollower(p, s, r.term, r.lead)
  BY DEF transferLeader, s
<1> QED BY <1>1, <1>4, <1>5, BecomeFollowerSound

LEMMA AppRespAtLeaderSound ==
  ASSUME NEW p \in Peers, NEW r, NEW m, Sound(p, r), Sendable(m)
  PROVE  Sound(p, AppRespAtLeader(p, r, m))
<1> DEFINE a == [r EXCEPT !.match[m.from] = m.index]
           s == maybeCommit(a)
<1>1. Inert(r, a)
  BY InertFields DEF Sound, VotesOnce
<1>2. Inert(a, s)
  <2> HIDE DEF a
  <2> QED BY <1>1, InertMaybeCommit DEF Inert
<1>3. Sound(p, s)
  <2> HIDE DEF a, s
  <2> QED BY <1>1, <1>2, InertTransitive, InertKeeps DEF Sound
<1>4. Sound(p, transferLeader(p, s, m.from))
  <2> HIDE DEF s
  <2> QED BY <1>3, TransferLeaderSound DEF Sendable
<1>5. AppRespAtLeader(p, r, m) \in {r, s, transferLeader(p, s, m.from)}
  BY Zenon DEF AppRespAtLeader
<1> HIDE DEF s
<1> QED BY <1>3, <1>4, <1>5

LEMMA StepLeaderSound ==
  ASSUME NEW p \in Peers, NEW r, NEW m, Sound(p, r), Sendable(m)
  PROVE  Sound(p, stepLeader(p, r, m))
BY AppRespAtLeaderSound DEF stepLeader

LEMMA PollSound ==
  ASSUME NEW p \in Peers, NEW r, NEW m, Sound(p, r), Arrived(p, m),
         r.state = "Candidate" => m.type = "VoteResp" /\ m.term = r.term,
         r.state # "Leader"
  PROVE  Sound(p, poll(r, m)) /\ poll(r, m).state = r.state /\ poll(r, m).term = r.term
<1> DEFINE s == poll(r, m)
<1>0. IsRaft(r) /\ SentOK(r) /\ m.from \in Peers
  BY DEF Sound, VotesOnce, Arrived, Sendable
<1>1. /\ IsRaft(s) /\ s.term = r.term /\ s.vote = r.vote /\ s.state = r.state
      /\ s.after = r.after /\ s.out = r.out
      /\ \/ s.votes.yes = r.votes.yes
         \/ s.votes.yes = r.votes.yes \cup {m.from} /\ ~m.reject
  <2>1. CASE m.from \in r.votes.yes \cup r.votes.no
    BY <2>1, <1>0 DEF poll
  <2>2. CASE m.from \notin r.votes.yes \cup r.votes.no /\ ~m.reject
    <3>1. s = [r EXCEPT !.votes.yes = @ \cup {m.from}]
      BY <2>2 DEF poll
    <3> HIDE DEF s
    <3>2. IsRaft(s) /\ s.term = r.term /\ s.vote = r.vote /\ s.state = r.state
          /\ s.after = r.after /\ s.out = r.out /\ s.votes.yes = r.votes.yes \cup {m.from}
      BY <3>1, <1>0 DEF IsRaft, Fields
    <3> QED BY <2>2, <3>2
  <2>3. CASE m.from \notin r.votes.yes \cup r.votes.no /\ m.reject
    <3>1. s = [r EXCEPT !.votes.no = @ \cup {m.from}]
      BY <2>3 DEF poll
    <3> HIDE DEF s
    <3>2. IsRaft(s) /\ s.term = r.term /\ s.vote = r.vote /\ s.state = r.state
          /\ s.after = r.after /\ s.out = r.out /\ s.votes.yes = r.votes.yes
      BY <3>1, <1>0 DEF IsRaft, Fields
    <3> QED BY <3>2
  <2> QED BY <2>1, <2>2, <2>3
<1> HIDE DEF s
<1>2. VotesOnce(p, s)
  <2>1. SentOK(s)
    BY <1>0, <1>1 DEF SentOK
  <2> QED BY <2>1, <1>1, VotesOnceLater DEF Sound, VotesOnce
<1>3. Counts(p, s)
  <2>1. s.votes.yes \subseteq Peers
    BY <1>0, <1>1 DEF Sound, Counts
  <2>2. ASSUME s.state = "Candidate" PROVE \A q \in s.votes.yes : Pledge(q, p, s.term)
    <3>1. ~m.reject => Pledge(m.from, p, r.term)
      BY <2>2, <1>1 DEF Pledge, Arrived
    <3> QED BY <3>1, <2>2, <1>1 DEF Sound, Counts
  <2> QED BY <2>1, <2>2, <1>1 DEF Sound, Counts
<1> QED BY <1>1, <1>2, <1>3 DEF Sound, s

LEMMA StepCandidateSound ==
  ASSUME NEW p \in Peers, NEW r, NEW m, Sound(p, r), Arrived(p, m), AtTerm(r, m),
         r.state \in {"PreCandidate", "Candidate"}, PledgesAreDurable
  PROVE  Sound(p, stepCandidate(p, r, m))
<1> DEFINE s == poll(r, m)
           f == becomeFollower(p, r, m.term, m.from)
           mine == IF r.state = "PreCandidate" THEN "PreVoteResp" ELSE "VoteResp"
<1>0. Sendable(m) /\ m.term \in Nat /\ r.term \in Nat
  BY DEF Arrived, Sendable, Sound, VotesOnce
<1>1. CASE m.type \in FromLeader \ {"TimeoutNow"}
  <2>1. m.type \in {"App", "Heartbeat", "FortifyLeader"} /\ r.term <= m.term
    BY <1>0, <1>1 DEF FromLeader, AtTerm
  <2>2. Sound(p, f)
    BY <2>1, <1>0, BecomeFollowerSound DEF Sound
  <2>3. stepCandidate(p, r, m) = FollowLeader(p, f, m)
    <3>1. m.type # mine
      BY <2>1
    <3> HIDE DEF f
    <3> QED BY <1>1, <3>1 DEF stepCandidate, mine, f
  <2> HIDE DEF f
  <2>4. Inert(f, FollowLeader(p, f, m))
    BY <2>1, <2>2, <1>0, InertFollowLeader DEF Sound, VotesOnce
  <2> QED BY <2>2, <2>3, <2>4, InertKeeps DEF Sound
<1>2. CASE m.type \notin FromLeader \ {"TimeoutNow"} /\ m.type = mine
  <2>1. Sound(p, s) /\ s.state = r.state /\ s.term = r.term
    BY <1>2, PollSound DEF AtTerm
  <2> HIDE DEF s
  <2>2. CASE IsQuorum(s.votes.yes) /\ r.state = "PreCandidate"
    <3>1. Sound(p, campaign(p, s, "Election"))
      BY <2>1, CampaignSound DEF Sound
    <3>2. stepCandidate(p, r, m) = campaign(p, s, "Election")
      BY <1>2, <2>2 DEF stepCandidate, s
    <3> QED BY <3>1, <3>2
  <2>3. CASE IsQuorum(s.votes.yes) /\ r.state = "Candidate"
    <3>1. Won(p, s.term)
      BY <2>1, <2>3 DEF Won, Sound, Counts
    <3>2. Sound(p, bcastFortify(p, becomeLeader(p, s)))
      BY <2>1, <3>1, BecomeLeaderSound DEF Sound
    <3>3. stepCandidate(p, r, m) = bcastFortify(p, becomeLeader(p, s))
      BY <1>2, <2>3 DEF stepCandidate, s
    <3> QED BY <3>2, <3>3
  <2>4. CASE ~IsQuorum(s.votes.yes)
    <3>1. Sound(p, becomeFollower(p, s, s.term, s.lead))
      <4>1. s.term \in Nat /\ s.term <= s.term /\ VotesOnce(p, s)
        BY <2>1 DEF Sound, VotesOnce
      <4> QED BY <4>1, BecomeFollowerSound
    <3>2. stepCandidate(p, r, m) \in {s, becomeFollower(p, s, s.term, s.lead)}
      BY <1>2, <2>4 DEF stepCandidate, s
    <3> QED BY <2>1, <3>1, <3>2
  <2> QED BY <2>2, <2>3, <2>4
<1>3. CASE m.type \notin FromLeader \ {"TimeoutNow"} /\ m.type # mine
  BY <1>3 DEF stepCandidate
<1> QED BY <1>1, <1>2, <1>3

LEMMA StepFollowerSound ==
  ASSUME NEW p \in Peers, NEW r, NEW m, Sound(p, r), Arrived(p, m), PledgesAreDurable
  PROVE  Sound(p, stepFollower(p, r, m))
<1> DEFINE f == [r EXCEPT !.lead = m.from]
           e == [r EXCEPT !.leadEpoch = 0]
<1>0. Sendable(m) /\ IsRaft(r)
  BY DEF Arrived, Sound, VotesOnce
<1>1. Sound(p, f) /\ Sound(p, e)
  <2>1. Inert(r, f) /\ Inert(r, e)
    BY <1>0, InertFields
  <2> HIDE DEF f, e
  <2> QED BY <2>1, InertKeeps DEF Sound
<1>2. CASE m.type \in FromLeader \ {"TimeoutNow"}
  <2>1. stepFollower(p, r, m) = FollowLeader(p, f, m)
    BY <1>2 DEF stepFollower
  <2>2. m.type \in {"App", "Heartbeat", "FortifyLeader"}
    BY <1>2 DEF FromLeader
  <2> HIDE DEF f
  <2>3. Inert(f, FollowLeader(p, f, m))
    BY <1>0, <1>1, <2>2, InertFollowLeader DEF Sound, VotesOnce
  <2> QED BY <1>1, <2>1, <2>3, InertKeeps DEF Sound
<1>3. CASE m.type \notin FromLeader \ {"TimeoutNow"}
  <2>1. stepFollower(p, r, m) \in {r, hup(p, e, "Transfer")}
    BY <1>3 DEF stepFollower
  <2> HIDE DEF e
  <2> QED BY <1>1, <2>1, HupSound
<1> QED BY <1>2, <1>3

(* A peer grants its vote only if it has none or has given the same one. *)
LEMMA StepVoteSound ==
  ASSUME NEW p \in Peers, NEW r, NEW m, Sound(p, r), Arrived(p, m), AtTerm(r, m),
         m.type \in {"Vote", "PreVote"}, PledgesAreDurable
  PROVE  Sound(p, stepVote(p, r, m))
<1> DEFINE canVote == \/ r.vote = m.from
                      \/ r.vote = None /\ r.lead = None
                      \/ m.type = "PreVote" /\ m.term > r.term
           resp == IF m.type = "Vote" THEN "VoteResp" ELSE "PreVoteResp"
           grant == canVote /\ isUpToDate(r.log, m.logTerm, m.index)
           x == [type |-> resp, from |-> p, to |-> m.from,
                 term |-> IF grant THEN m.term ELSE r.term, reject |-> ~grant]
           v == [r EXCEPT !.vote = IF grant /\ m.type = "Vote" THEN m.from ELSE @]
           s == send(v, x)
<1>0. IsRaft(r) /\ SentOK(r) /\ m.from \in Peers /\ m.term \in Nat /\ r.term \in Nat
  BY DEF Arrived, Sendable, Sound, VotesOnce
<1>1. s = stepVote(p, r, m)
  BY DEF stepVote
<1>2. /\ Sendable(x) /\ x.type = resp /\ x.from = p /\ x.to = m.from
      /\ x.term = IF grant THEN m.term ELSE r.term
  <2> HIDE DEF resp, grant
  <2> QED BY <1>0 DEF Sendable
<1>3. x.reject <=> ~grant
  <2> HIDE DEF resp, grant
  <2> QED OBVIOUS
<1> HIDE DEF grant, x
<1>4. resp \in TypeOfResponse
  BY DEF TypeOfResponse
<1>5. /\ IsRaft(s) /\ s.term = r.term /\ s.state = r.state /\ s.votes = r.votes
      /\ s.vote = IF grant /\ m.type = "Vote" THEN m.from ELSE r.vote
      /\ s.after = r.after \cup {x} /\ s.out = r.out
  <2> HIDE DEF resp
  <2> QED BY <1>0, <1>2, <1>4 DEF send, IsRaft, Fields
<1> HIDE DEF s, v
<1>6. SentOK(s)
  BY <1>0, <1>2, <1>5 DEF SentOK
<1>7. Counts(p, s)
  BY <1>5 DEF Sound, Counts
<1>8. VotesOnce(p, s)
  <2>1. CASE grant /\ m.type = "Vote"
    <3>1. x.term = r.term /\ r.vote \in {m.from, None}
      BY <2>1, <1>2 DEF AtTerm, grant
    <3>2. Grants(s.after) \subseteq Grants(r.after) \cup {x}
      BY <1>5 DEF Grants
    <3> QED BY <2>1, <3>1, <3>2, <1>0, <1>2, <1>5, <1>6, VotesOnceGrant DEF Sound
  <2>2. CASE ~(grant /\ m.type = "Vote")
    <3>1. x \notin Grants({x})
      BY <2>2, <1>2, <1>3, Zenon DEF Grants
    <3>2. Grants(s.after) = Grants(r.after)
      BY <3>1, <1>5, Zenon DEF Grants
    <3> QED BY <2>2, <3>2, <1>0, <1>5, <1>6, VotesOnceLater DEF Sound, VotesOnce
  <2> QED BY <2>1, <2>2
<1> QED BY <1>1, <1>7, <1>8 DEF Sound

LEMMA StepAtTermSound ==
  ASSUME NEW p \in Peers, NEW r, NEW m, Sound(p, r), Arrived(p, m), AtTerm(r, m), PledgesAreDurable
  PROVE  Sound(p, StepAtTerm(p, r, m))
<1>1. CASE m.type \in {"Vote", "PreVote"}
  BY <1>1, StepVoteSound DEF StepAtTerm
<1>2. CASE m.type \notin {"Vote", "PreVote"} /\ r.state = "Leader"
  BY <1>2, StepLeaderSound DEF StepAtTerm, Arrived
<1>3. CASE m.type \notin {"Vote", "PreVote"} /\ r.state = "Follower"
  BY <1>3, StepFollowerSound DEF StepAtTerm
<1>4. CASE m.type \notin {"Vote", "PreVote"} /\ r.state \notin {"Leader", "Follower"}
  <2>1. r.state \in {"PreCandidate", "Candidate"}
    BY <1>4 DEF Sound, Counts
  <2> QED BY <1>4, <2>1, StepCandidateSound DEF StepAtTerm
<1> QED BY <1>1, <1>2, <1>3, <1>4

LEMMA TakeTermSound ==
  ASSUME NEW p \in Peers, NEW r, NEW m, Sound(p, r), Arrived(p, m), m.term > r.term
  PROVE  Sound(p, TakeTerm(p, r, m)) /\ AtTerm(TakeTerm(p, r, m), m)
<1> DEFINE a == [AskSupport(p, r) EXCEPT !.leadEpoch = 0]
           e == [r EXCEPT !.leadEpoch = 0]
<1>0. IsRaft(r) /\ m.term \in Nat /\ r.term \in Nat /\ r.term <= m.term
  BY DEF Arrived, Sendable, Sound, VotesOnce
<1>1. Inert(r, a)
  <2>1. Inert(r, AskSupport(p, r))
    BY <1>0, InertAskSupport
  <2>2. Inert(AskSupport(p, r), a)
    BY <2>1, InertFields DEF Inert
  <2> QED BY <2>1, <2>2, InertTransitive
<1>2. Inert(r, e)
  BY <1>0, InertFields
<1> HIDE DEF a, e
<1>3. Sound(p, a) /\ Sound(p, e) /\ a.term = r.term /\ e.term = r.term
  <2>1. a.term = r.term /\ e.term = r.term
    BY <1>1, <1>2 DEF Inert
  <2> QED BY <2>1, <1>1, <1>2, InertKeeps DEF Sound
<1>4. \A f \in {a, e, r} : \A lead :
        Sound(p, becomeFollower(p, f, m.term, lead)) /\ becomeFollower(p, f, m.term, lead).term = m.term
  <2> TAKE f \in {a, e, r}
  <2> TAKE lead
  <2>1. VotesOnce(p, f) /\ f.term <= m.term
    BY <1>0, <1>3 DEF Sound
  <2> QED BY <2>1, <1>0, BecomeFollowerSound
<1>5. CASE m.type = "PreVote"
  BY <1>5, <1>3 DEF TakeTerm, a, AtTerm, FromLeader
<1>6. CASE m.type = "Vote"
  <2>1. TakeTerm(p, r, m) = becomeFollower(p, a, m.term, None)
    BY <1>6 DEF TakeTerm, a, FromLeader
  <2> QED BY <2>1, <1>4 DEF AtTerm
<1>7. CASE m.type = "PreVoteResp" /\ ~m.reject
  BY <1>7 DEF TakeTerm, AtTerm, FromLeader
<1>8. CASE m.type \in FromLeader
  <2>1. TakeTerm(p, r, m) = becomeFollower(p, e, m.term, m.from)
    BY <1>8 DEF TakeTerm, e, FromLeader
  <2> QED BY <2>1, <1>4 DEF AtTerm
<1>9. CASE /\ m.type \notin {"PreVote", "Vote"} \cup FromLeader
           /\ ~(m.type = "PreVoteResp" /\ ~m.reject)
  <2>1. TakeTerm(p, r, m) = becomeFollower(p, r, m.term, None)
    BY <1>9 DEF TakeTerm
  <2> QED BY <2>1, <1>4 DEF AtTerm
<1> QED BY <1>5, <1>6, <1>7, <1>8, <1>9

LEMMA StepSound ==
  ASSUME NEW p \in Peers, NEW r, NEW m, NEW inLease, Sound(p, r), Arrived(p, m), PledgesAreDurable
  PROVE  Sound(p, Step(p, r, m, inLease))
<1>0. IsRaft(r) /\ Sendable(m) /\ m.term \in Nat /\ r.term \in Nat
  BY DEF Arrived, Sendable, Sound, VotesOnce
<1>1. CASE m.term > r.term /\ IgnoresVote(p, r, m, inLease)
  <2>1. Sound(p, AskSupport(p, r))
    BY <1>0, InertAskSupport, InertKeeps DEF Sound
  <2> QED BY <1>0, <1>1, <2>1 DEF Step
<1>2. CASE m.term > r.term /\ ~IgnoresVote(p, r, m, inLease)
  <2>1. Step(p, r, m, inLease) = StepAtTerm(p, TakeTerm(p, r, m), m)
    BY <1>0, <1>2 DEF Step
  <2> QED BY <1>2, <2>1, TakeTermSound, StepAtTermSound
<1>3. CASE m.term < r.term /\ m.type \in {"App", "Heartbeat"}
  <2>1. Sendable(AppRespOf(p, r, m, 0)) /\ AppRespOf(p, r, m, 0).type # "VoteResp"
    BY <1>0 DEF AppRespOf, Sendable
  <2>2. Step(p, r, m, inLease) = send(r, AppRespOf(p, r, m, 0))
    BY <1>0, <1>3 DEF Step
  <2> QED BY <2>1, <2>2, SoundSend
<1>4. CASE m.term < r.term /\ m.type = "PreVote"
  <2> DEFINE x == [type |-> "PreVoteResp", from |-> p, to |-> m.from, term |-> r.term,
                   reject |-> TRUE]
  <2>1. Sendable(x) /\ x.type # "VoteResp"
    BY <1>0 DEF Sendable
  <2>2. Step(p, r, m, inLease) = send(r, x)
    BY <1>0, <1>4 DEF Step
  <2> HIDE DEF x
  <2> QED BY <2>1, <2>2, SoundSend
<1>5. CASE m.term < r.term /\ m.type \notin {"App", "Heartbeat", "PreVote"}
  BY <1>0, <1>5 DEF Step
<1>6. CASE m.term = r.term
  <2>1. Step(p, r, m, inLease) = StepAtTerm(p, r, m)
    BY <1>0, <1>6 DEF Step
  <2> QED BY <1>6, <2>1, StepAtTermSound DEF AtTerm
<1> QED BY <1>0, <1>1, <1>2, <1>3, <1>4, <1>5, <1>6

-----------------------------------------------------------------------------
(* What the end of a step does: pledges grow, disks are written, messages  *)
(* go out.                                                                 *)

LEMMA PledgesLast ==
  ASSUME NEW p, NEW t, pledges \subseteq pledges'
  PROVE  /\ \A q : Pledge(q, p, t) => Pledge(q, p, t)'
         /\ Won(p, t) => Won(p, t)'
<1>1. \A q : Pledge(q, p, t) => Pledge(q, p, t)'
  BY DEF Pledge, Grants
<1>2. Won(p, t) => Won(p, t)'
  BY <1>1 DEF Won
<1> QED BY <1>1, <1>2

LEMMA CountsLater ==
  ASSUME NEW p, NEW r, Counts(p, r), pledges \subseteq pledges'
  PROVE  Counts(p, r)'
BY PledgesLast DEF Counts

(* A peer whose disk is left alone, while others make their pledges. *)
LEMMA SoundLater ==
  ASSUME NEW p, NEW r, Sound(p, r), pledges \subseteq pledges', stable'[p] = stable[p],
         \A m \in Grants(pledges') : m \in Grants(pledges) \/ m.from # p
  PROVE  Sound(p, r)'
<1>1. Counts(p, r)'
  BY CountsLater DEF Sound
<1>2. OneVote(p, Grants(r.after) \cup Grants(pledges))
  BY DEF Sound, VotesOnce
<1>3. OneVote(p, Grants(r.after) \cup Grants(pledges'))
  BY <1>2 DEF OneVote
<1>4. VotesOnce(p, r)'
  BY <1>3 DEF Sound, VotesOnce
<1> QED BY <1>1, <1>4 DEF Sound

(* A write to disk: what was held back is pledged. *)
LEMMA GrantsPledged ==
  ASSUME NEW M, pledges' = pledges \cup Pledged(M)
  PROVE  Grants(pledges') = Grants(pledges) \cup Grants(M)
BY Zenon DEF Grants, Pledged

LEMMA SoundOnDisk ==
  ASSUME NEW p \in Peers, NEW r, NEW s, Sound(p, r), IsRaft(s),
         s.term = r.term, s.vote = r.vote, s.state = r.state, s.votes = r.votes,
         s.out \subseteq r.out, s.after = {},
         stable'[p] = HardState(r), pledges' = pledges \cup Pledged(r.after)
  PROVE  Sound(p, s)'
<1>1. Counts(p, s)'
  <2>1. Counts(p, s)
    BY DEF Sound, Counts
  <2> QED BY <2>1, CountsLater
<1>2. Grants(s.after) = {}
  BY DEF Grants
<1>3. OneVote(p, Grants(s.after) \cup Grants(pledges'))
  BY <1>2, GrantsPledged DEF OneVote, Sound, VotesOnce
<1>4. stable'[p].term = r.term /\ stable'[p].vote = r.vote
  BY DEF HardState
<1>5. SentOK(s)
  BY DEF SentOK, Sound, VotesOnce
<1>6. VotesOnce(p, s)'
  BY <1>2, <1>3, <1>4, <1>5 DEF Sound, VotesOnce
<1> QED BY <1>1, <1>6 DEF Sound

LEMMA DurableOnDisk ==
  ASSUME NEW p \in Peers, NEW r, Sound(p, r), PledgesAreDurable, StatesAreFunctions,
         stable' = [stable EXCEPT ![p] = HardState(r)], pledges' = pledges \cup Pledged(r.after)
  PROVE  PledgesAreDurable'
<1> SUFFICES ASSUME NEW m \in Grants(pledges')
             PROVE  /\ m.from \in Peers /\ m.to \in Peers /\ m.term \in Nat
                    /\ m.term <= stable'[m.from].term
                    /\ m.term = stable'[m.from].term => stable'[m.from].vote = m.to
  BY DEF PledgesAreDurable
<1>0. /\ r.term \in Nat /\ stable[p].term \in Nat /\ stable[p].term <= r.term
      /\ stable[p].term = r.term /\ stable[p].vote # None => r.vote = stable[p].vote
  BY DEF Sound, VotesOnce
<1>1. stable'[p].term = r.term /\ stable'[p].vote = r.vote
  BY DEF HardState, StatesAreFunctions
<1>2. \A q \in Peers \ {p} : stable'[q] = stable[q]
  BY DEF StatesAreFunctions
<1>3. CASE m \in Grants(pledges)
  <2>1. /\ m.from \in Peers /\ m.to \in Peers /\ m.term \in Nat
        /\ m.term <= stable[m.from].term
        /\ m.term = stable[m.from].term => stable[m.from].vote = m.to
    BY <1>3 DEF PledgesAreDurable
  <2>2. CASE m.from = p
    BY <2>1, <2>2, <1>0, <1>1, NoneAssumption
  <2>3. CASE m.from # p
    BY <2>1, <2>3, <1>2
  <2> QED BY <2>2, <2>3
<1>4. CASE m \in Grants(r.after)
  <2>1. m.from = p /\ m.term <= r.term /\ (m.term = r.term => r.vote = m.to)
    BY <1>4 DEF Sound, VotesOnce
  <2>2. m.to \in Peers /\ m.term \in Nat
    BY <1>4 DEF Sound, VotesOnce, SentOK, Sendable, Grants
  <2> QED BY <2>1, <2>2, <1>1
<1> QED BY <1>3, <1>4, GrantsPledged

LEMMA MessagesLater ==
  ASSUME MessagesArePledged, NEW M, msgs' \subseteq msgs \cup M, pledges \subseteq pledges',
         \A m \in M : Sendable(m) /\ (m.type # "VoteResp" \/ m.reject \/ m \in pledges')
  PROVE  MessagesArePledged'
<1> SUFFICES ASSUME NEW m \in msgs'
             PROVE  Sendable(m) /\ (m.type = "VoteResp" /\ ~m.reject => m \in pledges')
  BY Zenon DEF MessagesArePledged, Grants, Sendable
<1>1. CASE m \in msgs
  BY <1>1, Zenon DEF MessagesArePledged, Grants
<1>2. CASE m \in M
  BY <1>2, Zenon
<1> QED BY <1>1, <1>2

LEMMA LeaderSendsRequests ==
  ASSUME NEW p \in Peers, NEW r, r.term \in Nat
  PROVE  \A m \in LeaderSends(p, r) : Sendable(m) /\ m.type # "VoteResp"
BY DEF LeaderSends, Sendable

LEMMA LeadersLater ==
  ASSUME NEW p \in Peers, NEW r, Sound(p, r), LeadersWon, History(p, r), pledges \subseteq pledges'
  PROVE  LeadersWon'
<1>1. \A e \in elected : e[2] \in Peers /\ Won(e[2], e[1])'
  BY PledgesLast DEF LeadersWon
<1>2. r.state = "Leader" => Won(p, r.term)'
  BY PledgesLast DEF Sound, Counts
<1>3. elected' = elected \/ (r.state = "Leader" /\ elected' = elected \cup {<<r.term, p>>})
  BY DEF History
<1> QED BY <1>1, <1>2, <1>3 DEF LeadersWon

LEMMA RestartSound ==
  ASSUME ElectionInv, NEW p \in Peers
  PROVE  Sound(p, newRaft(p, stable[p]))
<1> DEFINE s == newRaft(p, stable[p])
<1>1. /\ IsRaft(s) /\ s.term = stable[p].term /\ s.vote = stable[p].vote /\ s.state = "Follower"
      /\ s.votes.yes = {} /\ s.out = {} /\ s.after = {}
  BY DEF newRaft, IsRaft, Fields
<1> HIDE DEF s
<1>2. Grants(s.after) = {}
  BY <1>1 DEF Grants
<1>3. OneVote(p, Grants(pledges)) /\ stable[p].term \in Nat /\ stable[p].vote \in Peers \cup {None}
  BY DEF ElectionInv, Sound, VotesOnce, OneVote, StatesAreFunctions
<1>4. SentOK(s)
  BY <1>1 DEF SentOK
<1>5. OneVote(p, Grants(s.after) \cup Grants(pledges))
  BY <1>2, <1>3
<1>6. VotesOnce(p, s)
  BY <1>1, <1>2, <1>3, <1>4, <1>5 DEF VotesOnce
<1>7. Counts(p, s)
  BY <1>1 DEF Counts
<1> QED BY <1>6, <1>7 DEF Sound, s

-----------------------------------------------------------------------------
(* Steps. *)

(* The disk of no peer changes. *)
LEMMA MemoryStep ==
  ASSUME ElectionInv, NEW p \in Peers, NEW r, NEW s, NEW M, Sound(p, r), Sound(p, s),
         raft' = [raft EXCEPT ![p] = s], UNCHANGED <<stable, pledges>>,
         msgs' \subseteq msgs \cup M, \A m \in M : Sendable(m) /\ m.type # "VoteResp",
         History(p, r) \/ UNCHANGED elected
  PROVE  ElectionInv'
<1>1. raft'[p] = s /\ \A q \in Peers \ {p} : raft'[q] = raft[q]
  BY DEF ElectionInv, StatesAreFunctions
<1>2. StatesAreFunctions'
  BY DEF ElectionInv, StatesAreFunctions
<1>3. PledgesAreDurable'
  BY DEF ElectionInv, PledgesAreDurable
<1>4. MessagesArePledged'
  BY MessagesLater DEF ElectionInv
<1>5. LeadersWon'
  <2>1. CASE History(p, r)
    BY <2>1, LeadersLater DEF ElectionInv
  <2>2. CASE UNCHANGED elected
    BY <2>2, PledgesLast DEF ElectionInv, LeadersWon
  <2> QED BY <2>1, <2>2
<1>6. \A q \in Peers : Sound(q, raft[q])'
  <2> TAKE q \in Peers
  <2>1. Sound(q, raft[q]) /\ stable'[q] = stable[q]
    BY DEF ElectionInv
  <2>2. CASE q = p
    <3>1. Sound(p, s)'
      BY SoundLater
    <3> QED BY <2>2, <3>1, <1>1
  <2>3. CASE q # p
    BY <2>1, <2>3, <1>1, SoundLater
  <2> QED BY <2>2, <2>3
<1> QED BY <1>2, <1>3, <1>4, <1>5, <1>6 DEF ElectionInv

(* The state r of p reaches its disk, and what waited for that is sent. *)
LEMMA DiskStep ==
  ASSUME ElectionInv, NEW p \in Peers, NEW r, NEW s, NEW M, Sound(p, r), IsRaft(s),
         s.term = r.term, s.vote = r.vote, s.state = r.state, s.votes = r.votes,
         s.out \subseteq r.out, s.after = {},
         raft' = [raft EXCEPT ![p] = s], stable' = [stable EXCEPT ![p] = HardState(r)],
         pledges' = pledges \cup Pledged(r.after),
         msgs' \subseteq msgs \cup M \cup r.after,
         \A m \in M : Sendable(m) /\ m.type # "VoteResp",
         History(p, r) \/ UNCHANGED elected
  PROVE  ElectionInv'
<1>1. /\ raft'[p] = s /\ \A q \in Peers \ {p} : raft'[q] = raft[q]
      /\ stable'[p] = HardState(r) /\ \A q \in Peers \ {p} : stable'[q] = stable[q]
  BY DEF ElectionInv, StatesAreFunctions
<1>2. StatesAreFunctions'
  <2>1. HardState(r).vote \in Peers \cup {None}
    BY DEF HardState, Sound, VotesOnce
  <2>2. \A q \in Peers : stable'[q].vote \in Peers \cup {None}
    BY <1>1, <2>1 DEF ElectionInv, StatesAreFunctions
  <2> QED BY <2>2 DEF ElectionInv, StatesAreFunctions
<1>3. PledgesAreDurable'
  BY DurableOnDisk DEF ElectionInv
<1>4. MessagesArePledged'
  <2>1. \A m \in r.after : Sendable(m) /\ (m.type # "VoteResp" \/ m.reject \/ m \in pledges')
    BY Zenon DEF Sound, VotesOnce, SentOK, Pledged
  <2>2. \A m \in M \cup r.after :
          Sendable(m) /\ (m.type # "VoteResp" \/ m.reject \/ m \in pledges')
    BY <2>1, Zenon
  <2>3. msgs' \subseteq msgs \cup (M \cup r.after) /\ pledges \subseteq pledges'
    OBVIOUS
  <2> QED BY <2>2, <2>3, MessagesLater DEF ElectionInv
<1>5. LeadersWon'
  <2>1. CASE History(p, r)
    BY <2>1, LeadersLater DEF ElectionInv
  <2>2. CASE UNCHANGED elected
    BY <2>2, PledgesLast DEF ElectionInv, LeadersWon
  <2> QED BY <2>1, <2>2
<1>6. \A q \in Peers : Sound(q, raft[q])'
  <2> TAKE q \in Peers
  <2>1. Sound(q, raft[q])
    BY DEF ElectionInv
  <2>2. CASE q = p
    <3>1. Sound(p, s)'
      BY <1>1, SoundOnDisk
    <3> QED BY <2>2, <3>1, <1>1
  <2>3. CASE q # p
    <3>1. \A m \in Grants(pledges') : m \in Grants(pledges) \/ m.from # q
      BY <2>3, GrantsPledged DEF Sound, VotesOnce
    <3> QED BY <2>1, <2>3, <3>1, <1>1, SoundLater
  <2> QED BY <2>2, <2>3
<1> QED BY <1>2, <1>3, <1>4, <1>5, <1>6 DEF ElectionInv

(* Nothing that the invariant speaks of changes. *)
LEMMA IdleStep ==
  ASSUME ElectionInv, UNCHANGED <<raft, stable, msgs, elected, pledges>>
  PROVE  ElectionInv'
<1>1. StatesAreFunctions' /\ PledgesAreDurable' /\ MessagesArePledged'
  BY DEF ElectionInv, StatesAreFunctions, PledgesAreDurable, MessagesArePledged
<1>2. LeadersWon'
  BY PledgesLast DEF ElectionInv, LeadersWon
<1>3. \A p \in Peers : Sound(p, raft[p])'
  BY SoundLater DEF ElectionInv
<1> QED BY <1>1, <1>2, <1>3 DEF ElectionInv

LEMMA TakeKeeps ==
  ASSUME ElectionInv, NEW p \in Peers, NEW r, NEW net, Sound(p, r), net \subseteq msgs,
         Take(p, r, net)
  PROVE  ElectionInv'
<1> DEFINE M == r.out \cup LeaderSends(p, r)
<1>0. IsRaft(r) /\ SentOK(r) /\ r.term \in Nat
  BY DEF Sound, VotesOnce
<1>1. \A m \in M : Sendable(m) /\ m.type # "VoteResp"
  BY <1>0, LeaderSendsRequests DEF SentOK
<1> HIDE DEF M
<1>2. CASE /\ raft' = [raft EXCEPT ![p] = [r EXCEPT !.out = {}]]
           /\ msgs' = Pending(net \cup Sent(r.out \cup LeaderSends(p, r)), stable)
           /\ History(p, r)
           /\ UNCHANGED <<stable, restarts, pledges, failed>>
  <2> DEFINE s == [r EXCEPT !.out = {}]
  <2>1. Sound(p, s)
    <3>1. /\ IsRaft(s) /\ s.term = r.term /\ s.vote = r.vote /\ s.state = r.state
          /\ s.votes = r.votes /\ s.after = r.after /\ s.out = {}
      BY <1>0 DEF IsRaft, Fields
    <3> HIDE DEF s
    <3>2. Inert(r, s)
      BY <1>0, <3>1 DEF Inert, SentOK
    <3> QED BY <3>2, InertKeeps DEF Sound
  <2>2. msgs' \subseteq msgs \cup M
    BY <1>2 DEF Pending, Sent, M
  <2> HIDE DEF s
  <2> QED BY <1>1, <1>2, <2>1, <2>2, MemoryStep DEF s
<1>3. CASE /\ raft' = [raft EXCEPT ![p] = [r EXCEPT !.out = {}, !.after = {}]]
           /\ stable' = [stable EXCEPT ![p] = HardState(r)]
           /\ msgs' = Pending(net \cup Sent(r.out \cup r.after \cup LeaderSends(p, r)), stable')
           /\ History(p, r)
           /\ pledges' = pledges \cup Pledged(r.after)
  <2> DEFINE s == [r EXCEPT !.out = {}, !.after = {}]
  <2>1. /\ IsRaft(s) /\ s.term = r.term /\ s.vote = r.vote /\ s.state = r.state
        /\ s.votes = r.votes /\ s.after = {} /\ s.out = {}
    BY <1>0 DEF IsRaft, Fields
  <2>2. msgs' \subseteq msgs \cup M \cup r.after
    BY <1>3 DEF Pending, Sent, M
  <2>3. raft' = [raft EXCEPT ![p] = s]
    BY <1>3
  <2> HIDE DEF s
  <2> QED BY <1>1, <1>3, <2>1, <2>2, <2>3, DiskStep
<1>4. CASE /\ raft' = [raft EXCEPT ![p] = newRaft(p, stable[p])]
           /\ msgs' = WithoutOwn(p, Pending(net \cup Sent(r.out \cup LeaderSends(p, r)), stable))
           /\ History(p, r)
           /\ UNCHANGED <<stable, pledges, failed>>
  <2>1. msgs' \subseteq msgs \cup M
    BY <1>4 DEF WithoutOwn, Pending, Sent, M
  <2> QED BY <1>1, <1>4, <2>1, RestartSound, MemoryStep
<1>5. CASE /\ raft' = [raft EXCEPT ![p].bad = r.bad]
           /\ UNCHANGED <<stable, msgs, restarts, elected, ledger, decided, pledges>>
  <2> DEFINE s == [raft[p] EXCEPT !.bad = r.bad]
  <2>1. Sound(p, raft[p]) /\ IsRaft(raft[p])
    BY DEF ElectionInv, Sound, VotesOnce
  <2>2. Inert(raft[p], s)
    BY <2>1, InertFields
  <2>3. Sound(p, s)
    <3> HIDE DEF s
    <3> QED BY <2>1, <2>2, InertKeeps DEF Sound
  <2>4. /\ raft' = [raft EXCEPT ![p] = s]
        /\ UNCHANGED <<stable, pledges>>
        /\ History(p, r) \/ UNCHANGED elected
    BY <1>5
  <2>5. msgs' \subseteq msgs \cup M
    BY <1>5
  <2> HIDE DEF s
  <2> QED BY <1>1, <2>3, <2>4, <2>5, MemoryStep
<1> QED BY <1>2, <1>3, <1>4, <1>5 DEF Take

LEMMA ReceiveKeeps ==
  ASSUME ElectionInv, NEW m \in msgs, Receive(m)
  PROVE  ElectionInv'
<1>1. Sendable(m) /\ (m \in Grants(msgs) => m \in pledges)
  BY DEF ElectionInv, MessagesArePledged
<1>2. m.to \in Peers /\ Sound(m.to, raft[m.to])
  BY <1>1 DEF Sendable, ElectionInv
<1>3. Arrived(m.to, m)
  BY <1>1, Zenon DEF Arrived, Grants
<1>4. PICK inLease \in BOOLEAN :
        Take(m.to, Step(m.to, raft[m.to], m, inLease), IF m.from = m.to THEN msgs \ {m} ELSE msgs)
  BY DEF Receive
<1>5. Sound(m.to, Step(m.to, raft[m.to], m, inLease))
  BY <1>2, <1>3, StepSound DEF ElectionInv
<1>6. (IF m.from = m.to THEN msgs \ {m} ELSE msgs) \subseteq msgs
  OBVIOUS
<1> QED BY <1>2, <1>4, <1>5, <1>6, TakeKeeps

LEMMA TickElectionKeeps ==
  ASSUME ElectionInv, NEW p \in Peers, NEW elapsed \in BOOLEAN, TickElection(p, elapsed)
  PROVE  ElectionInv'
<1> DEFINE r == raft[p]
           a == AskSupport(p, r)
           s == [a EXCEPT !.leadEpoch = 0]
           h == hup(p, s, IF PreVote THEN "PreElection" ELSE "Election")
           x == CASE supportingFortifiedLeader(p, r) -> a
                  [] ~supportingFortifiedLeader(p, r) /\ elapsed -> h
                  [] OTHER -> s
<1>1. Sound(p, r) /\ IsRaft(r) /\ PledgesAreDurable
  BY DEF ElectionInv, Sound, VotesOnce
<1>2. Sound(p, a) /\ IsRaft(a)
  <2>1. Inert(r, a)
    <3> HIDE DEF r
    <3> QED BY <1>1, InertAskSupport
  <2> HIDE DEF a
  <2> QED BY <1>1, <2>1, InertKeeps DEF Sound, Inert
<1>3. Sound(p, s)
  <2> HIDE DEF a
  <2>1. Inert(a, s)
    BY <1>2, InertFields
  <2> HIDE DEF s
  <2> QED BY <1>2, <2>1, InertKeeps DEF Sound
<1>4. Sound(p, h)
  <2> HIDE DEF s
  <2> QED BY <1>1, <1>3, HupSound
<1>5. x \in {a, h, s}
  <2> HIDE DEF a, h, s
  <2> QED BY Zenon
<1>6. Sound(p, x)
  <2> HIDE DEF a, h, s, x
  <2> QED BY <1>2, <1>3, <1>4, <1>5
<1>7. Take(p, x, msgs)
  BY Zenon DEF TickElection
<1> HIDE DEF x
<1> QED BY <1>6, <1>7, TakeKeeps

LEMMA CheckQuorumKeeps ==
  ASSUME ElectionInv, NEW p \in Peers, CheckQuorum(p)
  PROVE  ElectionInv'
<1>1. VotesOnce(p, raft[p])
  BY DEF ElectionInv, Sound
<1>2. raft[p].term \in Nat
  BY <1>1 DEF VotesOnce
<1>3. raft[p].term <= raft[p].term
  BY <1>2
<1>4. Sound(p, becomeFollower(p, raft[p], raft[p].term, p))
  BY <1>1, <1>2, <1>3, BecomeFollowerSound
<1> QED BY <1>4, TakeKeeps DEF CheckQuorum

LEMMA ProposeKeeps ==
  ASSUME ElectionInv, NEW p \in Peers, NEW v, Propose(p, v)
  PROVE  ElectionInv'
<1>1. Sound(p, raft[p]) /\ IsRaft(raft[p]) /\ raft[p].term \in Nat
  BY DEF ElectionInv, Sound, VotesOnce
<1>2. Sound(p, appendEntry(p, raft[p], v))
  BY <1>1, InertAppendEntry, InertKeeps DEF Sound
<1> QED BY <1>2, TakeKeeps DEF Propose

LEMMA TransferLeaderKeeps ==
  ASSUME ElectionInv, NEW p \in Peers, NEW q \in Peers, TransferLeader(p, q)
  PROVE  ElectionInv'
<1> DEFINE r == raft[p]
           n == [r EXCEPT !.leadTransferee = None]
           s == [r EXCEPT !.leadTransferee = q]
           t == transferLeader(p, s, q)
           x == CASE q = p -> n
                  [] q # p /\ r.match[q] = Len(r.log) -> t
                  [] OTHER -> s
<1>1. Sound(p, r) /\ IsRaft(r)
  BY DEF ElectionInv, Sound, VotesOnce
<1>2. Sound(p, n) /\ Sound(p, s)
  <2> HIDE DEF r
  <2>1. Inert(r, n) /\ Inert(r, s)
    BY <1>1, InertFields
  <2> HIDE DEF n, s
  <2> QED BY <1>1, <2>1, InertKeeps DEF Sound
<1>3. Sound(p, t)
  <2> HIDE DEF s
  <2> QED BY <1>2, TransferLeaderSound
<1>4. x \in {n, t, s}
  <2> HIDE DEF n, t, s
  <2> QED BY Zenon
<1>5. Sound(p, x)
  <2> HIDE DEF n, t, s, x
  <2> QED BY <1>2, <1>3, <1>4
<1>6. Take(p, x, msgs)
  BY DEF TransferLeader
<1> HIDE DEF x
<1> QED BY <1>5, <1>6, TakeKeeps

LEMMA AbortTransferKeeps ==
  ASSUME ElectionInv, NEW p \in Peers, AbortTransfer(p)
  PROVE  ElectionInv'
<1> DEFINE s == [raft[p] EXCEPT !.leadTransferee = None]
<1>1. Sound(p, raft[p]) /\ IsRaft(raft[p])
  BY DEF ElectionInv, Sound, VotesOnce
<1>2. Inert(raft[p], s)
  BY <1>1, InertFields
<1>3. Take(p, s, msgs)
  BY DEF AbortTransfer
<1> HIDE DEF s
<1>4. Sound(p, s)
  BY <1>1, <1>2, InertKeeps DEF Sound
<1> QED BY <1>3, <1>4, TakeKeeps

LEMMA ForgetLeaderKeeps ==
  ASSUME ElectionInv, NEW p \in Peers, ForgetLeader(p)
  PROVE  ElectionInv'
<1> DEFINE r == raft[p]
           a == AskSupport(p, r)
           s == [a EXCEPT !.lead = None, !.leadEpoch = 0]
<1>1. Sound(p, r) /\ IsRaft(r)
  BY DEF ElectionInv, Sound, VotesOnce
<1>2. Sound(p, a) /\ IsRaft(a)
  <2>1. Inert(r, a)
    <3> HIDE DEF r
    <3> QED BY <1>1, InertAskSupport
  <2> HIDE DEF a
  <2> QED BY <1>1, <2>1, InertKeeps DEF Sound, Inert
<1>3. Sound(p, s)
  <2> HIDE DEF a
  <2>1. Inert(a, s)
    BY <1>2, InertFields
  <2> HIDE DEF s
  <2> QED BY <1>2, <2>1, InertKeeps DEF Sound
<1>4. Take(p, a, msgs) \/ Take(p, s, msgs)
  BY DEF ForgetLeader
<1> HIDE DEF a, s
<1> QED BY <1>2, <1>3, <1>4, TakeKeeps

LEMMA PersistKeeps ==
  ASSUME ElectionInv, NEW p \in Peers, Persist(p)
  PROVE  ElectionInv'
<1> DEFINE r == raft[p]
           s == [r EXCEPT !.after = {}]
<1>1. Sound(p, r) /\ IsRaft(r)
  BY DEF ElectionInv, Sound, VotesOnce
<1>2. /\ IsRaft(s) /\ s.term = r.term /\ s.vote = r.vote /\ s.state = r.state
      /\ s.votes = r.votes /\ s.after = {} /\ s.out = r.out
  <2> HIDE DEF r
  <2> QED BY <1>1 DEF IsRaft, Fields
<1>3. /\ raft' = [raft EXCEPT ![p] = s]
      /\ stable' = [stable EXCEPT ![p] = HardState(r)]
      /\ pledges' = pledges \cup Pledged(r.after)
      /\ msgs' \subseteq msgs \cup {} \cup r.after
      /\ UNCHANGED elected
  BY DEF Persist, Pending, Sent
<1> HIDE DEF r, s
<1> QED BY <1>1, <1>2, <1>3, DiskStep

LEMMA RestartKeeps ==
  ASSUME ElectionInv, NEW p \in Peers, Restart(p)
  PROVE  ElectionInv'
<1> DEFINE s == newRaft(p, stable[p])
           M == {}
<1>1. /\ raft' = [raft EXCEPT ![p] = s]
      /\ msgs' \subseteq msgs \cup M
      /\ UNCHANGED <<stable, pledges>> /\ UNCHANGED elected
  BY DEF Restart, WithoutOwn
<1>2. Sound(p, s) /\ Sound(p, raft[p])
  BY RestartSound DEF ElectionInv
<1>3. \A m \in M : Sendable(m) /\ m.type # "VoteResp"
  OBVIOUS
<1> HIDE DEF s, M
<1> QED BY <1>1, <1>2, <1>3, MemoryStep

-----------------------------------------------------------------------------
(* The invariant. *)

LEMMA InitElectionInv == Init => ElectionInv
<1> SUFFICES ASSUME Init PROVE ElectionInv
  OBVIOUS
<1>1. Grants(pledges) = {} /\ Grants(msgs) = {}
  BY DEF Init, Grants
<1>2. StatesAreFunctions
  BY DEF Init, StatesAreFunctions
<1>3. PledgesAreDurable /\ MessagesArePledged /\ LeadersWon
  BY <1>1 DEF Init, PledgesAreDurable, MessagesArePledged, LeadersWon
<1>4. ASSUME NEW p \in Peers PROVE Sound(p, raft[p])
  <2> DEFINE s == raft[p]
  <2>1. /\ IsRaft(s) /\ s.term = 0 /\ s.vote = None /\ s.state = "Follower"
        /\ s.votes.yes = {} /\ s.out = {} /\ s.after = {}
    BY DEF Init, newRaft, IsRaft, Fields
  <2>2. stable[p].term = 0 /\ stable[p].vote = None
    BY DEF Init
  <2> HIDE DEF s
  <2>3. SentOK(s) /\ Grants(s.after) = {}
    BY <2>1 DEF SentOK, Grants
  <2>4. VotesOnce(p, s)
    BY <1>1, <2>1, <2>2, <2>3 DEF VotesOnce, OneVote
  <2>5. Counts(p, s)
    BY <2>1 DEF Counts
  <2> QED BY <2>4, <2>5 DEF Sound, s
<1> QED BY <1>2, <1>3, <1>4 DEF ElectionInv

LEMMA NextElectionInv == ElectionInv /\ [Next]_vars => ElectionInv'
<1> SUFFICES ASSUME ElectionInv, [Next]_vars PROVE ElectionInv'
  OBVIOUS
<1>1. ASSUME NEW m \in msgs, Receive(m) PROVE ElectionInv'
  BY <1>1, ReceiveKeeps
<1>2. ASSUME NEW p \in Peers, NEW elapsed \in BOOLEAN, TickElection(p, elapsed) PROVE ElectionInv'
  BY <1>2, TickElectionKeeps
<1>3. ASSUME NEW p \in Peers, CheckQuorum(p) PROVE ElectionInv'
  BY <1>3, CheckQuorumKeeps
<1>4. ASSUME NEW p \in Peers, NEW v \in Values, Propose(p, v) PROVE ElectionInv'
  BY <1>4, ProposeKeeps
<1>5. ASSUME NEW p \in Peers, NEW q \in Peers, TransferLeader(p, q) PROVE ElectionInv'
  BY <1>5, TransferLeaderKeeps
<1>6. ASSUME NEW p \in Peers, AbortTransfer(p) PROVE ElectionInv'
  BY <1>6, AbortTransferKeeps
<1>7. ASSUME NEW p \in Peers, ForgetLeader(p) PROVE ElectionInv'
  BY <1>7, ForgetLeaderKeeps
<1>8. ASSUME NEW p \in Peers, Persist(p) PROVE ElectionInv'
  BY <1>8, PersistKeeps
<1>9. ASSUME NEW p \in Peers, Restart(p) PROVE ElectionInv'
  BY <1>9, RestartKeeps
<1>10. ASSUME NEW p, NEW q, Withdraw(p, q) \/ Provide(p, q) PROVE ElectionInv'
  BY <1>10, IdleStep DEF Withdraw, Provide
<1>11. CASE UNCHANGED vars
  BY <1>11, IdleStep DEF vars
<1> QED BY <1>1, <1>2, <1>3, <1>4, <1>5, <1>6, <1>7, <1>8, <1>9, <1>10, <1>11 DEF Next

(* Two peers that won the same term were pledged votes by a common peer,   *)
(* which pledges one vote in a term.                                       *)
LEMMA OneWinner ==
  ASSUME ElectionInv, NEW p \in Peers, NEW q \in Peers, NEW t, Won(p, t), Won(q, t)
  PROVE  p = q
<1>1. PICK P \in SUBSET Peers : IsQuorum(P) /\ \A v \in P : Pledge(v, p, t)
  BY DEF Won
<1>2. PICK Q \in SUBSET Peers : IsQuorum(Q) /\ \A v \in Q : Pledge(v, q, t)
  BY DEF Won
<1>3. /\ Cardinality(P) \in Nat /\ Cardinality(Q) \in Nat /\ Cardinality(Peers) \in Nat
      /\ 2 * Cardinality(P) > Cardinality(Peers) /\ 2 * Cardinality(Q) > Cardinality(Peers)
  BY <1>1, <1>2, PeersAssumption, FS_CardinalityType, FS_Subset DEF IsQuorum
<1>4. Cardinality(P) + Cardinality(Q) > Cardinality(Peers)
  BY <1>3
<1>5. PICK v \in Peers : v \in P \cap Q
  BY <1>4, PeersAssumption, FS_MajoritiesIntersect
<1>6. Pledge(v, p, t) /\ Pledge(v, q, t) /\ OneVote(v, Grants(pledges))
  BY <1>1, <1>2, <1>5 DEF ElectionInv, Sound, VotesOnce, OneVote
<1> QED BY <1>6 DEF Pledge, OneVote

(* The invariant holds: in particular the vote of a peer on disk stands    *)
(* behind every vote it has sent (msgsAfterAppend), and nobody leads       *)
(* without the votes of a quorum.                                          *)
THEOREM VotesAreSound == Spec => []ElectionInv
BY InitElectionInv, NextElectionInv, PTL DEF Spec

(* At most one peer is ever elected in a term, for any number of peers,    *)
(* however late their votes reach the disk.                                *)
THEOREM ElectionsAreSafe == Spec => []ElectionSafety
<1>1. ElectionInv => ElectionSafety
  BY OneWinner DEF ElectionInv, LeadersWon, ElectionSafety
<1> QED BY <1>1, VotesAreSound, PTL
=============================================================================
