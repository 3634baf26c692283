------------------------- MODULE ReplicationProofs -------------------------
(***************************************************************************)
(* Flow control of raft for every configuration and all bounds: what       *)
(* Progress says of the follower is true of its durable log, and the       *)
(* window of appends in flight is in order and in its limits; and the ring *)
(* buffer of Inflights implements that window.                             *)
(*                                                                         *)
(* All claims about the follower are of one form: its log agrees with the  *)
(* leader's up to an index. Whatever the follower does preserves each of   *)
(* them, so it does not matter in which order messages carry them. That an *)
(* append which fits makes a new claim true rests on the log matching      *)
(* property, and that a heartbeat may commit on accTerm.                   *)
(***************************************************************************)
EXTENDS Replication, Inflights, WellFoundedInduction, TLAPS

Progresses ==
  [match : Nat, next : Nat, state : {"Probe", "Replicate", "Snapshot"}, paused : BOOLEAN,
   active : BOOLEAN, pending : Nat, sentCommit : Nat, matchCommit : Nat, inflights : Seq(Nat)]

Appends == [index : Nat, n : Nat, commit : Nat, match : Nat]

Answers == [index : Nat, commit : Nat, reject : BOOLEAN, hint : Nat, logTerm : Nat]

LeaderStates ==
  [pr : Progresses, ch : Seq(Appends), snap : {"none", "sending", "applied", "failed"},
   log : Seq(1 .. Term), commit : Nat]

(* The follower's log is the same as l up to k. *)
Agreed(l, k) ==
  /\ k \in Nat /\ k <= Len(flog) /\ k <= Len(l)
  /\ \A i \in 1 .. k : flog[i] = l[i]

(* The window w lies between match and next, in order. *)
WindowHolds(w, match, next) ==
  /\ Len(w) <= MaxInflight
  /\ \A k \in 1 .. Len(w) : match < w[k] /\ w[k] < next
  /\ \A j, k \in 1 .. Len(w) : j < k => w[j] < w[k]

(* What holds of the leader's state s, of the progress in it and of the     *)
(* appends, if its log is l and its commit index c.                        *)
MatchHolds(p, l, c) == Agreed(l, p.match) /\ p.matchCommit <= fcommit /\ p.pending <= c

ProgressHolds(p, l, c) ==
  /\ MatchHolds(p, l, c)
  /\ p.match < p.next /\ p.next <= Len(l) + 1
  /\ p.state # "Replicate" => p.inflights = <<>>
  /\ WindowHolds(p.inflights, p.match, p.next)

AppendHolds(m, l, c) == m.index + m.n <= Len(l) /\ m.commit <= c /\ Agreed(l, m.match)

LeaderHolds(s) ==
  /\ s \in LeaderStates
  /\ s.commit <= Len(s.log) /\ first <= applied + 1 /\ applied <= s.commit
  /\ Agreed(s.log, fcommit)
  /\ ProgressHolds(s.pr, s.log, s.commit)
  /\ \A k \in 1 .. Len(s.ch) : AppendHolds(s.ch[k], s.log, s.commit)

(* What holds of the follower and of its answers, with the leader's log l. *)
FollowerHolds(l) ==
  /\ flog \in Seq(1 .. Term) /\ fcommit \in Nat
  /\ \A i \in 1 .. Len(flog) : i <= Len(l) /\ flog[i] = l[i] => Agreed(l, i)    \* log matching
  /\ \A i \in 1 .. Len(flog) : flog[i] = Term => Agreed(l, i)
  /\ facc = Term => Agreed(l, Len(flog))

AnswerHolds(l, m) == m.commit <= fcommit /\ (~m.reject => Agreed(l, m.index))

AnswersHold(l) ==
  /\ toLeader \in Seq(Answers)
  /\ \A k \in 1 .. Len(toLeader) : AnswerHolds(l, toLeader[k])

BeatHolds(l, c) ==
  beat.type = "Heartbeat" => beat.commit \in Nat /\ beat.commit <= c /\ Agreed(l, beat.match)

Inv ==
  /\ conf \in Settings /\ first \in Nat \ {0} /\ applied \in Nat
  /\ LeaderHolds(Now)
  /\ FollowerHolds(log) /\ AnswersHold(log) /\ BeatHolds(log, commit)

-----------------------------------------------------------------------------
(* Numbers and sequences. *)

LEMMA NatMin == \A T \in SUBSET Nat : T # {} => \E m \in T : \A n \in T : m <= n
<1> SUFFICES ASSUME NEW T \in SUBSET Nat, T # {} PROVE \E m \in T : \A n \in T : m <= n
  OBVIOUS
<1>1. PICK m \in T : \A n \in T : ~(<<n, m>> \in OpToRel(<, Nat))
  BY WFMin, NatLessThanWellFounded
<1>2. \A n \in T : n < m => <<n, m>> \in OpToRel(<, Nat)
  BY DEF OpToRel
<1>3. \A n \in T : ~(n < m)
  BY <1>1, <1>2, Zenon
<1>4. m \in Nat /\ \A n \in T : m <= n
  BY <1>3
<1> QED BY <1>4

LEMMA MinMax ==
  \A a, b \in Int : /\ Max({a, b}) = IF a >= b THEN a ELSE b
                    /\ Min({a, b}) = IF a <= b THEN a ELSE b
<1> SUFFICES ASSUME NEW a \in Int, NEW b \in Int
             PROVE  /\ Max({a, b}) = IF a >= b THEN a ELSE b
                    /\ Min({a, b}) = IF a <= b THEN a ELSE b
  OBVIOUS
<1>1. Max({a, b}) \in {a, b} /\ \A y \in {a, b} : Max({a, b}) >= y
  <2>1. \E x \in {a, b} : \A y \in {a, b} : x >= y
    OBVIOUS
  <2> QED BY <2>1 DEF Max
<1>2. Min({a, b}) \in {a, b} /\ \A y \in {a, b} : Min({a, b}) <= y
  <2>1. \E x \in {a, b} : \A y \in {a, b} : x <= y
    OBVIOUS
  <2> QED BY <2>1 DEF Min
<1> QED BY <1>1, <1>2

LEMMA MaxNat ==
  ASSUME NEW a \in Nat, NEW b \in Nat
  PROVE  /\ Max({a, b}) \in Nat /\ Max({a, b}) >= a /\ Max({a, b}) >= b
         /\ \A c \in Int : a <= c /\ b <= c => Max({a, b}) <= c
<1>1. Max({a, b}) = IF a >= b THEN a ELSE b
  BY MinMax
<1> QED BY <1>1

LEMMA MinNat ==
  ASSUME NEW a \in Nat, NEW b \in Nat
  PROVE  Min({a, b}) \in Nat /\ Min({a, b}) <= a /\ Min({a, b}) <= b
<1>1. Min({a, b}) = IF a <= b THEN a ELSE b
  BY MinMax
<1> QED BY <1>1

(* The largest of some indexes. *)
LEMMA MaxOfIndexes ==
  ASSUME NEW n \in Nat, NEW T \in SUBSET (1 .. n), T # {}
  PROVE  Max(T) \in T
<1> DEFINE U == {n - i : i \in T}
<1>1. U \in SUBSET Nat /\ U # {}
  <2>1. \A i \in T : n - i \in Nat
    OBVIOUS
  <2> QED BY <2>1
<1>2. PICK m \in U : \A u \in U : m <= u
  BY <1>1, NatMin
<1>3. PICK x \in T : m = n - x
  OBVIOUS
<1>4. \A y \in T : n - y \in U
  OBVIOUS
<1>5. \A y \in T : x >= y
  BY <1>2, <1>3, <1>4
<1> QED BY <1>5 DEF Max

LEMMA SubSeqFacts ==
  ASSUME NEW S, NEW s \in Seq(S), NEW m \in Int, NEW n \in Int, NEW k \in Nat,
         1 <= m, n <= Len(s), k = n - m + 1
  PROVE  /\ SubSeq(s, m, n) \in Seq(S) /\ Len(SubSeq(s, m, n)) = k
         /\ \A j \in 1 .. k : SubSeq(s, m, n)[j] = s[m + j - 1]
<1>1. SubSeq(s, m, n) = [j \in 1 .. (1 + n) - m |-> s[(j + m) - 1]]
  BY DEF SubSeq
<1>2. \A j \in 1 .. (1 + n) - m : (j + m) - 1 \in 1 .. Len(s) /\ (j + m) - 1 = m + j - 1
  OBVIOUS
<1>3. \A j \in 1 .. (1 + n) - m : s[(j + m) - 1] \in S
  BY <1>2
<1>4. (1 + n) - m \in Nat /\ k = (1 + n) - m
  OBVIOUS
<1> QED BY <1>1, <1>2, <1>3, <1>4

LEMMA AppendFacts ==
  ASSUME NEW S, NEW s \in Seq(S), NEW x \in S
  PROVE  /\ Append(s, x) \in Seq(S) /\ Len(Append(s, x)) = Len(s) + 1 /\ Len(s) \in Nat
         /\ \A i \in 1 .. Len(s) : Append(s, x)[i] = s[i]
         /\ \A i \in 1 .. Len(s) + 1 : i \in 1 .. Len(s) \/ (i = Len(s) + 1 /\ Append(s, x)[i] = x)
OBVIOUS

LEMMA ConcatFacts ==
  ASSUME NEW S, NEW s \in Seq(S), NEW t \in Seq(S)
  PROVE  /\ s \o t \in Seq(S) /\ Len(s \o t) = Len(s) + Len(t) /\ Len(s) \in Nat /\ Len(t) \in Nat
         /\ \A i \in 1 .. Len(s) + Len(t) :
              (s \o t)[i] = IF i <= Len(s) THEN s[i] ELSE t[i - Len(s)]
OBVIOUS

LEMMA WithoutFacts ==
  ASSUME NEW S, NEW s \in Seq(S), NEW k \in DOMAIN s
  PROVE  /\ Without(s, k) \in Seq(S)
         /\ \A i \in 1 .. Len(Without(s, k)) : \E j \in 1 .. Len(s) : Without(s, k)[i] = s[j]
<1>1. Len(s) \in Nat /\ k \in 1 .. Len(s)
  OBVIOUS
<1>2. PICK a, b : a = SubSeq(s, 1, k - 1) /\ b = SubSeq(s, k + 1, Len(s))
  OBVIOUS
<1>3. a \in Seq(S) /\ Len(a) = k - 1 /\ \A j \in 1 .. k - 1 : a[j] = s[1 + j - 1]
  <2>1. k - 1 \in Nat /\ k - 1 <= Len(s) /\ k - 1 = (k - 1) - 1 + 1
    BY <1>1
  <2> QED BY <1>2, <2>1, SubSeqFacts
<1>4. b \in Seq(S) /\ Len(b) = Len(s) - k /\ \A j \in 1 .. Len(s) - k : b[j] = s[(k + 1) + j - 1]
  <2>1. Len(s) - k \in Nat /\ 1 <= k + 1 /\ k + 1 \in Int /\ Len(s) - k = Len(s) - (k + 1) + 1
    BY <1>1
  <2> QED BY <1>1, <1>2, <2>1, SubSeqFacts, SMTT(30)
<1>5. Without(s, k) = a \o b
  BY <1>2 DEF Without
<1>6. /\ Len(a) = k - 1 /\ Len(b) = Len(s) - k /\ Len(s) \in Nat /\ k \in 1 .. Len(s)
      /\ Len(a) + Len(b) = Len(s) - 1
  BY <1>1, <1>3, <1>4
<1>7. ASSUME NEW i \in 1 .. Len(s) - 1 PROVE \E j \in 1 .. Len(s) : (a \o b)[i] = s[j]
  <2>1. CASE i <= Len(a)
    <3>1. (a \o b)[i] = a[i]
      BY <1>3, <1>4, <1>6, <2>1, ConcatFacts
    <3>2. i \in 1 .. k - 1 /\ i \in 1 .. Len(s) /\ 1 + i - 1 = i
      BY <1>6, <2>1
    <3> QED BY <1>3, <3>1, <3>2
  <2>2. CASE ~(i <= Len(a))
    <3>0. (a \o b)[i] = b[i - Len(a)]
      <4>1. \A j \in 1 .. Len(a) + Len(b) : (a \o b)[j] = IF j <= Len(a) THEN a[j] ELSE b[j - Len(a)]
        BY <1>3, <1>4, ConcatFacts
      <4>2. i \in 1 .. Len(a) + Len(b)
        BY <1>6
      <4> QED BY <2>2, <4>1, <4>2
    <3>1. PICK n \in Nat : n = Len(s)
      BY <1>6
    <3>2. /\ i - (k - 1) \in 1 .. n - k /\ (k + 1) + (i - (k - 1)) - 1 \in 1 .. n
          /\ (k + 1) + (i - (k - 1)) - 1 \in Int
      <4>1. i \in Int /\ k \in Int /\ i <= n - 1 /\ i >= k /\ k >= 1 /\ k <= n
        BY <1>6, <2>2, <3>1
      <4> QED BY <4>1
    <3> QED BY <1>4, <1>6, <3>0, <3>1, <3>2
  <2> QED BY <2>1, <2>2
<1>8. Without(s, k) \in Seq(S) /\ Len(Without(s, k)) = Len(s) - 1
  BY <1>3, <1>4, <1>5, <1>6, ConcatFacts, SMTT(30)
<1> QED BY <1>5, <1>7, <1>8
-----------------------------------------------------------------------------
(* Progress. *)

(* Of the environment of the leader. *)
Context == conf \in Settings /\ first \in Nat \ {0} /\ applied \in Nat /\ fcommit \in Nat

LEMMA Configured ==
  ASSUME Context
  PROVE  /\ MaxInflight \in Nat \ {0} /\ MaxMsgEntries \in Nat \ {0}
         /\ first \in Nat \ {0} /\ applied \in Nat /\ fcommit \in Nat
BY SettingsAssumption DEF Context, MaxInflight, MaxMsgEntries

LEMMA EmptyWindow ==
  ASSUME Context, NEW m, NEW n
  PROVE  <<>> \in Seq(Nat) /\ WindowHolds(<<>>, m, n)
BY Configured DEF WindowHolds

LEMMA ProgressTypes ==
  ASSUME NEW p \in Progresses
  PROVE  /\ p.match \in Nat /\ p.next \in Nat /\ p.state \in {"Probe", "Replicate", "Snapshot"}
         /\ p.pending \in Nat /\ p.sentCommit \in Nat /\ p.matchCommit \in Nat
         /\ p.inflights \in Seq(Nat) /\ p.paused \in BOOLEAN /\ p.active \in BOOLEAN
         /\ Len(p.inflights) \in Nat
BY DEF Progresses

(* A progress that is started anew with some next index. *)
LEMMA Restarted ==
  ASSUME Context, NEW l \in Seq(1 .. Term), NEW c \in Nat, NEW p \in Progresses,
         MatchHolds(p, l, c),
         NEW q \in Progresses, q.match = p.match, q.matchCommit = p.matchCommit,
         q.pending <= c, q.inflights = <<>>, p.match < q.next, q.next <= Len(l) + 1
  PROVE  ProgressHolds(q, l, c)
BY EmptyWindow DEF ProgressHolds, MatchHolds

LEMMA BecomeProbeHolds ==
  ASSUME Context, NEW l \in Seq(1 .. Term), NEW c \in Nat, c <= Len(l), NEW p \in Progresses,
         MatchHolds(p, l, c)
  PROVE  /\ BecomeProbe(p) \in Progresses /\ ProgressHolds(BecomeProbe(p), l, c)
         /\ BecomeProbe(p).match = p.match
<1>1. /\ p.match \in Nat /\ p.next \in Nat /\ p.pending \in Nat /\ p.sentCommit \in Nat
      /\ p.pending <= c /\ p.match <= Len(l) /\ Len(l) \in Nat
  BY ProgressTypes DEF MatchHolds, Agreed
<1>a. PICK mx \in Nat : mx = Max({p.match, p.pending}) /\ p.match <= mx /\ mx <= Len(l)
  <2>1. p.match <= Len(l) /\ p.pending <= Len(l) /\ Len(l) \in Int
    BY <1>1
  <2>2. Max({p.match, p.pending}) \in Nat /\ Max({p.match, p.pending}) >= p.match
    BY <1>1, MaxNat
  <2>3. Max({p.match, p.pending}) <= Len(l)
    BY <1>1, <2>1, MaxNat
  <2> QED BY <1>1, <2>2, <2>3
<1>2. PICK next \in Nat \ {0} :
        /\ next = IF p.state = "Snapshot" THEN Max({p.match, p.pending}) + 1 ELSE p.match + 1
        /\ p.match < next /\ next <= Len(l) + 1
  <2>1. mx + 1 \in Nat \ {0} /\ p.match < mx + 1 /\ mx + 1 <= Len(l) + 1
    BY <1>1, <1>a
  <2>2. p.match + 1 \in Nat \ {0} /\ p.match < p.match + 1 /\ p.match + 1 <= Len(l) + 1
    BY <1>1
  <2>3. CASE p.state = "Snapshot"
    BY <1>a, <2>1, <2>3
  <2>4. CASE p.state # "Snapshot"
    BY <2>2, <2>4
  <2> QED BY <2>3, <2>4
<1>3. PICK sc \in Nat : sc = Min({p.sentCommit, next - 1})
  <2>1. next - 1 \in Nat
    OBVIOUS
  <2> QED BY <1>1, <2>1, MinNat
<1>4. PICK w \in Seq(Nat) : w = <<>>
  BY EmptyWindow
<1>5. BecomeProbe(p) = [p EXCEPT !.paused = FALSE, !.pending = 0, !.state = "Probe",
                                 !.inflights = w, !.next = next, !.sentCommit = sc]
  BY <1>2, <1>3, <1>4 DEF BecomeProbe, ResetState, Progresses
<1>b. PICK q : q = BecomeProbe(p)
  OBVIOUS
<1>c. q \in Progresses
  <2>1. PICK z \in Nat : z = 0
    OBVIOUS
  <2>2. q = [p EXCEPT !.paused = FALSE, !.pending = z, !.state = "Probe",
                      !.inflights = w, !.next = next, !.sentCommit = sc]
    BY <1>5, <1>b, <2>1
  <2> QED BY <2>2 DEF Progresses
<1>6. /\ q.match = p.match /\ q.matchCommit = p.matchCommit
      /\ q.pending = 0 /\ q.inflights = w /\ q.next = next
  BY <1>5, <1>b DEF Progresses
<1>7. ProgressHolds(q, l, c)
  <2>1. q.pending <= c /\ q.inflights = <<>>
    BY <1>4, <1>6
  <2> QED BY <1>2, <1>c, <1>6, <2>1, Restarted
<1> QED BY <1>b, <1>c, <1>6, <1>7

LEMMA BecomeReplicateHolds ==
  ASSUME Context, NEW l \in Seq(1 .. Term), NEW c \in Nat, NEW p \in Progresses,
         MatchHolds(p, l, c)
  PROVE  /\ BecomeReplicate(p) \in Progresses /\ ProgressHolds(BecomeReplicate(p), l, c)
         /\ BecomeReplicate(p).match = p.match
<1>1. PICK next \in Nat : next = p.match + 1 /\ p.match < next /\ next <= Len(l) + 1
  <2>1. p.match \in Nat /\ p.match <= Len(l) /\ Len(l) \in Nat
    BY ProgressTypes DEF MatchHolds, Agreed
  <2> QED BY <2>1
<1>2. PICK w \in Seq(Nat) : w = <<>>
  BY EmptyWindow
<1>3. BecomeReplicate(p) = [p EXCEPT !.paused = FALSE, !.pending = 0, !.state = "Replicate",
                                     !.inflights = w, !.next = next]
  BY <1>1, <1>2 DEF BecomeReplicate, ResetState, Progresses
<1>b. PICK q : q = BecomeReplicate(p)
  OBVIOUS
<1>c. q \in Progresses
  <2>1. PICK z \in Nat : z = 0
    OBVIOUS
  <2>2. q = [p EXCEPT !.paused = FALSE, !.pending = z, !.state = "Replicate",
                      !.inflights = w, !.next = next]
    BY <1>3, <1>b, <2>1
  <2> QED BY <2>2 DEF Progresses
<1>4. /\ q.match = p.match /\ q.matchCommit = p.matchCommit
      /\ q.pending = 0 /\ q.inflights = w /\ q.next = next
  BY <1>3, <1>b DEF Progresses
<1>5. ProgressHolds(q, l, c)
  <2>1. q.pending <= c /\ q.inflights = <<>>
    BY <1>2, <1>4
  <2> QED BY <1>1, <1>c, <1>4, <2>1, Restarted
<1> QED BY <1>b, <1>c, <1>4, <1>5

LEMMA BecomeSnapshotHolds ==
  ASSUME Context, NEW l \in Seq(1 .. Term), NEW c \in Nat, c <= Len(l), NEW p \in Progresses,
         MatchHolds(p, l, c), NEW i \in Nat, p.match <= i, i <= c
  PROVE  /\ BecomeSnapshot(p, i) \in Progresses /\ ProgressHolds(BecomeSnapshot(p, i), l, c)
<1>1. PICK next \in Nat : next = i + 1 /\ p.match < next /\ next <= Len(l) + 1
  <2>1. p.match \in Nat /\ Len(l) \in Nat
    BY ProgressTypes
  <2> QED BY <2>1
<1>2. PICK w \in Seq(Nat) : w = <<>>
  BY EmptyWindow
<1>3. BecomeSnapshot(p, i) = [p EXCEPT !.paused = FALSE, !.pending = i, !.state = "Snapshot",
                                       !.inflights = w, !.next = next, !.sentCommit = i]
  BY <1>1, <1>2 DEF BecomeSnapshot, ResetState, Progresses
<1>b. PICK q : q = BecomeSnapshot(p, i)
  OBVIOUS
<1>c. q \in Progresses
  BY <1>3, <1>b DEF Progresses
<1>4. /\ q.match = p.match /\ q.matchCommit = p.matchCommit
      /\ q.pending = i /\ q.inflights = w /\ q.next = next
  BY <1>3, <1>b DEF Progresses
<1>5. ProgressHolds(q, l, c)
  <2>1. q.pending <= c /\ q.inflights = <<>>
    BY <1>2, <1>4
  <2> QED BY <1>1, <1>c, <1>4, <2>1, Restarted
<1> QED BY <1>b, <1>c, <1>5

(* Flags and commit indexes do not matter. *)
LEMMA SameWindow ==
  ASSUME NEW l, NEW c, NEW p \in Progresses, ProgressHolds(p, l, c),
         NEW q \in Progresses, q.match = p.match, q.next = p.next, q.state = p.state,
         q.inflights = p.inflights, q.pending <= c, q.matchCommit <= fcommit
  PROVE  ProgressHolds(q, l, c)
BY DEF ProgressHolds, MatchHolds

(* The first n of the window are acknowledged and the next is not. *)
LEMMA Acknowledged ==
  ASSUME NEW w \in Seq(Nat), NEW to \in Nat
  PROVE  \E n \in 0 .. Len(w) : /\ \A k \in 1 .. n : w[k] <= to
                                /\ n < Len(w) => w[n + 1] > to
<1> DEFINE T == {n \in 0 .. Len(w) : n < Len(w) => w[n + 1] > to}
<1>1. Len(w) \in Nat /\ Len(w) \in T
  OBVIOUS
<1>2. T \in SUBSET Nat /\ T # {}
  BY <1>1
<1>3. PICK n \in T : \A m \in T : n <= m
  BY <1>2, NatMin
<1>4. n \in 0 .. Len(w) /\ (n < Len(w) => w[n + 1] > to)
  BY <1>3
<1>5. ASSUME NEW k \in 1 .. n PROVE w[k] <= to
  <2>1. k - 1 \in 0 .. Len(w) /\ ~(n <= k - 1) /\ k - 1 + 1 = k /\ k \in 1 .. Len(w)
    BY <1>1, <1>4
  <2>2. k - 1 \notin T
    BY <1>3, <2>1
  <2>3. ~(w[k - 1 + 1] > to)
    BY <2>1, <2>2
  <2>4. w[k] \in Nat
    BY <2>1
  <2> QED BY <2>1, <2>3, <2>4
<1> QED BY <1>4, <1>5

(* FreeLE leaves what is above the index, in order. *)
LEMMA FreeHolds ==
  ASSUME Context, NEW p \in Progresses, NEW old \in Nat, NEW next \in Nat,
         WindowHolds(p.inflights, old, next), NEW to \in Nat
  PROVE  \E v \in Seq(Nat) : /\ FreeInflights(p, to) = [p EXCEPT !.inflights = v]
                             /\ WindowHolds(v, to, next)
<1>1. PICK w \in Seq(Nat) : w = p.inflights
  BY ProgressTypes
<1>2. PICK size \in Nat : size = Len(w)
  OBVIOUS
<1> DEFINE Good(n) == /\ \A k \in 1 .. n : w[k] <= to
                      /\ n < Len(w) => w[n + 1] > to
<1>3. \E n \in 0 .. Len(w) : Good(n)
  BY Acknowledged
<1>4. PICK n \in 0 .. Len(w) : n = (CHOOSE i \in 0 .. Len(w) : Good(i)) /\ Good(n)
  BY <1>3
<1>5. PICK v : v = SubSeq(w, n + 1, Len(w))
  OBVIOUS
<1>a. n \in 0 .. size /\ n \in Nat
  BY <1>2
<1>b. size - n \in Nat /\ n + 1 \in Int /\ size - n = size - (n + 1) + 1
  BY <1>a
<1>6. PICK m \in Nat : m = size - n /\ n \in 0 .. size /\ n + 1 \in Int /\ m = size - (n + 1) + 1
  BY <1>a, <1>b
<1>7. v \in Seq(Nat) /\ Len(v) = m /\ \A j \in 1 .. m : v[j] = w[(n + 1) + j - 1]
  <2>1. PICK a \in Int : a = n + 1
    BY <1>6
  <2>2. 1 <= a /\ size \in Int /\ size <= Len(w) /\ v = SubSeq(w, a, size) /\ m = size - a + 1
    BY <1>2, <1>5, <1>6, <2>1
  <2>3. /\ SubSeq(w, a, size) \in Seq(Nat) /\ Len(SubSeq(w, a, size)) = m
        /\ \A j \in 1 .. m : SubSeq(w, a, size)[j] = w[a + j - 1]
    BY <2>2, SubSeqFacts
  <2> QED BY <2>1, <2>2, <2>3
<1>8. /\ size <= MaxInflight /\ MaxInflight \in Nat
      /\ \A k \in 1 .. size : old < w[k] /\ w[k] < next /\ w[k] \in Nat
      /\ \A j, k \in 1 .. size : j < k => w[j] < w[k]
  <2>1. WindowHolds(w, old, next) /\ MaxInflight \in Nat /\ \A k \in 1 .. size : w[k] \in Nat
    BY <1>1, <1>2, Configured
  <2> QED BY <1>2, <2>1 DEF WindowHolds
<1>9. ASSUME NEW j \in 1 .. m
      PROVE  n + j \in 1 .. size /\ v[j] = w[n + j] /\ n + 1 \in 1 .. size
  BY <1>6, <1>7, SMTT(30)
<1>10. WindowHolds(v, to, next)
  <2>1. Len(v) <= MaxInflight
    BY <1>6, <1>7, <1>8
  <2>2. ASSUME NEW j \in 1 .. m PROVE to < v[j] /\ v[j] < next
    <3>1. w[n + 1] > to
      BY <1>2, <1>4, <1>6, <1>9
    <3>2. n + j = n + 1 \/ n + 1 < n + j
      BY <1>6
    <3>3. w[n + 1] <= w[n + j] /\ w[n + j] \in Nat /\ w[n + 1] \in Nat
      <4>1. w[n + j] \in Nat /\ w[n + 1] \in Nat
        BY <1>8, <1>9
      <4>2. n + 1 < n + j => w[n + 1] < w[n + j]
        BY <1>8, <1>9
      <4> QED BY <3>2, <4>1, <4>2
    <3> QED BY <1>8, <1>9, <3>1, <3>3
  <2>3. ASSUME NEW j \in 1 .. m, NEW k \in 1 .. m, j < k PROVE v[j] < v[k]
    <3>1. n + j < n + k
      BY <1>6, <2>3
    <3> QED BY <1>8, <1>9, <2>3, <3>1
  <2> QED BY <1>7, <2>1, <2>2, <2>3 DEF WindowHolds
<1>11. FreeInflights(p, to) = [p EXCEPT !.inflights = v]
  BY <1>1, <1>4, <1>5 DEF FreeInflights
<1> QED BY <1>7, <1>10, <1>11

LEMMA MatchWithin ==
  ASSUME NEW l \in Seq(1 .. Term), NEW c, NEW p \in Progresses, MatchHolds(p, l, c)
  PROVE  p.match \in Nat /\ p.match <= Len(l) /\ Len(l) \in Nat
BY ProgressTypes DEF MatchHolds, Agreed

(* MaybeUpdate: the follower has the log up to n. *)
LEMMA MaybeUpdateFields ==
  ASSUME Context, NEW l \in Seq(1 .. Term), NEW c \in Nat, NEW p \in Progresses,
         ProgressHolds(p, l, c), NEW n \in Nat, Agreed(l, n)
  PROVE  \E q \in Progresses :
           /\ q = MaybeUpdate(p, n) /\ MatchHolds(q, l, c)
           /\ q.match = (IF n > p.match THEN n ELSE p.match)
           /\ q.match < q.next /\ q.next <= Len(l) + 1 /\ p.next <= q.next
           /\ q.state = p.state /\ q.inflights = p.inflights
<1>1. /\ p.match \in Nat /\ p.next \in Nat /\ p.match < p.next /\ p.next <= Len(l) + 1
      /\ Len(l) \in Nat /\ n <= Len(l)
  BY ProgressTypes DEF ProgressHolds, Agreed
<1>2. CASE n > p.match
  <2>1. PICK nx \in Nat : /\ nx = Max({p.next, n + 1}) /\ n < nx /\ p.next <= nx
                          /\ nx <= Len(l) + 1
    <3>1. PICK a, b \in Nat : a = p.next /\ b = n + 1
      BY <1>1
    <3>2. PICK x \in Nat : x = Max({a, b}) /\ x >= a /\ x >= b
      BY MaxNat
    <3>3. a <= Len(l) + 1 /\ b <= Len(l) + 1 /\ Len(l) + 1 \in Int
      BY <1>1, <3>1
    <3>4. x <= Len(l) + 1
      BY <3>2, <3>3, MaxNat
    <3> QED BY <3>1, <3>2, <3>4
  <2>2. PICK q : q = [p EXCEPT !.match = n, !.next = nx]
    OBVIOUS
  <2>3. MaybeUpdate(p, n) = q
    BY <1>2, <2>1, <2>2 DEF MaybeUpdate, Progresses
  <2>4. q \in Progresses
    BY <2>2 DEF Progresses
  <2>5. /\ q.match = n /\ q.next = nx /\ q.state = p.state /\ q.inflights = p.inflights
        /\ q.matchCommit = p.matchCommit /\ q.pending = p.pending
    BY <2>2 DEF Progresses
  <2>6. MatchHolds(q, l, c)
    BY <2>5 DEF MatchHolds, ProgressHolds
  <2> QED BY <1>2, <2>1, <2>3, <2>4, <2>5, <2>6
<1>3. CASE ~(n > p.match)
  <2>1. MaybeUpdate(p, n) = p
    BY <1>3 DEF MaybeUpdate
  <2> QED BY <1>1, <1>3, <2>1 DEF ProgressHolds
<1> QED BY <1>2, <1>3

(* AcceptedAt: the progress after an acknowledgement up to n. *)
Acked(p, n) ==
  CASE p.state = "Probe" -> BecomeReplicate(p)
    [] p.state = "Snapshot" /\ p.match + 1 >= first -> BecomeReplicate(BecomeProbe(p))
    [] p.state = "Replicate" -> FreeInflights(p, n)
    [] OTHER -> p

LEMMA AckedHolds ==
  ASSUME Context, NEW l \in Seq(1 .. Term), NEW c \in Nat, c <= Len(l), NEW p \in Progresses,
         ProgressHolds(p, l, c), NEW n \in Nat, Agreed(l, n),
         n > p.match \/ (n = p.match /\ p.state = "Probe")
  PROVE  /\ Acked(MaybeUpdate(p, n), n) \in Progresses
         /\ ProgressHolds(Acked(MaybeUpdate(p, n), n), l, c)
<1>1. PICK q \in Progresses :
        /\ q = MaybeUpdate(p, n) /\ MatchHolds(q, l, c)
        /\ q.match = (IF n > p.match THEN n ELSE p.match)
        /\ q.match < q.next /\ q.next <= Len(l) + 1 /\ p.next <= q.next
        /\ q.state = p.state /\ q.inflights = p.inflights
  BY MaybeUpdateFields
<1>2. q.state \in {"Probe", "Replicate", "Snapshot"}
  BY ProgressTypes
<1>3. CASE q.state = "Probe"
  <2>1. Acked(q, n) = BecomeReplicate(q)
    BY <1>3 DEF Acked
  <2> QED BY <1>1, <2>1, BecomeReplicateHolds
<1>4. CASE q.state = "Snapshot" /\ q.match + 1 >= first
  <2>1. Acked(q, n) = BecomeReplicate(BecomeProbe(q))
    BY <1>4 DEF Acked
  <2>2. PICK r \in Progresses : r = BecomeProbe(q) /\ MatchHolds(r, l, c)
    BY <1>1, BecomeProbeHolds DEF ProgressHolds
  <2> QED BY <1>1, <2>1, <2>2, BecomeReplicateHolds
<1>5. CASE q.state = "Replicate"
  <2>1. Acked(q, n) = FreeInflights(q, n)
    BY <1>5 DEF Acked
  <2>2. q.match = n
    BY <1>1, <1>5
  <2>3. p.match \in Nat /\ p.next \in Nat /\ q.next \in Nat
    BY ProgressTypes
  <2>4. WindowHolds(q.inflights, p.match, q.next)
    <3>1. PICK w \in Seq(Nat) : w = q.inflights /\ WindowHolds(w, p.match, p.next)
      BY <1>1, ProgressTypes DEF ProgressHolds
    <3>2. \A k \in 1 .. Len(w) : w[k] \in Nat
      OBVIOUS
    <3>3. WindowHolds(w, p.match, q.next)
      BY <1>1, <2>3, <3>1, <3>2, SMTT(30) DEF WindowHolds
    <3> QED BY <3>1, <3>3
  <2>5. PICK v \in Seq(Nat) : /\ FreeInflights(q, n) = [q EXCEPT !.inflights = v]
                              /\ WindowHolds(v, n, q.next)
    BY <2>3, <2>4, FreeHolds
  <2>6. PICK r : r = [q EXCEPT !.inflights = v]
    OBVIOUS
  <2>7. r \in Progresses
    BY <2>6 DEF Progresses
  <2>8. /\ r.match = q.match /\ r.next = q.next /\ r.state = q.state /\ r.inflights = v
        /\ r.matchCommit = q.matchCommit /\ r.pending = q.pending
    BY <2>6 DEF Progresses
  <2>9. ProgressHolds(r, l, c)
    <3>1. MatchHolds(r, l, c)
      BY <1>1, <2>8 DEF MatchHolds
    <3> QED BY <1>1, <1>5, <2>2, <2>5, <2>8, <3>1 DEF ProgressHolds
  <2> QED BY <1>1, <2>1, <2>5, <2>6, <2>7, <2>9
<1>6. CASE q.state = "Snapshot" /\ ~(q.match + 1 >= first)
  <2>1. Acked(q, n) = q
    BY <1>6 DEF Acked
  <2>2. q.inflights = <<>>
    BY <1>1, <1>6 DEF ProgressHolds
  <2>3. ProgressHolds(q, l, c)
    BY <1>1, <2>2, EmptyWindow DEF ProgressHolds
  <2> QED BY <1>1, <2>1, <2>3
<1> QED BY <1>2, <1>3, <1>4, <1>5, <1>6

(* MaybeUpdateMatchCommit: the follower has committed up to n. *)
LEMMA MatchCommitHolds ==
  ASSUME Context, NEW l \in Seq(1 .. Term), NEW c \in Nat, NEW p \in Progresses,
         ProgressHolds(p, l, c), NEW n \in Nat, n <= fcommit
  PROVE  /\ MaybeUpdateMatchCommit(p, n) \in Progresses
         /\ ProgressHolds(MaybeUpdateMatchCommit(p, n), l, c)
<1>1. CASE n > p.matchCommit
  <2>1. PICK sc \in Nat : sc = Max({p.sentCommit, n})
    BY MaxNat, ProgressTypes
  <2>2. PICK q : q = [p EXCEPT !.matchCommit = n, !.sentCommit = sc]
    OBVIOUS
  <2>3. MaybeUpdateMatchCommit(p, n) = q
    BY <1>1, <2>1, <2>2 DEF MaybeUpdateMatchCommit, Progresses
  <2>4. q \in Progresses
    BY <2>2 DEF Progresses
  <2>5. /\ q.match = p.match /\ q.next = p.next /\ q.state = p.state
        /\ q.inflights = p.inflights /\ q.pending = p.pending /\ q.matchCommit = n
    BY <2>2 DEF Progresses
  <2>6. q.pending <= c /\ q.matchCommit <= fcommit
    BY <2>5 DEF ProgressHolds, MatchHolds
  <2>7. ProgressHolds(q, l, c)
    BY <2>4, <2>5, <2>6, SameWindow
  <2> QED BY <2>3, <2>4, <2>7
<1>2. CASE ~(n > p.matchCommit)
  BY <1>2 DEF MaybeUpdateMatchCommit
<1> QED BY <1>1, <1>2

(* RejectedAt: the progress after a rejection that is not stale. *)
Rejected(p, rejected, hint) ==
  LET q == MaybeDecrTo(p, rejected, hint)
  IN IF q.state = "Replicate" THEN BecomeProbe(q) ELSE q

LEMMA RejectedHolds ==
  ASSUME Context, NEW l \in Seq(1 .. Term), NEW c \in Nat, c <= Len(l), NEW p \in Progresses,
         ProgressHolds(p, l, c), NEW rejected \in Nat, NEW hint \in Nat,
         ~IsStaleRejection(p, rejected)
  PROVE  /\ Rejected(p, rejected, hint) \in Progresses
         /\ ProgressHolds(Rejected(p, rejected, hint), l, c)
<1>1. /\ p.match \in Nat /\ p.next \in Nat /\ p.match < p.next /\ p.next <= Len(l) + 1
      /\ Len(l) \in Nat /\ p.sentCommit \in Nat /\ MatchHolds(p, l, c) /\ p.pending <= c
      /\ p.state \in {"Probe", "Replicate", "Snapshot"}
  BY ProgressTypes DEF ProgressHolds, MatchHolds
<1>2. CASE p.state = "Replicate"
  <2>1. PICK nx \in Nat \ {0} : nx = p.match + 1
    BY <1>1
  <2>2. PICK sc \in Nat : sc = Min({p.sentCommit, nx - 1})
    <3>1. nx - 1 \in Nat
      OBVIOUS
    <3> QED BY <1>1, <3>1, MinNat
  <2>3. PICK q : q = [p EXCEPT !.next = nx, !.sentCommit = sc]
    OBVIOUS
  <2>4. MaybeDecrTo(p, rejected, hint) = q
    <3>1. ~(rejected <= p.match)
      BY <1>2 DEF IsStaleRejection
    <3> QED BY <1>2, <2>1, <2>2, <2>3, <3>1 DEF MaybeDecrTo, Progresses
  <2>5. q \in Progresses
    BY <2>3 DEF Progresses
  <2>6. /\ q.match = p.match /\ q.state = p.state /\ q.matchCommit = p.matchCommit
        /\ q.pending = p.pending
    BY <2>3 DEF Progresses
  <2>7. MatchHolds(q, l, c)
    BY <1>1, <2>6 DEF MatchHolds
  <2>8. BecomeProbe(q) \in Progresses /\ ProgressHolds(BecomeProbe(q), l, c)
    BY <2>5, <2>7, BecomeProbeHolds
  <2>9. Rejected(p, rejected, hint) = BecomeProbe(q)
    BY <1>2, <2>4, <2>6 DEF Rejected
  <2> QED BY <2>8, <2>9
<1>3. CASE p.state # "Replicate"
  <2>1. rejected = p.next - 1
    BY <1>1, <1>3 DEF IsStaleRejection
  <2>2. PICK mn \in Nat : mn = Min({rejected, hint + 1}) /\ mn <= rejected
    <3>1. hint + 1 \in Nat
      OBVIOUS
    <3> QED BY <3>1, MinNat
  <2>3. PICK nx \in Nat : nx = Max({mn, p.match + 1}) /\ p.match < nx /\ nx <= Len(l) + 1
    <3>1. PICK b \in Nat : b = p.match + 1
      BY <1>1
    <3>2. PICK x \in Nat : x = Max({mn, b}) /\ x >= b
      BY MaxNat
    <3>3. mn <= Len(l) + 1 /\ b <= Len(l) + 1 /\ Len(l) + 1 \in Int
      BY <1>1, <2>1, <2>2, <3>1
    <3>4. x <= Len(l) + 1
      BY <3>2, <3>3, MaxNat
    <3> QED BY <1>1, <3>1, <3>2, <3>4
  <2>4. PICK sc \in Nat : sc = Min({p.sentCommit, nx - 1})
    <3>1. nx - 1 \in Nat
      BY <1>1, <2>3
    <3> QED BY <1>1, <3>1, MinNat
  <2>5. PICK q : q = [p EXCEPT !.next = nx, !.sentCommit = sc, !.paused = FALSE]
    OBVIOUS
  <2>6. MaybeDecrTo(p, rejected, hint) = q
    BY <1>1, <1>3, <2>1, <2>2, <2>3, <2>4, <2>5 DEF MaybeDecrTo, Progresses
  <2>7. q \in Progresses
    BY <2>5 DEF Progresses
  <2>8. /\ q.match = p.match /\ q.state = p.state /\ q.matchCommit = p.matchCommit
        /\ q.pending = p.pending /\ q.next = nx /\ q.inflights = p.inflights
    BY <2>5 DEF Progresses
  <2>9. q.pending <= c /\ q.inflights = <<>> /\ p.match < q.next /\ q.next <= Len(l) + 1
    BY <1>1, <1>3, <2>3, <2>8 DEF ProgressHolds
  <2>10. ProgressHolds(q, l, c)
    BY <1>1, <2>7, <2>8, <2>9, Restarted
  <2>11. Rejected(p, rejected, hint) = q
    BY <1>3, <2>6, <2>8 DEF Rejected
  <2> QED BY <2>7, <2>10, <2>11
<1> QED BY <1>2, <1>3

(* The window with one more append. *)
LEMMA WindowGrows ==
  ASSUME Context, NEW w \in Seq(Nat), NEW match \in Nat, NEW next \in Nat, NEW n \in Nat \ {0},
         WindowHolds(w, match, next), match < next, Len(w) # MaxInflight, NEW i \in Nat,
         i = next + n - 1
  PROVE  Append(w, i) \in Seq(Nat) /\ WindowHolds(Append(w, i), match, next + n)
<1>1. PICK v : v = Append(w, i)
  OBVIOUS
<1>2. /\ v \in Seq(Nat) /\ Len(v) = Len(w) + 1 /\ Len(w) \in Nat
      /\ \A k \in 1 .. Len(w) : v[k] = w[k]
      /\ \A k \in 1 .. Len(w) + 1 : k \in 1 .. Len(w) \/ (k = Len(w) + 1 /\ v[k] = i)
  BY <1>1, AppendFacts
<1>3. /\ Len(w) <= MaxInflight /\ MaxInflight \in Nat
      /\ \A k \in 1 .. Len(w) : match < w[k] /\ w[k] < next /\ w[k] \in Nat
      /\ \A j, k \in 1 .. Len(w) : j < k => w[j] < w[k]
  BY Configured DEF WindowHolds
<1>4. Len(v) <= MaxInflight
  BY <1>2, <1>3
<1>5. ASSUME NEW k \in 1 .. Len(w) + 1 PROVE match < v[k] /\ v[k] < next + n
  <2>1. CASE k \in 1 .. Len(w)
    <3>1. v[k] = w[k] /\ match < w[k] /\ w[k] < next /\ w[k] \in Nat
      BY <1>2, <1>3, <2>1
    <3> QED BY <3>1
  <2>2. CASE v[k] = i
    BY <2>2
  <2> QED BY <1>2, <2>1, <2>2
<1>6. ASSUME NEW j \in 1 .. Len(w) + 1, NEW k \in 1 .. Len(w) + 1, j < k PROVE v[j] < v[k]
  <2>1. j \in 1 .. Len(w)
    BY <1>2, <1>6
  <2>2. v[j] = w[j] /\ w[j] < next /\ w[j] \in Nat
    BY <1>2, <1>3, <2>1
  <2>3. CASE k \in 1 .. Len(w)
    BY <1>2, <1>3, <1>6, <2>1, <2>3
  <2>4. CASE v[k] = i
    BY <2>2, <2>4
  <2> QED BY <1>2, <2>3, <2>4
<1> QED BY <1>1, <1>2, <1>4, <1>5, <1>6 DEF WindowHolds

(* SentEntries, and the commit index that is sent along. *)
LEMMA SentHolds ==
  ASSUME Context, NEW l \in Seq(1 .. Term), NEW c \in Nat, NEW p \in Progresses,
         ProgressHolds(p, l, c), NEW n \in Nat, p.next + n <= Len(l) + 1, NEW cm \in Nat,
         n > 0 /\ p.state = "Replicate" => Len(p.inflights) # MaxInflight
  PROVE  /\ [SentEntries(p, n) EXCEPT !.sentCommit = Max({@, cm})] \in Progresses
         /\ ProgressHolds([SentEntries(p, n) EXCEPT !.sentCommit = Max({@, cm})], l, c)
<1>1. /\ p.match \in Nat /\ p.next \in Nat /\ p.match < p.next /\ Len(l) \in Nat
      /\ p.sentCommit \in Nat /\ p.inflights \in Seq(Nat)
  BY ProgressTypes DEF ProgressHolds
<1>2. PICK sc \in Nat : sc = Max({p.sentCommit, cm})
  BY <1>1, MaxNat
<1>3. CASE p.state = "Replicate" /\ n > 0
  <2>1. PICK nx, i \in Nat : nx = p.next + n /\ i = p.next + n - 1
    <3>1. p.next + n \in Nat /\ p.next + n - 1 \in Nat
      BY <1>1, <1>3
    <3> QED BY <3>1
  <2>2. PICK w \in Seq(Nat) : w = Append(p.inflights, i) /\ WindowHolds(w, p.match, nx)
    <3>1. WindowHolds(p.inflights, p.match, p.next) /\ Len(p.inflights) # MaxInflight
      BY <1>3 DEF ProgressHolds
    <3>2. n \in Nat \ {0}
      BY <1>3
    <3> QED BY <1>1, <2>1, <3>1, <3>2, WindowGrows
  <2>3. PICK q : q = [p EXCEPT !.next = nx, !.inflights = w, !.paused = TRUE, !.sentCommit = sc]
    OBVIOUS
  <2>4. [SentEntries(p, n) EXCEPT !.sentCommit = Max({@, cm})] = q
    BY <1>2, <1>3, <2>1, <2>2, <2>3 DEF SentEntries, Progresses
  <2>5. q \in Progresses
    BY <2>3 DEF Progresses
  <2>6. /\ q.match = p.match /\ q.state = p.state /\ q.matchCommit = p.matchCommit
        /\ q.pending = p.pending /\ q.next = nx /\ q.inflights = w
    BY <2>3 DEF Progresses
  <2>7. q.match < q.next /\ q.next <= Len(l) + 1
    BY <1>1, <2>1, <2>6
  <2>8. MatchHolds(q, l, c)
    BY <2>6 DEF ProgressHolds, MatchHolds
  <2>9. ProgressHolds(q, l, c)
    BY <1>3, <2>2, <2>6, <2>7, <2>8 DEF ProgressHolds
  <2> QED BY <2>4, <2>5, <2>9
<1>4. CASE ~(p.state = "Replicate" /\ n > 0)
  <2>3. PICK q : q = [p EXCEPT !.paused = TRUE, !.sentCommit = sc]
    OBVIOUS
  <2>4. [SentEntries(p, n) EXCEPT !.sentCommit = Max({@, cm})] = q
    BY <1>2, <1>4, <2>3 DEF SentEntries, Progresses
  <2>5. q \in Progresses
    BY <2>3 DEF Progresses
  <2>6. /\ q.match = p.match /\ q.state = p.state /\ q.matchCommit = p.matchCommit
        /\ q.pending = p.pending /\ q.next = p.next /\ q.inflights = p.inflights
    BY <2>3 DEF Progresses
  <2>7. q.pending <= c /\ q.matchCommit <= fcommit
    BY <2>6 DEF ProgressHolds, MatchHolds
  <2>8. ProgressHolds(q, l, c)
    BY <2>5, <2>6, <2>7, SameWindow
  <2> QED BY <2>4, <2>5, <2>8
<1> QED BY <1>3, <1>4

-----------------------------------------------------------------------------
(* The leader. *)

LEMMA LeaderFields ==
  ASSUME NEW s \in LeaderStates
  PROVE  /\ s.pr \in Progresses /\ s.ch \in Seq(Appends) /\ s.log \in Seq(1 .. Term)
         /\ s.commit \in Nat /\ s.snap \in {"none", "sending", "applied", "failed"}
         /\ Len(s.log) \in Nat /\ Len(s.ch) \in Nat
BY DEF LeaderStates

(* The leader with another progress. *)
LEMMA WithProgress ==
  ASSUME NEW s, LeaderHolds(s), NEW t \in LeaderStates, ProgressHolds(t.pr, s.log, s.commit),
         t.log = s.log, t.commit = s.commit, t.ch = s.ch
  PROVE  LeaderHolds(t)
BY DEF LeaderHolds

LEMMA SnapshotSent ==
  ASSUME Context, NEW s, LeaderHolds(s), s.pr.next < first
  PROVE  /\ LeaderHolds(maybeSendSnapshot(s))
         /\ maybeSendSnapshot(s).log = s.log /\ maybeSendSnapshot(s).commit = s.commit
<1>1. /\ s \in LeaderStates /\ s.commit <= Len(s.log) /\ ProgressHolds(s.pr, s.log, s.commit)
      /\ first <= applied + 1 /\ applied <= s.commit
  BY DEF LeaderHolds
<1>2. s.pr \in Progresses /\ s.log \in Seq(1 .. Term) /\ s.commit \in Nat /\ applied \in Nat
  BY <1>1, LeaderFields, Configured
<1>3. s.pr.match <= applied
  <2>1. s.pr.match \in Nat /\ s.pr.next \in Nat /\ s.pr.match < s.pr.next /\ first \in Nat
    BY <1>1, <1>2, ProgressTypes, Configured DEF ProgressHolds
  <2> QED BY <1>1, <1>2, <2>1
<1>4. PICK p \in Progresses : p = BecomeSnapshot(s.pr, applied) /\ ProgressHolds(p, s.log, s.commit)
  BY <1>1, <1>2, <1>3, BecomeSnapshotHolds DEF ProgressHolds
<1>5. CASE s.pr.active
  <2>1. PICK t : t = [s EXCEPT !.pr = p, !.snap = "sending"]
    OBVIOUS
  <2>2. maybeSendSnapshot(s) = t
    BY <1>1, <1>4, <1>5, <2>1 DEF maybeSendSnapshot, LeaderStates
  <2>3. t \in LeaderStates
    BY <1>1, <2>1 DEF LeaderStates
  <2>4. t.log = s.log /\ t.commit = s.commit /\ t.pr = p /\ t.ch = s.ch
    BY <1>1, <2>1 DEF LeaderStates
  <2>5. LeaderHolds(t)
    BY <1>4, <2>3, <2>4, WithProgress
  <2> QED BY <2>2, <2>4, <2>5
<1>6. CASE ~s.pr.active
  BY <1>6 DEF maybeSendSnapshot
<1> QED BY <1>5, <1>6

LEMMA MaybeSendHolds ==
  ASSUME Context, NEW s, LeaderHolds(s)
  PROVE  /\ LeaderHolds(maybeSendAppend(s))
         /\ maybeSendAppend(s).log = s.log /\ maybeSendAppend(s).commit = s.commit
<1>1. s \in LeaderStates /\ ProgressHolds(s.pr, s.log, s.commit)
  BY DEF LeaderHolds
<1>2. /\ s.pr \in Progresses /\ s.log \in Seq(1 .. Term) /\ s.commit \in Nat /\ Len(s.log) \in Nat
      /\ s.ch \in Seq(Appends) /\ Len(s.ch) \in Nat
  BY <1>1, LeaderFields
<1> DEFINE p == s.pr
           last == Len(s.log)
           n == IF CanSendEntries(p, last) THEN Min({MaxMsgEntries, last - p.next + 1}) ELSE 0
<1>3. CASE ~ShouldSendMsgApp(p, last, s.commit)
  BY <1>3 DEF maybeSendAppend
<1>4. CASE ShouldSendMsgApp(p, last, s.commit) /\ p.next < first
  <2>1. maybeSendAppend(s) = maybeSendSnapshot(s)
    BY <1>4 DEF maybeSendAppend
  <2> QED BY <1>4, <2>1, SnapshotSent
<1>5. CASE ShouldSendMsgApp(p, last, s.commit) /\ ~(p.next < first)
  <2>1. /\ p.match \in Nat /\ p.next \in Nat /\ p.match < p.next /\ p.next <= last + 1
        /\ Len(p.inflights) \in Nat /\ MaxMsgEntries \in Nat
    BY <1>1, <1>2, ProgressTypes, Configured DEF ProgressHolds
  <2>2. /\ n \in Nat /\ p.next + n <= last + 1
        /\ n > 0 => CanSendEntries(p, last)
    <3>1. CASE CanSendEntries(p, last)
      <4>1. last - p.next + 1 \in Nat
        BY <1>2, <2>1
      <4>2. PICK m \in Nat : m = Min({MaxMsgEntries, last - p.next + 1}) /\ m <= last - p.next + 1
        BY <2>1, <4>1, MinNat
      <4>3. n = m
        BY <3>1, <4>2
      <4> HIDE DEF n
      <4> QED BY <1>2, <2>1, <3>1, <4>2, <4>3
    <3>2. CASE ~CanSendEntries(p, last)
      <4>1. n = 0
        BY <3>2
      <4> HIDE DEF n
      <4> QED BY <1>2, <2>1, <4>1
    <3> QED BY <3>1, <3>2
  <2>3. PICK m \in Nat : m = n
    BY <2>2
  <2>4. /\ p.next + m <= Len(s.log) + 1
        /\ m > 0 /\ p.state = "Replicate" => Len(p.inflights) # MaxInflight
    BY <2>2, <2>3 DEF CanSendEntries, InflightsFull
  <2>5. PICK q \in Progresses : /\ q = [SentEntries(p, m) EXCEPT !.sentCommit = Max({@, s.commit})]
                                /\ ProgressHolds(q, s.log, s.commit)
    BY <1>1, <1>2, <2>4, SentHolds
  <2>6. PICK i \in Nat : i = p.next - 1
    <3>1. p.next - 1 \in Nat
      BY <2>1
    <3> QED BY <3>1
  <2>7. PICK a : a = [index |-> i, n |-> m, commit |-> s.commit, match |-> p.match]
    OBVIOUS
  <2>8. a \in Appends /\ a.index = i /\ a.n = m /\ a.commit = s.commit /\ a.match = p.match
    BY <1>2, <2>1, <2>7 DEF Appends
  <2>9. AppendHolds(a, s.log, s.commit)
    <3>1. i + m <= Len(s.log)
      BY <1>2, <2>1, <2>4, <2>6
    <3>2. Agreed(s.log, a.match)
      BY <1>1, <2>8 DEF ProgressHolds, MatchHolds
    <3> QED BY <1>2, <2>8, <3>1, <3>2 DEF AppendHolds
  <2>10. PICK ch : ch = Append(s.ch, a)
    OBVIOUS
  <2>11. PICK t : t = [s EXCEPT !.pr = q, !.ch = ch]
    OBVIOUS
  <2>12. maybeSendAppend(s) = t
    <3>1. maybeSendAppend(s) =
            [s EXCEPT !.pr = [SentEntries(p, n) EXCEPT !.sentCommit = Max({@, s.commit})],
                      !.ch = Append(s.ch, [index |-> p.next - 1, n |-> n, commit |-> s.commit,
                                        match |-> p.match])]
      <4> HIDE DEF n
      <4> QED BY <1>1, <1>5 DEF maybeSendAppend, LeaderStates, n
    <3> HIDE DEF n
    <3> QED BY <2>3, <2>5, <2>6, <2>7, <2>10, <2>11, <3>1
  <2>13. /\ ch \in Seq(Appends) /\ Len(ch) = Len(s.ch) + 1
         /\ \A k \in 1 .. Len(s.ch) : ch[k] = s.ch[k]
         /\ \A k \in 1 .. Len(s.ch) + 1 : k \in 1 .. Len(s.ch) \/ (k = Len(s.ch) + 1 /\ ch[k] = a)
    BY <1>2, <2>8, <2>10, AppendFacts
  <2>14. t \in LeaderStates
    BY <1>1, <2>11, <2>13 DEF LeaderStates
  <2>15. t.log = s.log /\ t.commit = s.commit /\ t.pr = q /\ t.ch = ch
    BY <1>1, <2>11 DEF LeaderStates
  <2>16. \A k \in 1 .. Len(ch) : AppendHolds(ch[k], s.log, s.commit)
    <3>1. ASSUME NEW k \in 1 .. Len(ch) PROVE AppendHolds(ch[k], s.log, s.commit)
      <4>1. CASE k \in 1 .. Len(s.ch)
        <5>1. AppendHolds(s.ch[k], s.log, s.commit)
          BY <4>1 DEF LeaderHolds
        <5> QED BY <2>13, <4>1, <5>1
      <4>2. CASE ch[k] = a
        BY <2>9, <4>2
      <4> QED BY <2>13, <4>1, <4>2
    <3> QED BY <3>1
  <2>17. LeaderHolds(t)
    BY <2>5, <2>14, <2>15, <2>16 DEF LeaderHolds
  <2> QED BY <2>12, <2>15, <2>17
<1> QED BY <1>3, <1>4, <1>5

(* The loop that sends: each round keeps what holds of the leader. *)
LEMMA SendAllHolds ==
  ASSUME Context, NEW s, LeaderHolds(s)
  PROVE  /\ LeaderHolds(SendAll(s))
         /\ SendAll(s).log = s.log /\ SendAll(s).commit = s.commit
<1> DEFINE Round(u) == CHOOSE x \in {maybeSendAppend(v) : v \in {u}} : TRUE
           Rounds(f, n) == f = [k \in 0 .. n |-> IF k = 0 THEN s ELSE Round(f[k - 1])]
<1>1. ASSUME NEW u PROVE Round(u) = maybeSendAppend(u)
  OBVIOUS
<1>2. ASSUME NEW n \in Nat PROVE \E f : Rounds(f, n)
  <2> DEFINE T == {m \in Nat : ~\E f : Rounds(f, m)}
  <2>1. SUFFICES ASSUME n \in T PROVE FALSE
    OBVIOUS
  <2>2. PICK m \in T : \A i \in T : m <= i
    BY <2>1, NatMin
  <2>3. CASE m = 0
    <3>1. PICK f : f = [k \in 0 .. 0 |-> s]
      OBVIOUS
    <3>2. \A k \in 0 .. 0 : k = 0
      OBVIOUS
    <3> HIDE DEF Round
    <3>3. f = [k \in 0 .. 0 |-> IF k = 0 THEN s ELSE Round(f[k - 1])]
      BY <3>1, <3>2
    <3> QED BY <2>2, <2>3, <3>3
  <2>4. CASE m # 0
    <3>1. m - 1 \in Nat /\ m - 1 \notin T
      <4> HIDE DEF Rounds
      <4>1. m \in Nat
        BY <2>2
      <4>2. m - 1 \in Nat /\ ~(m <= m - 1)
        BY <2>4, <4>1
      <4> QED BY <2>2, <4>2
    <3>2. PICK f : Rounds(f, m - 1)
      BY <3>1
    <3> HIDE DEF Round
    <3>3. PICK g : g = [k \in 0 .. m |-> IF k = m THEN Round(f[m - 1]) ELSE f[k]]
      OBVIOUS
    <3>4. \A k \in 0 .. m - 1 : f[k] = (IF k = 0 THEN s ELSE Round(f[k - 1]))
      BY <3>2
    <3>5. ASSUME NEW k \in 0 .. m PROVE g[k] = (IF k = 0 THEN s ELSE Round(g[k - 1]))
      <4>1. CASE k = m
        <5>1. g[k] = Round(f[m - 1])
          BY <3>3, <4>1
        <5>2. m - 1 \in 0 .. m /\ m - 1 # m
          BY <3>1
        <5>3. g[m - 1] = f[m - 1]
          BY <3>3, <5>2
        <5> QED BY <2>4, <4>1, <5>1, <5>3
      <4>2. CASE k # m /\ k # 0
        <5>1. k \in 0 .. m - 1 /\ k - 1 \in 0 .. m /\ k - 1 # m
          BY <3>1, <4>2
        <5>2. g[k] = f[k] /\ g[k - 1] = f[k - 1]
          BY <3>3, <4>2, <5>1
        <5> QED BY <3>4, <4>2, <5>1, <5>2
      <4>3. CASE k # m /\ k = 0
        <5>1. k \in 0 .. m - 1 /\ g[k] = f[k]
          BY <3>1, <3>3, <4>3
        <5> QED BY <3>4, <4>3, <5>1
      <4> QED BY <4>1, <4>2, <4>3
    <3>6. g = [k \in 0 .. m |-> IF k = 0 THEN s ELSE Round(g[k - 1])]
      BY <3>3, <3>5
    <3> QED BY <2>2, <3>6
  <2> QED BY <2>3, <2>4
<1> DEFINE sent[k \in 0 .. MaxInflight + 1] ==
             IF k = 0 THEN s ELSE CHOOSE u \in {maybeSendAppend(v) : v \in {sent[k - 1]}} : TRUE
<1>3. SendAll(s) = sent[MaxInflight + 1]
  BY Zenon DEF SendAll
<1>4. MaxInflight + 1 \in Nat
  BY Configured
<1>5. Rounds(sent, MaxInflight + 1)
  <2>1. \E f : f = [k \in 0 .. MaxInflight + 1 |->
                      IF k = 0 THEN s ELSE CHOOSE u \in {maybeSendAppend(v) : v \in {f[k - 1]}} : TRUE]
    BY <1>2, <1>4, Zenon
  <2> QED BY <2>1, Zenon
<1> HIDE DEF sent, Round
<1>6. \A k \in 0 .. MaxInflight + 1 : sent[k] = (IF k = 0 THEN s ELSE Round(sent[k - 1]))
  BY <1>5
<1> DEFINE Good(u) == LeaderHolds(u) /\ u.log = s.log /\ u.commit = s.commit
           Bad == {k \in 0 .. MaxInflight + 1 : ~Good(sent[k])}
<1>7. Bad = {}
  <2>1. SUFFICES ASSUME Bad # {} PROVE FALSE
    OBVIOUS
  <2>2. Bad \in SUBSET Nat
    BY <1>4
  <2>3. PICK k \in Bad : \A j \in Bad : k <= j
    BY <2>1, <2>2, NatMin
  <2>4. k \in 0 .. MaxInflight + 1 /\ ~Good(sent[k])
    OBVIOUS
  <2>5. CASE k = 0
    <3>1. sent[k] = s
      BY <1>6, <2>4, <2>5
    <3> QED BY <2>4, <3>1
  <2>6. CASE k # 0
    <3>1. k - 1 \in 0 .. MaxInflight + 1 /\ ~(k <= k - 1)
      BY <1>4, <2>4, <2>6
    <3>2. Good(sent[k - 1])
      BY <2>3, <3>1
    <3>3. PICK u : u = sent[k - 1]
      OBVIOUS
    <3>4. sent[k] = maybeSendAppend(u)
      BY <1>1, <1>6, <2>4, <2>6, <3>3
    <3>5. LeaderHolds(u) /\ u.log = s.log /\ u.commit = s.commit
      BY <3>2, <3>3
    <3>6. Good(maybeSendAppend(u))
      BY <3>5, MaybeSendHolds
    <3> QED BY <2>4, <3>4, <3>6
  <2> QED BY <2>5, <2>6
<1>8. MaxInflight + 1 \in 0 .. MaxInflight + 1
  BY <1>4
<1>9. Good(sent[MaxInflight + 1])
  BY <1>7, <1>8
<1> QED BY <1>3, <1>9

(* l2 continues l, as a log does that grows. *)
Continues(l, l2) == Len(l) <= Len(l2) /\ \A i \in 1 .. Len(l) : l2[i] = l[i]

LEMMA AgreedContinues ==
  ASSUME NEW l \in Seq(1 .. Term), NEW l2 \in Seq(1 .. Term), Continues(l, l2), NEW k, Agreed(l, k)
  PROVE  Agreed(l2, k)
<1>1. k \in Nat /\ k <= Len(l) /\ Len(l) \in Nat /\ Len(l2) \in Nat /\ Len(l) <= Len(l2)
  BY DEF Agreed, Continues
<1>2. \A i \in 1 .. k : i \in 1 .. Len(l)
  BY <1>1
<1>3. k <= Len(l2)
  BY <1>1
<1> QED BY <1>2, <1>3 DEF Agreed, Continues

LEMMA ProgressContinues ==
  ASSUME NEW l \in Seq(1 .. Term), NEW l2 \in Seq(1 .. Term), Continues(l, l2),
         NEW c \in Nat, NEW c2 \in Nat, c <= c2, NEW p \in Progresses, ProgressHolds(p, l, c)
  PROVE  ProgressHolds(p, l2, c2)
<1>1. Agreed(l2, p.match)
  BY AgreedContinues DEF ProgressHolds, MatchHolds
<1>2. p.next \in Nat /\ p.pending \in Nat /\ p.next <= Len(l) + 1 /\ p.pending <= c
      /\ Len(l) \in Nat /\ Len(l2) \in Nat /\ Len(l) <= Len(l2)
  BY ProgressTypes DEF ProgressHolds, MatchHolds, Continues
<1>3. p.next <= Len(l2) + 1 /\ p.pending <= c2
  BY <1>2
<1> QED BY <1>1, <1>3 DEF ProgressHolds, MatchHolds

(* The leader with another progress, a longer log and a higher commit index. *)
LEMMA LeaderContinues ==
  ASSUME Context, NEW s, LeaderHolds(s), NEW t \in LeaderStates, t.ch = s.ch,
         Continues(s.log, t.log), s.commit <= t.commit, t.commit <= Len(t.log),
         ProgressHolds(t.pr, t.log, t.commit)
  PROVE  LeaderHolds(t)
<1>1. /\ s.log \in Seq(1 .. Term) /\ s.commit \in Nat /\ t.log \in Seq(1 .. Term)
      /\ t.commit \in Nat /\ s.ch \in Seq(Appends) /\ Len(s.ch) \in Nat
  BY LeaderFields DEF LeaderHolds
<1>2. Agreed(t.log, fcommit) /\ first <= applied + 1 /\ applied <= t.commit
  <2>1. Agreed(s.log, fcommit) /\ first <= applied + 1 /\ applied <= s.commit
    BY DEF LeaderHolds
  <2>2. Agreed(t.log, fcommit)
    BY <1>1, <2>1, AgreedContinues
  <2>3. applied \in Nat
    BY Configured
  <2> QED BY <1>1, <2>1, <2>2, <2>3
<1>3. ASSUME NEW k \in 1 .. Len(t.ch) PROVE AppendHolds(t.ch[k], t.log, t.commit)
  <2>1. PICK m \in Appends : m = t.ch[k]
    BY <1>1
  <2>2. AppendHolds(m, s.log, s.commit)
    BY <2>1 DEF LeaderHolds
  <2>3. Agreed(t.log, m.match)
    BY <1>1, <2>2, AgreedContinues DEF AppendHolds
  <2>4. m.index \in Nat /\ m.n \in Nat /\ m.commit \in Nat
    BY DEF Appends
  <2>5. /\ m.index + m.n <= Len(s.log) /\ m.commit <= s.commit /\ Len(s.log) <= Len(t.log)
        /\ Len(s.log) \in Nat /\ Len(t.log) \in Nat
    BY <1>1, <2>2 DEF AppendHolds, Continues
  <2>6. m.index + m.n <= Len(t.log) /\ m.commit <= t.commit
    BY <1>1, <2>4, <2>5
  <2> QED BY <2>1, <2>3, <2>6 DEF AppendHolds
<1> QED BY <1>2, <1>3 DEF LeaderHolds

LEMMA ContinuesSame ==
  ASSUME NEW l \in Seq(1 .. Term)
  PROVE  Continues(l, l)
BY DEF Continues

LEMMA ConflictIsIndex ==
  ASSUME NEW l, NEW known, NEW index \in Nat, NEW term
  PROVE  findConflictByTerm(l, known, index, term).index \in 0 .. index
<1> DEFINE guesses == {i \in 1 .. index : i < known \/ l[i] <= term}
<1>1. findConflictByTerm(l, known, index, term).index = IF guesses = {} THEN 0 ELSE Max(guesses)
  BY DEF findConflictByTerm
<1>2. guesses # {} => Max(guesses) \in guesses
  <2>1. guesses \in SUBSET (1 .. index)
    OBVIOUS
  <2> HIDE DEF guesses
  <2> QED BY <2>1, MaxOfIndexes
<1>3. guesses # {} => Max(guesses) \in 1 .. index
  BY <1>2
<1> HIDE DEF guesses
<1> QED BY <1>1, <1>3

LEMMA RejectedAtHolds ==
  ASSUME Context, NEW s, LeaderHolds(s), NEW m \in Answers
  PROVE  /\ LeaderHolds(RejectedAt(s, m))
         /\ RejectedAt(s, m).log = s.log /\ RejectedAt(s, m).commit = s.commit
<1>1. /\ s \in LeaderStates /\ s.commit <= Len(s.log) /\ ProgressHolds(s.pr, s.log, s.commit)
      /\ s.pr \in Progresses /\ s.log \in Seq(1 .. Term) /\ s.commit \in Nat
  BY LeaderFields DEF LeaderHolds
<1>2. m.index \in Nat /\ m.hint \in Nat
  BY DEF Answers
<1>3. PICK hint \in Nat : hint = IF m.logTerm > 0
                                 THEN findConflictByTerm(log, first - 1, m.hint, m.logTerm).index
                                 ELSE m.hint
  <2>1. findConflictByTerm(log, first - 1, m.hint, m.logTerm).index \in 0 .. m.hint
    BY <1>2, ConflictIsIndex
  <2>2. findConflictByTerm(log, first - 1, m.hint, m.logTerm).index \in Nat
    BY <1>2, <2>1
  <2> QED BY <1>2, <2>2
<1>4. CASE IsStaleRejection(s.pr, m.index)
  BY <1>4 DEF RejectedAt
<1>5. CASE ~IsStaleRejection(s.pr, m.index)
  <2>1. PICK q \in Progresses : q = Rejected(s.pr, m.index, hint) /\ ProgressHolds(q, s.log, s.commit)
    BY <1>1, <1>2, <1>5, RejectedHolds
  <2>2. PICK t : t = [s EXCEPT !.pr = q]
    OBVIOUS
  <2>3. RejectedAt(s, m) = maybeSendAppend(t)
    BY <1>3, <1>5, <2>1, <2>2, Zenon DEF RejectedAt, Rejected
  <2>4. t \in LeaderStates
    BY <1>1, <2>2 DEF LeaderStates
  <2>5. t.log = s.log /\ t.commit = s.commit /\ t.pr = q /\ t.ch = s.ch
    BY <1>1, <2>2 DEF LeaderStates
  <2>6. LeaderHolds(t)
    BY <2>1, <2>4, <2>5, WithProgress
  <2> QED BY <2>3, <2>5, <2>6, MaybeSendHolds
<1> QED BY <1>4, <1>5

LEMMA AcceptedAtHolds ==
  ASSUME Context, NEW s, LeaderHolds(s), NEW m \in Answers, Agreed(s.log, m.index), s.log = log
  PROVE  /\ LeaderHolds(AcceptedAt(s, m))
         /\ AcceptedAt(s, m).log = s.log /\ s.commit <= AcceptedAt(s, m).commit
<1>1. /\ s \in LeaderStates /\ s.commit <= Len(s.log) /\ ProgressHolds(s.pr, s.log, s.commit)
      /\ s.pr \in Progresses /\ s.log \in Seq(1 .. Term) /\ s.commit \in Nat /\ Len(s.log) \in Nat
  BY LeaderFields DEF LeaderHolds
<1>2. m.index \in Nat
  BY DEF Answers
<1>3. PICK p \in Progresses : p = MaybeUpdate(s.pr, m.index) /\ p.match \in Nat /\ p.match <= Len(s.log)
  <2>1. PICK p \in Progresses : p = MaybeUpdate(s.pr, m.index) /\ MatchHolds(p, s.log, s.commit)
    BY <1>1, <1>2, MaybeUpdateFields
  <2>2. p.match \in Nat /\ p.match <= Len(s.log)
    BY <1>1, <2>1, MatchWithin
  <2> QED BY <2>1, <2>2
<1>4. PICK c \in Nat : /\ c = IF TermAt(log, p.match) = Term THEN Max({s.commit, p.match}) ELSE s.commit
                       /\ s.commit <= c /\ c <= Len(s.log)
  <2>1. PICK x \in Nat : x = Max({s.commit, p.match}) /\ x >= s.commit
    BY <1>1, <1>3, MaxNat
  <2>2. x <= Len(s.log)
    BY <1>1, <1>3, <2>1, MaxNat
  <2>3. CASE TermAt(log, p.match) = Term
    BY <2>1, <2>2, <2>3
  <2>4. CASE TermAt(log, p.match) # Term
    BY <1>1, <2>4
  <2> QED BY <2>3, <2>4
<1>5. CASE ~(m.index > s.pr.match \/ (m.index = s.pr.match /\ s.pr.state = "Probe"))
  <2>1. AcceptedAt(s, m) = s
    BY <1>5 DEF AcceptedAt
  <2> QED BY <1>1, <2>1
<1>6. CASE m.index > s.pr.match \/ (m.index = s.pr.match /\ s.pr.state = "Probe")
  <2>1. ProgressHolds(s.pr, s.log, c)
    BY <1>1, <1>4, ContinuesSame, ProgressContinues
  <2>2. PICK q \in Progresses : q = Acked(p, m.index) /\ ProgressHolds(q, s.log, c)
    BY <1>1, <1>2, <1>3, <1>4, <1>6, <2>1, AckedHolds
  <2>3. PICK t : t = [s EXCEPT !.pr = q, !.commit = c]
    OBVIOUS
  <2>4. t \in LeaderStates
    BY <1>1, <2>3 DEF LeaderStates
  <2>5. t.log = s.log /\ t.commit = c /\ t.pr = q /\ t.ch = s.ch
    BY <1>1, <2>3 DEF LeaderStates
  <2>6. LeaderHolds(t)
    <3>1. Continues(s.log, t.log)
      BY <1>1, <2>5, ContinuesSame
    <3> QED BY <1>4, <2>2, <2>4, <2>5, <3>1, LeaderContinues
  <2>7. AcceptedAt(s, m) = SendAll(IF c > s.commit THEN maybeSendAppend(t) ELSE t)
    BY <1>3, <1>4, <1>6, <2>2, <2>3, Zenon DEF AcceptedAt, Acked
  <2>8. PICK u : u = IF c > s.commit THEN maybeSendAppend(t) ELSE t
    OBVIOUS
  <2>9. LeaderHolds(u) /\ u.log = s.log /\ u.commit = c
    BY <2>5, <2>6, <2>8, MaybeSendHolds
  <2>10. AcceptedAt(s, m) = SendAll(u)
    BY <2>7, <2>8
  <2>11. LeaderHolds(SendAll(u)) /\ SendAll(u).log = s.log /\ SendAll(u).commit = c
    BY <2>9, SendAllHolds
  <2> QED BY <1>4, <2>10, <2>11
<1> QED BY <1>5, <1>6

-----------------------------------------------------------------------------
(* Steps of the leader. *)

LEMMA NowFields ==
  /\ Now.pr = pr /\ Now.ch = toFollower /\ Now.snap = snap /\ Now.log = log /\ Now.commit = commit
  /\ Now'.pr = pr' /\ Now'.ch = toFollower' /\ Now'.snap = snap' /\ Now'.log = log'
  /\ Now'.commit = commit'
BY DEF Now

LEMMA InvContext ==
  ASSUME Inv
  PROVE  /\ Context /\ LeaderHolds(Now) /\ Now \in LeaderStates
         /\ pr \in Progresses /\ toFollower \in Seq(Appends) /\ log \in Seq(1 .. Term)
         /\ commit \in Nat /\ commit <= Len(log) /\ Len(log) \in Nat
         /\ first <= applied + 1 /\ applied <= commit /\ applied \in Nat
         /\ snap \in {"none", "sending", "applied", "failed"}
         /\ ProgressHolds(pr, log, commit)
         /\ Agreed(log, fcommit) /\ fcommit \in Nat
<1>1. LeaderHolds(Now) /\ Now \in LeaderStates /\ Context
  BY DEF Inv, LeaderHolds, FollowerHolds, Context
<1>2. /\ pr \in Progresses /\ toFollower \in Seq(Appends) /\ log \in Seq(1 .. Term)
      /\ commit \in Nat /\ Len(log) \in Nat /\ snap \in {"none", "sending", "applied", "failed"}
  BY <1>1, NowFields, LeaderFields
<1>3. /\ commit <= Len(log) /\ ProgressHolds(pr, log, commit) /\ Agreed(log, fcommit)
      /\ first <= applied + 1 /\ applied <= commit
  BY <1>1, NowFields DEF LeaderHolds
<1> QED BY <1>1, <1>2, <1>3, Configured

(* What the leader takes on becomes its state. *)
LEMMA Taken ==
  ASSUME NEW s, LeaderHolds(s), LeaderTakes(s), UNCHANGED <<conf, first, applied, flog, fcommit>>
  PROVE  LeaderHolds(Now)' /\ log' = s.log /\ commit' = s.commit
<1>1. pr' = s.pr /\ toFollower' = s.ch /\ snap' = s.snap /\ log' = s.log /\ commit' = s.commit
  BY DEF LeaderTakes
<1>2. s \in LeaderStates
  BY DEF LeaderHolds
<1>3. (Now \in LeaderStates)'
  BY <1>1, <1>2 DEF Now, LeaderStates
<1>4. /\ s.commit <= Len(s.log) /\ first <= applied + 1 /\ applied <= s.commit
      /\ Agreed(s.log, fcommit)
      /\ ProgressHolds(s.pr, s.log, s.commit)
      /\ \A k \in 1 .. Len(s.ch) : AppendHolds(s.ch[k], s.log, s.commit)
  BY DEF LeaderHolds
<1>5. (commit <= Len(log) /\ first <= applied + 1 /\ applied <= commit /\ Agreed(log, fcommit))'
  BY <1>1, <1>4 DEF Agreed
<1>6. ProgressHolds(pr, log, commit)'
  BY <1>1, <1>4 DEF ProgressHolds, MatchHolds, Agreed, WindowHolds, MaxInflight
<1>7. (\A k \in 1 .. Len(toFollower) : AppendHolds(toFollower[k], log, commit))'
  BY <1>1, <1>4 DEF AppendHolds, Agreed
<1>8. LeaderHolds(Now)'
  BY <1>3, <1>5, <1>6, <1>7, NowFields DEF LeaderHolds
<1> QED BY <1>1, <1>8

(* The follower's side while the leader's log and commit index grow. *)
LEMMA FollowerStays ==
  ASSUME Inv, log' \in Seq(1 .. Term), Continues(log, log'), commit' \in Nat, commit <= commit',
         \A i \in 1 .. Len(log') : i > Len(log) => log'[i] = Term,
         UNCHANGED <<flog, fcommit, facc>>
  PROVE  /\ FollowerHolds(log)'
         /\ \A m \in Answers : AnswerHolds(log, m) => AnswerHolds(log, m)'
         /\ UNCHANGED beat => BeatHolds(log, commit)'
<1>1. PICK l, l2 \in Seq(1 .. Term) : l = log /\ l2 = log'
  BY InvContext
<1>2. Continues(l, l2) /\ \A i \in 1 .. Len(l2) : i > Len(l) => l2[i] = Term
  BY <1>1
<1>3. FollowerHolds(l)
  BY <1>1 DEF Inv
<1>4. \A k : Agreed(l, k) => Agreed(l2, k)
  BY <1>2, AgreedContinues
<1>5. Len(l) \in Nat /\ Len(l2) \in Nat /\ Len(l) <= Len(l2) /\ Len(flog) \in Nat
  BY <1>2, <1>3 DEF FollowerHolds, Continues
<1>6. FollowerHolds(l2)
  <2>1. ASSUME NEW i \in 1 .. Len(flog), i <= Len(l2), flog[i] = l2[i] PROVE Agreed(l2, i)
    <3>1. CASE i > Len(l)
      <4>1. flog[i] = Term
        BY <1>2, <1>5, <2>1, <3>1
      <4> QED BY <1>3, <1>4, <4>1 DEF FollowerHolds
    <3>2. CASE ~(i > Len(l))
      <4>1. i <= Len(l) /\ i \in 1 .. Len(l)
        BY <1>5, <3>2
      <4>2. flog[i] = l[i]
        BY <1>2, <2>1, <4>1 DEF Continues
      <4> QED BY <1>3, <1>4, <4>1, <4>2 DEF FollowerHolds
    <3> QED BY <3>1, <3>2
  <2> QED BY <1>3, <1>4, <2>1 DEF FollowerHolds
<1>7. FollowerHolds(log)'
  BY <1>1, <1>6 DEF FollowerHolds, Agreed
<1>8. ASSUME NEW m \in Answers, AnswerHolds(log, m) PROVE AnswerHolds(log, m)'
  <2>1. AnswerHolds(l2, m)
    BY <1>1, <1>4, <1>8 DEF AnswerHolds
  <2> QED BY <1>1, <2>1 DEF AnswerHolds, Agreed
<1>9. ASSUME UNCHANGED beat PROVE BeatHolds(log, commit)'
  <2>1. BeatHolds(l, commit)
    BY <1>1 DEF Inv
  <2>2. PICK c, c2 \in Nat : c = commit /\ c2 = commit'
    BY InvContext
  <2>3. BeatHolds(l2, c2)
    BY <1>4, <2>1, <2>2 DEF BeatHolds
  <2> QED BY <1>1, <1>9, <2>2, <2>3 DEF BeatHolds, Agreed
<1> QED BY <1>7, <1>8, <1>9

(* A step of the leader that takes s on. *)
LEMMA LeaderStep ==
  ASSUME Inv, NEW s, LeaderHolds(s), LeaderTakes(s), Continues(log, s.log), commit <= s.commit,
         \A i \in 1 .. Len(s.log) : i > Len(log) => s.log[i] = Term,
         UNCHANGED <<conf, first, applied, follower>>,
         UNCHANGED toLeader \/ \E k \in DOMAIN toLeader : toLeader' = Without(toLeader, k),
         UNCHANGED beat \/ beat' = [type |-> "none"] \/ BeatHolds(log, commit)'
  PROVE  Inv'
<1>1. LeaderHolds(Now)' /\ log' = s.log /\ commit' = s.commit /\ UNCHANGED <<flog, fcommit, facc>>
  BY Taken DEF follower
<1>2. log' \in Seq(1 .. Term) /\ commit' \in Nat
  BY <1>1, LeaderFields DEF LeaderHolds
<1>3. /\ FollowerHolds(log)'
      /\ \A m \in Answers : AnswerHolds(log, m) => AnswerHolds(log, m)'
      /\ UNCHANGED beat => BeatHolds(log, commit)'
  BY <1>1, <1>2, FollowerStays
<1>4. BeatHolds(log, commit)'
  BY <1>3 DEF BeatHolds
<1>5. /\ toLeader' \in Seq(Answers)
      /\ \A i \in 1 .. Len(toLeader') : \E j \in 1 .. Len(toLeader) : toLeader'[i] = toLeader[j]
  <2>1. toLeader \in Seq(Answers)
    BY DEF Inv, AnswersHold
  <2>2. CASE UNCHANGED toLeader
    BY <2>1, <2>2
  <2>3. CASE \E k \in DOMAIN toLeader : toLeader' = Without(toLeader, k)
    BY <2>1, <2>3, WithoutFacts
  <2> QED BY <2>2, <2>3
<1>6. AnswersHold(log)'
  <2>1. ASSUME NEW i \in 1 .. Len(toLeader') PROVE AnswerHolds(log, toLeader[i])'
    <3>1. PICK m \in Answers : m = toLeader'[i] /\ AnswerHolds(log, m)
      <4>1. PICK j \in 1 .. Len(toLeader) : toLeader'[i] = toLeader[j]
        BY <1>5
      <4>2. toLeader[j] \in Answers /\ AnswerHolds(log, toLeader[j])
        BY DEF Inv, AnswersHold
      <4> QED BY <4>1, <4>2
    <3>2. AnswerHolds(log, m)'
      BY <1>3, <3>1
    <3> QED BY <3>1, <3>2 DEF AnswerHolds, Agreed
  <2> QED BY <1>5, <2>1 DEF AnswersHold
<1>7. (conf \in Settings /\ first \in Nat \ {0} /\ applied \in Nat)'
  BY DEF Inv
<1> QED BY <1>1, <1>3, <1>4, <1>6, <1>7 DEF Inv


(* A step of the leader that changes the progress and no more of its state. *)
LEMMA ProgressStep ==
  ASSUME Inv, NEW p \in Progresses, ProgressHolds(p, log, commit), pr' = p,
         UNCHANGED <<conf, log, first, applied, commit, follower>>,
         UNCHANGED toFollower \/ \E k \in DOMAIN toFollower : toFollower' = Without(toFollower, k),
         snap' \in {"none", "sending", "applied", "failed"},
         UNCHANGED toLeader \/ \E k \in DOMAIN toLeader : toLeader' = Without(toLeader, k),
         UNCHANGED beat \/ beat' = [type |-> "none"] \/ BeatHolds(log, commit)'
  PROVE  Inv'
<1>1. /\ LeaderHolds(Now) /\ toFollower \in Seq(Appends) /\ log \in Seq(1 .. Term)
      /\ commit \in Nat /\ Len(log) \in Nat
  BY InvContext
<1>2. PICK ch \in Seq(Appends) :
        /\ ch = toFollower'
        /\ \A i \in 1 .. Len(ch) : \E j \in 1 .. Len(toFollower) : ch[i] = toFollower[j]
  <2>1. CASE UNCHANGED toFollower
    BY <1>1, <2>1
  <2>2. CASE \E k \in DOMAIN toFollower : toFollower' = Without(toFollower, k)
    <3>1. PICK k \in DOMAIN toFollower : toFollower' = Without(toFollower, k)
      BY <2>2
    <3>2. /\ Without(toFollower, k) \in Seq(Appends)
          /\ \A i \in 1 .. Len(Without(toFollower, k)) :
               \E j \in 1 .. Len(toFollower) : Without(toFollower, k)[i] = toFollower[j]
      BY <1>1, WithoutFacts
    <3> QED BY <3>1, <3>2
  <2> QED BY <2>1, <2>2
<1>3. PICK s : s = [pr |-> p, ch |-> ch, snap |-> snap', log |-> log, commit |-> commit]
  OBVIOUS
<1>4. s.pr = p /\ s.ch = ch /\ s.snap = snap' /\ s.log = log /\ s.commit = commit
  BY <1>3
<1>5. s \in LeaderStates
  BY <1>1, <1>3 DEF LeaderStates
<1>6. \A i \in 1 .. Len(ch) : AppendHolds(ch[i], log, commit)
  BY <1>1, <1>2, NowFields DEF LeaderHolds
<1>7. LeaderHolds(s)
  BY <1>1, <1>4, <1>5, <1>6, InvContext DEF LeaderHolds
<1>8. LeaderTakes(s)
  BY <1>2, <1>4 DEF LeaderTakes
<1>9. Continues(log, s.log) /\ commit <= s.commit /\ \A i \in 1 .. Len(s.log) : ~(i > Len(log))
  BY <1>1, <1>4, ContinuesSame
<1> QED BY <1>7, <1>8, <1>9, LeaderStep

LEMMA ProposeKeeps ==
  ASSUME Inv, UNCHANGED conf, Propose
  PROVE  Inv'
<1>1. /\ Context /\ LeaderHolds(Now) /\ Now \in LeaderStates /\ pr \in Progresses
      /\ log \in Seq(1 .. Term) /\ commit \in Nat /\ commit <= Len(log) /\ Len(log) \in Nat
      /\ ProgressHolds(pr, log, commit)
  BY InvContext
<1>2. PICK l \in Seq(1 .. Term) :
        /\ l = Append(log, Term) /\ Len(l) = Len(log) + 1
        /\ \A i \in 1 .. Len(log) : l[i] = log[i]
        /\ \A i \in 1 .. Len(log) + 1 : i \in 1 .. Len(log) \/ l[i] = Term
  <2>1. Term \in 1 .. Term
    BY ElectionsAssumption
  <2> QED BY <1>1, <2>1, AppendFacts
<1>3. PICK t : t = [Now EXCEPT !.log = l]
  OBVIOUS
<1>4. t \in LeaderStates
  BY <1>1, <1>3 DEF LeaderStates
<1>5. t.log = l /\ t.commit = commit /\ t.pr = pr /\ t.ch = Now.ch
  BY <1>1, <1>3, NowFields DEF LeaderStates
<1>6. Continues(log, l) /\ commit <= Len(l)
  BY <1>1, <1>2 DEF Continues
<1>7. LeaderHolds(t)
  <2>1. ProgressHolds(pr, l, commit)
    BY <1>1, <1>6, ProgressContinues
  <2> QED BY <1>1, <1>4, <1>5, <1>6, <2>1, NowFields, LeaderContinues
<1>8. PICK s : s = maybeSendAppend(t)
  OBVIOUS
<1>9. LeaderHolds(s) /\ s.log = l /\ s.commit = commit
  BY <1>1, <1>5, <1>7, <1>8, MaybeSendHolds
<1>10. LeaderTakes(s)
  <2>1. Append(Now.log, Term) = l
    BY <1>2, NowFields
  <2>2. [Now EXCEPT !.log = Append(@, Term)] = t
    BY <1>3, <2>1
  <2> QED BY <1>8, <2>2 DEF Propose
<1>11. \A i \in 1 .. Len(l) : i > Len(log) => l[i] = Term
  BY <1>1, <1>2
<1> QED BY <1>1, <1>6, <1>9, <1>10, <1>11, LeaderStep DEF Propose

LEMMA OthersAcknowledgeKeeps ==
  ASSUME Inv, UNCHANGED conf, NEW i \in DOMAIN log, OthersAcknowledge(i)
  PROVE  Inv'
<1>1. /\ Context /\ LeaderHolds(Now) /\ Now \in LeaderStates /\ pr \in Progresses
      /\ log \in Seq(1 .. Term) /\ commit \in Nat /\ commit <= Len(log) /\ Len(log) \in Nat
      /\ ProgressHolds(pr, log, commit)
  BY InvContext
<1>2. i \in Nat /\ i <= Len(log) /\ commit <= i
  BY <1>1 DEF OthersAcknowledge
<1>3. PICK t : t = [Now EXCEPT !.commit = i]
  OBVIOUS
<1>4. t \in LeaderStates
  BY <1>1, <1>2, <1>3 DEF LeaderStates
<1>5. t.log = log /\ t.commit = i /\ t.pr = pr /\ t.ch = Now.ch
  BY <1>1, <1>3, NowFields DEF LeaderStates
<1>6. Continues(log, log)
  BY <1>1, ContinuesSame
<1>7. LeaderHolds(t)
  <2>1. ProgressHolds(pr, log, i)
    BY <1>1, <1>2, <1>6, ProgressContinues
  <2> QED BY <1>1, <1>2, <1>4, <1>5, <1>6, <2>1, NowFields, LeaderContinues
<1>8. PICK s : s = maybeSendAppend(t)
  OBVIOUS
<1>9. LeaderHolds(s) /\ s.log = log /\ s.commit = i
  BY <1>1, <1>5, <1>7, <1>8, MaybeSendHolds
<1>10. LeaderTakes(s)
  BY <1>3, <1>8 DEF OthersAcknowledge
<1>11. \A j \in 1 .. Len(log) : ~(j > Len(log))
  BY <1>1
<1> QED BY <1>1, <1>2, <1>6, <1>9, <1>10, <1>11, LeaderStep DEF OthersAcknowledge

(* The progress with other flags and commit indexes. *)
LEMMA FlagsHold ==
  ASSUME NEW l, NEW c, NEW p \in Progresses, ProgressHolds(p, l, c),
         NEW active \in BOOLEAN, NEW paused \in BOOLEAN, NEW sent \in Nat
  PROVE  /\ [p EXCEPT !.active = active, !.paused = paused] \in Progresses
         /\ ProgressHolds([p EXCEPT !.active = active, !.paused = paused], l, c)
         /\ [p EXCEPT !.active = active] \in Progresses
         /\ ProgressHolds([p EXCEPT !.active = active], l, c)
         /\ [p EXCEPT !.paused = paused] \in Progresses
         /\ ProgressHolds([p EXCEPT !.paused = paused], l, c)
         /\ [p EXCEPT !.sentCommit = sent] \in Progresses
         /\ ProgressHolds([p EXCEPT !.sentCommit = sent], l, c)
<1>1. p.pending <= c /\ p.matchCommit <= fcommit
  BY DEF ProgressHolds, MatchHolds
<1>2. ASSUME NEW q \in Progresses, q.match = p.match, q.next = p.next, q.state = p.state,
             q.inflights = p.inflights, q.pending = p.pending, q.matchCommit = p.matchCommit
      PROVE  ProgressHolds(q, l, c)
  BY <1>1, <1>2, SameWindow
<1>3. PICK q : q = [p EXCEPT !.active = active, !.paused = paused]
  OBVIOUS
<1>4. q \in Progresses
  BY <1>3 DEF Progresses
<1>5. /\ q.match = p.match /\ q.next = p.next /\ q.state = p.state
      /\ q.inflights = p.inflights /\ q.pending = p.pending /\ q.matchCommit = p.matchCommit
  BY <1>3 DEF Progresses
<1>6. PICK r : r = [p EXCEPT !.active = active]
  OBVIOUS
<1>7. r \in Progresses
  BY <1>6 DEF Progresses
<1>8. /\ r.match = p.match /\ r.next = p.next /\ r.state = p.state
      /\ r.inflights = p.inflights /\ r.pending = p.pending /\ r.matchCommit = p.matchCommit
  BY <1>6 DEF Progresses
<1>9. PICK t : t = [p EXCEPT !.paused = paused]
  OBVIOUS
<1>10. t \in Progresses
  BY <1>9 DEF Progresses
<1>11. /\ t.match = p.match /\ t.next = p.next /\ t.state = p.state
       /\ t.inflights = p.inflights /\ t.pending = p.pending /\ t.matchCommit = p.matchCommit
  BY <1>9 DEF Progresses
<1>12. PICK u : u = [p EXCEPT !.sentCommit = sent]
  OBVIOUS
<1>13. u \in Progresses
  BY <1>12 DEF Progresses
<1>14. /\ u.match = p.match /\ u.next = p.next /\ u.state = p.state
       /\ u.inflights = p.inflights /\ u.pending = p.pending /\ u.matchCommit = p.matchCommit
  BY <1>12 DEF Progresses
<1>15. ProgressHolds(q, l, c) /\ ProgressHolds(r, l, c)
  BY <1>2, <1>4, <1>5, <1>7, <1>8
<1>16. ProgressHolds(t, l, c) /\ ProgressHolds(u, l, c)
  BY <1>2, <1>10, <1>11, <1>13, <1>14
<1> QED BY <1>3, <1>4, <1>6, <1>7, <1>9, <1>10, <1>12, <1>13, <1>15, <1>16

LEMMA MarkInactiveKeeps ==
  ASSUME Inv, UNCHANGED conf, MarkInactive
  PROVE  Inv'
<1>1. pr \in Progresses /\ ProgressHolds(pr, log, commit) /\ snap \in {"none", "sending", "applied", "failed"}
  BY InvContext
<1>2. PICK p \in Progresses : p = [pr EXCEPT !.active = FALSE] /\ ProgressHolds(p, log, commit)
  BY <1>1, FlagsHold
<1> QED BY <1>1, <1>2, ProgressStep DEF MarkInactive, leader

LEMMA SendHeartbeatKeeps ==
  ASSUME Inv, UNCHANGED conf, SendHeartbeat
  PROVE  Inv'
<1>1. /\ pr \in Progresses /\ ProgressHolds(pr, log, commit) /\ commit \in Nat
      /\ snap \in {"none", "sending", "applied", "failed"} /\ log \in Seq(1 .. Term)
  BY InvContext
<1>2. pr.match \in Nat /\ pr.sentCommit \in Nat /\ Agreed(log, pr.match)
  BY <1>1, ProgressTypes DEF ProgressHolds, MatchHolds
<1>3. PICK c \in Nat : c = (IF CommitViaMsgApp THEN 0 ELSE Min({pr.match, commit})) /\ c <= commit
  <2>1. Min({pr.match, commit}) \in Nat /\ Min({pr.match, commit}) <= commit
    BY <1>1, <1>2, MinNat
  <2>2. 0 \in Nat /\ 0 <= commit
    BY <1>1
  <2> QED BY <2>1, <2>2
<1>4. PICK x \in Nat : x = Max({pr.sentCommit, c})
  BY <1>2, MaxNat
<1>5. PICK p \in Progresses : p = [pr EXCEPT !.sentCommit = x] /\ ProgressHolds(p, log, commit)
  BY <1>1, FlagsHold
<1>6. beat' = [type |-> "Heartbeat", commit |-> c, match |-> pr.match] /\ pr' = p
  BY <1>3, <1>4, <1>5, Zenon DEF SendHeartbeat
<1>7. UNCHANGED <<log, flog, commit>>
  BY DEF SendHeartbeat, follower
<1>8. BeatHolds(log, commit)'
  <2>1. PICK l, m : l = log /\ m = pr.match
    OBVIOUS
  <2>2. Agreed(l, m)'
    BY <1>2, <1>7, <2>1 DEF Agreed
  <2>3. beat'.commit = c /\ beat'.match = m /\ c <= commit'
    BY <1>3, <1>6, <1>7, <2>1
  <2> QED BY <1>7, <2>1, <2>2, <2>3 DEF BeatHolds, Agreed
<1> QED BY <1>1, <1>5, <1>6, <1>8, ProgressStep DEF SendHeartbeat

LEMMA ReceiveHeartbeatRespKeeps ==
  ASSUME Inv, UNCHANGED conf, ReceiveHeartbeatResp
  PROVE  Inv'
<1>1. /\ Context /\ LeaderHolds(Now) /\ Now \in LeaderStates /\ pr \in Progresses
      /\ log \in Seq(1 .. Term) /\ commit \in Nat /\ Len(log) \in Nat
      /\ ProgressHolds(pr, log, commit)
  BY InvContext
<1>2. PICK p \in Progresses :
        p = [pr EXCEPT !.active = TRUE, !.paused = FALSE] /\ ProgressHolds(p, log, commit)
  BY <1>1, FlagsHold
<1>3. PICK t : t = [Now EXCEPT !.pr = p]
  OBVIOUS
<1>4. t \in LeaderStates
  BY <1>1, <1>3 DEF LeaderStates
<1>5. t.log = log /\ t.commit = commit /\ t.pr = p /\ t.ch = Now.ch
  BY <1>1, <1>3, NowFields DEF LeaderStates
<1>6. LeaderHolds(t)
  BY <1>1, <1>2, <1>4, <1>5, NowFields, WithProgress
<1>7. PICK s : s = maybeSendAppend(t)
  OBVIOUS
<1>8. LeaderHolds(s) /\ s.log = log /\ s.commit = commit
  BY <1>1, <1>5, <1>6, <1>7, MaybeSendHolds
<1>9. LeaderTakes(s)
  <2>1. [Now EXCEPT !.pr.active = TRUE, !.pr.paused = FALSE] = t
    BY <1>2, <1>3 DEF Now
  <2> QED BY <1>7, <2>1 DEF ReceiveHeartbeatResp
<1>10. Continues(log, log) /\ \A j \in 1 .. Len(log) : ~(j > Len(log))
  BY <1>1, ContinuesSame
<1> QED BY <1>1, <1>8, <1>9, <1>10, LeaderStep DEF ReceiveHeartbeatResp

LEMMA ReceiveAppRespKeeps ==
  ASSUME Inv, UNCHANGED conf, NEW k \in DOMAIN toLeader, ReceiveAppResp(k)
  PROVE  Inv'
<1>1. /\ Context /\ LeaderHolds(Now) /\ Now \in LeaderStates /\ pr \in Progresses
      /\ log \in Seq(1 .. Term) /\ commit \in Nat /\ Len(log) \in Nat
      /\ ProgressHolds(pr, log, commit)
  BY InvContext
<1>2. PICK m \in Answers : m = toLeader[k] /\ AnswerHolds(log, m)
  <2>1. toLeader \in Seq(Answers) /\ k \in 1 .. Len(toLeader)
    BY DEF Inv, AnswersHold
  <2>2. toLeader[k] \in Answers /\ AnswerHolds(log, toLeader[k])
    BY <2>1 DEF Inv, AnswersHold
  <2> QED BY <2>2
<1>3. PICK q \in Progresses : q = [pr EXCEPT !.active = TRUE] /\ ProgressHolds(q, log, commit)
  BY <1>1, FlagsHold
<1>4. PICK p \in Progresses : p = MaybeUpdateMatchCommit(q, m.commit) /\ ProgressHolds(p, log, commit)
  <2>1. m.commit \in Nat /\ m.commit <= fcommit
    BY <1>2 DEF Answers, AnswerHolds
  <2> QED BY <1>1, <1>3, <2>1, MatchCommitHolds
<1>5. PICK t : t = [Now EXCEPT !.pr = p]
  OBVIOUS
<1>6. t \in LeaderStates
  BY <1>1, <1>5 DEF LeaderStates
<1>7. t.log = log /\ t.commit = commit /\ t.pr = p /\ t.ch = Now.ch
  BY <1>1, <1>5, NowFields DEF LeaderStates
<1>8. LeaderHolds(t)
  BY <1>1, <1>4, <1>6, <1>7, NowFields, WithProgress
<1>9. [Now EXCEPT !.pr = MaybeUpdateMatchCommit([@ EXCEPT !.active = TRUE], m.commit)] = t
  <2>1. [Now.pr EXCEPT !.active = TRUE] = q
    BY <1>3, NowFields
  <2> QED BY <1>4, <1>5, <2>1
<1>10. PICK s : s = IF m.reject THEN RejectedAt(t, m) ELSE AcceptedAt(t, m)
  OBVIOUS
<1>11. LeaderHolds(s) /\ s.log = log /\ commit <= s.commit
  <2>1. CASE m.reject
    <3>1. LeaderHolds(s) /\ s.log = log /\ s.commit = commit
      BY <1>1, <1>7, <1>8, <1>10, <2>1, RejectedAtHolds
    <3> QED BY <1>1, <3>1
  <2>2. CASE ~m.reject
    <3>1. Agreed(t.log, m.index)
      BY <1>2, <1>7, <2>2 DEF AnswerHolds
    <3> QED BY <1>1, <1>7, <1>8, <1>10, <2>2, <3>1, AcceptedAtHolds
  <2> QED BY <2>1, <2>2
<1>12. LeaderTakes(s)
  BY <1>2, <1>9, <1>10, Zenon DEF ReceiveAppResp
<1>13. Continues(log, log) /\ \A j \in 1 .. Len(log) : ~(j > Len(log))
  BY <1>1, ContinuesSame
<1>14. \E i \in DOMAIN toLeader : toLeader' = Without(toLeader, i)
  BY DEF ReceiveAppResp
<1>15. UNCHANGED <<conf, first, applied, follower, beat>>
  BY DEF ReceiveAppResp
<1> QED BY <1>1, <1>11, <1>12, <1>13, <1>14, <1>15, LeaderStep

LEMMA ReportSnapshotKeeps ==
  ASSUME Inv, UNCHANGED conf, ReportSnapshot
  PROVE  Inv'
<1>1. /\ Context /\ pr \in Progresses /\ ProgressHolds(pr, log, commit) /\ commit \in Nat
      /\ log \in Seq(1 .. Term) /\ commit <= Len(log)
  BY InvContext
<1>2. snap' \in {"none", "sending", "applied", "failed"}
  BY DEF ReportSnapshot
<1>3. CASE pr.state # "Snapshot"
  BY <1>1, <1>2, <1>3, ProgressStep DEF ReportSnapshot
<1>4. CASE pr.state = "Snapshot"
  <2>1. PICK i \in Nat : i = (IF snap = "applied" THEN pr.pending ELSE 0) /\ i <= commit
    BY <1>1, ProgressTypes DEF ProgressHolds, MatchHolds
  <2>2. PICK q : q = [pr EXCEPT !.pending = i]
    OBVIOUS
  <2>3. q \in Progresses
    BY <1>1, <2>2 DEF Progresses
  <2>4. q.match = pr.match /\ q.matchCommit = pr.matchCommit /\ q.pending = i
    BY <1>1, <2>2 DEF Progresses
  <2>5. MatchHolds(q, log, commit)
    BY <1>1, <2>1, <2>4 DEF ProgressHolds, MatchHolds
  <2>6. PICK r \in Progresses : r = BecomeProbe(q) /\ ProgressHolds(r, log, commit)
    BY <1>1, <2>3, <2>5, BecomeProbeHolds
  <2>7. PICK p \in Progresses : p = [r EXCEPT !.paused = TRUE] /\ ProgressHolds(p, log, commit)
    BY <2>6, FlagsHold
  <2>8. pr' = p
    BY <1>4, <2>1, <2>2, <2>6, <2>7, Zenon DEF ReportSnapshot, SnapStatusAt
  <2> QED BY <1>2, <2>7, <2>8, ProgressStep DEF ReportSnapshot
<1> QED BY <1>3, <1>4

LEMMA UnreachableKeeps ==
  ASSUME Inv, UNCHANGED conf, Unreachable
  PROVE  Inv'
<1>1. /\ Context /\ pr \in Progresses /\ ProgressHolds(pr, log, commit) /\ commit \in Nat
      /\ log \in Seq(1 .. Term) /\ commit <= Len(log)
      /\ snap \in {"none", "sending", "applied", "failed"}
  BY InvContext
<1>2. PICK p \in Progresses : p = BecomeProbe(pr) /\ ProgressHolds(p, log, commit)
  BY <1>1, BecomeProbeHolds DEF ProgressHolds
<1> QED BY <1>1, <1>2, ProgressStep DEF Unreachable

LEMMA LoseKeeps ==
  ASSUME Inv, UNCHANGED conf, Lose
  PROVE  Inv'
<1>1. pr \in Progresses /\ ProgressHolds(pr, log, commit)
  BY InvContext
<1>2. snap' \in {"none", "sending", "applied", "failed"}
  BY InvContext DEF Lose
<1>3. UNCHANGED <<conf, log, first, applied, commit, pr, follower>>
  BY DEF Lose, leader
<1> QED BY <1>1, <1>2, <1>3, ProgressStep DEF Lose

LEMMA ApplyKeeps ==
  ASSUME Inv, UNCHANGED conf, Apply
  PROVE  Inv'
<1>1. /\ LeaderHolds(Now) /\ first <= applied + 1 /\ first \in Nat \ {0} /\ applied \in Nat
      /\ commit \in Nat
  BY InvContext DEF Inv
<1>2. UNCHANGED <<log, first, commit, pr, toFollower, toLeader, beat, snap, flog, fcommit, facc, conf>>
  BY DEF Apply, follower
<1>3. (applied \in Nat /\ first <= applied + 1 /\ applied <= commit)'
  BY <1>1, <1>2 DEF Apply
<1>4. PICK s : s = Now
  OBVIOUS
<1>5. LeaderHolds(s)'
  BY <1>1, <1>2, <1>3, <1>4, NowFields
     DEF LeaderHolds, ProgressHolds, MatchHolds, WindowHolds, AppendHolds, Agreed, MaxInflight
<1>6. LeaderHolds(Now)'
  <2>1. Now' = s
    BY <1>2, <1>4 DEF Now
  <2> QED BY <1>5, <2>1 DEF LeaderHolds
<1>7. (FollowerHolds(log) /\ AnswersHold(log) /\ BeatHolds(log, commit))'
  BY <1>2 DEF Inv, FollowerHolds, AnswersHold, AnswerHolds, BeatHolds, Agreed
<1> QED BY <1>2, <1>3, <1>6, <1>7 DEF Inv

LEMMA CompactKeeps ==
  ASSUME Inv, UNCHANGED conf, NEW i \in Int, Compact(i)
  PROVE  Inv'
<1>1. /\ LeaderHolds(Now) /\ first \in Nat \ {0} /\ applied \in Nat
  BY InvContext DEF Inv
<1>2. UNCHANGED <<log, applied, commit, pr, toFollower, toLeader, beat, snap, flog, fcommit, facc, conf>>
  BY DEF Compact, follower
<1>3. (first \in Nat \ {0} /\ first <= applied + 1)'
  BY <1>1, <1>2 DEF Compact
<1>4. PICK s : s = Now
  OBVIOUS
<1>5. LeaderHolds(s)'
  BY <1>1, <1>2, <1>3, <1>4, NowFields
     DEF LeaderHolds, ProgressHolds, MatchHolds, WindowHolds, AppendHolds, Agreed, MaxInflight
<1>6. LeaderHolds(Now)'
  <2>1. Now' = s
    BY <1>2, <1>4 DEF Now
  <2> QED BY <1>5, <2>1 DEF LeaderHolds
<1>7. (FollowerHolds(log) /\ AnswersHold(log) /\ BeatHolds(log, commit))'
  BY <1>2 DEF Inv, FollowerHolds, AnswersHold, AnswerHolds, BeatHolds, Agreed
<1> QED BY <1>2, <1>3, <1>6, <1>7 DEF Inv

-----------------------------------------------------------------------------
(* Steps of the follower. *)

LEMMA AgreedBelow ==
  ASSUME NEW l \in Seq(1 .. Term), NEW k, NEW j \in Nat, j <= k
  PROVE  /\ flog \in Seq(1 .. Term) /\ Agreed(l, k) => Agreed(l, j)
         /\ (flog \in Seq(1 .. Term) /\ Agreed(l, k) => Agreed(l, j))'
<1>1. ASSUME flog \in Seq(1 .. Term), Agreed(l, k) PROVE Agreed(l, j)
  <2>1. Len(flog) \in Nat /\ Len(l) \in Nat
    BY <1>1
  <2> QED BY <1>1, <2>1 DEF Agreed
<1>2. ASSUME flog' \in Seq(1 .. Term), Agreed(l, k)' PROVE Agreed(l, j)'
  <2>1. Len(flog') \in Nat /\ Len(l) \in Nat
    BY <1>2
  <2> QED BY <1>2, <2>1 DEF Agreed
<1> QED BY <1>1, <1>2

(* What is claimed of the follower still holds when it moves on. *)
LEMMA FollowerMoves ==
  ASSUME Inv, UNCHANGED <<conf, leader>>,
         UNCHANGED toFollower \/ \E k \in DOMAIN toFollower : toFollower' = Without(toFollower, k),
         snap' \in {"none", "sending", "applied", "failed"},
         fcommit' \in Nat, fcommit <= fcommit',
         \A k : Agreed(log, k) => Agreed(log, k)', Agreed(log, fcommit)'
  PROVE  /\ LeaderHolds(Now)'
         /\ \A m \in Answers : AnswerHolds(log, m) => AnswerHolds(log, m)'
         /\ UNCHANGED beat => BeatHolds(log, commit)'
<1>1. /\ LeaderHolds(Now) /\ pr \in Progresses /\ toFollower \in Seq(Appends)
      /\ log \in Seq(1 .. Term) /\ commit \in Nat /\ commit <= Len(log) /\ Len(log) \in Nat
      /\ first <= applied + 1 /\ applied <= commit /\ ProgressHolds(pr, log, commit)
      /\ fcommit \in Nat
  BY InvContext
<1>2. UNCHANGED <<log, first, applied, commit, pr, conf>>
  BY DEF leader
<1>3. PICK l \in Seq(1 .. Term), p \in Progresses, c \in Nat : l = log /\ p = pr /\ c = commit
  BY <1>1
<1>4. \A k : Agreed(l, k) => Agreed(l, k)'
  BY <1>2, <1>3 DEF Agreed
<1>5. PICK ch \in Seq(Appends) :
        /\ ch = toFollower'
        /\ \A i \in 1 .. Len(ch) : \E j \in 1 .. Len(toFollower) : ch[i] = toFollower[j]
  <2>1. CASE UNCHANGED toFollower
    BY <1>1, <2>1
  <2>2. CASE \E k \in DOMAIN toFollower : toFollower' = Without(toFollower, k)
    <3>1. PICK k \in DOMAIN toFollower : toFollower' = Without(toFollower, k)
      BY <2>2
    <3>2. /\ Without(toFollower, k) \in Seq(Appends)
          /\ \A i \in 1 .. Len(Without(toFollower, k)) :
               \E j \in 1 .. Len(toFollower) : Without(toFollower, k)[i] = toFollower[j]
      BY <1>1, WithoutFacts
    <3> QED BY <3>1, <3>2
  <2> QED BY <2>1, <2>2
<1>6. (Now \in LeaderStates)'
  BY <1>1, <1>2, <1>5 DEF Now, LeaderStates
<1>7. ProgressHolds(p, l, c)'
  <2>1. ProgressHolds(p, l, c)
    BY <1>1, <1>3
  <2>2. Agreed(l, p.match)'
    BY <1>4, <2>1 DEF ProgressHolds, MatchHolds
  <2>3. p.matchCommit \in Nat /\ p.matchCommit <= fcommit
    BY <2>1, ProgressTypes DEF ProgressHolds, MatchHolds
  <2>4. p.matchCommit <= fcommit'
    BY <1>1, <2>3
  <2>5. WindowHolds(p.inflights, p.match, p.next)'
    BY <1>2, <2>1 DEF ProgressHolds, WindowHolds, MaxInflight
  <2> QED BY <2>1, <2>2, <2>4, <2>5 DEF ProgressHolds, MatchHolds
<1>8. \A i \in 1 .. Len(ch) : AppendHolds(ch[i], l, c)'
  <2>1. ASSUME NEW i \in 1 .. Len(ch) PROVE AppendHolds(ch[i], l, c)'
    <3>1. PICK m : m = ch[i] /\ AppendHolds(m, l, c)
      BY <1>1, <1>3, <1>5, NowFields DEF LeaderHolds
    <3>2. Agreed(l, m.match)'
      BY <1>4, <3>1 DEF AppendHolds
    <3> QED BY <3>1, <3>2 DEF AppendHolds
  <2> QED BY <2>1
<1>9. LeaderHolds(Now)'
  <2>1. (commit <= Len(log) /\ first <= applied + 1 /\ applied <= commit /\ Agreed(log, fcommit))'
    BY <1>1, <1>2
  <2>2. ProgressHolds(pr, log, commit)'
    BY <1>2, <1>3, <1>7 DEF ProgressHolds, MatchHolds, Agreed, WindowHolds
  <2>3. (\A k \in 1 .. Len(toFollower) : AppendHolds(toFollower[k], log, commit))'
    BY <1>2, <1>3, <1>5, <1>8 DEF AppendHolds, Agreed
  <2> QED BY <1>6, <2>1, <2>2, <2>3, NowFields DEF LeaderHolds
<1>10. ASSUME NEW m \in Answers, AnswerHolds(log, m) PROVE AnswerHolds(log, m)'
  <2>1. m.commit \in Nat
    BY DEF Answers
  <2>2. m.commit <= fcommit'
    BY <1>1, <1>10, <2>1 DEF AnswerHolds
  <2>3. ~m.reject => Agreed(log, m.index)'
    BY <1>10 DEF AnswerHolds
  <2> QED BY <2>2, <2>3 DEF AnswerHolds
<1>11. ASSUME UNCHANGED beat PROVE BeatHolds(log, commit)'
  <2>1. PICK b : b = beat
    OBVIOUS
  <2>2. b.type = "Heartbeat" => b.commit \in Nat /\ b.commit <= c /\ Agreed(l, b.match)
    BY <1>3, <2>1 DEF Inv, BeatHolds
  <2>3. b.type = "Heartbeat" => Agreed(l, b.match)'
    BY <1>4, <2>2
  <2> QED BY <1>2, <1>3, <1>11, <2>1, <2>2, <2>3 DEF BeatHolds, Agreed
<1> QED BY <1>9, <1>10, <1>11

LEMMA FollowerStep ==
  ASSUME Inv, UNCHANGED <<conf, leader>>,
         UNCHANGED toFollower \/ \E k \in DOMAIN toFollower : toFollower' = Without(toFollower, k),
         snap' \in {"none", "sending", "applied", "failed"},
         fcommit' \in Nat, fcommit <= fcommit',
         \A k : Agreed(log, k) => Agreed(log, k)', Agreed(log, fcommit)',
         FollowerHolds(log)',
         \/ UNCHANGED toLeader
         \/ \E a \in Answers : toLeader' = Append(toLeader, a) /\ AnswerHolds(log, a)',
         UNCHANGED beat \/ BeatHolds(log, commit)'
  PROVE  Inv'
<1>1. /\ LeaderHolds(Now)' /\ BeatHolds(log, commit)'
      /\ \A m \in Answers : AnswerHolds(log, m) => AnswerHolds(log, m)'
  BY FollowerMoves
<1>2. toLeader \in Seq(Answers) /\ \A k \in 1 .. Len(toLeader) : AnswerHolds(log, toLeader[k])
  BY DEF Inv, AnswersHold
<1>3. AnswersHold(log)'
  <2>1. toLeader' \in Seq(Answers)
    BY <1>2, AppendFacts
  <2>2. ASSUME NEW i \in 1 .. Len(toLeader') PROVE AnswerHolds(log, toLeader[i])'
    <3>1. \/ i \in 1 .. Len(toLeader) /\ toLeader'[i] = toLeader[i]
          \/ \E a \in Answers : toLeader'[i] = a /\ AnswerHolds(log, a)'
      <4>1. CASE UNCHANGED toLeader
        BY <4>1
      <4>2. CASE \E a \in Answers : toLeader' = Append(toLeader, a) /\ AnswerHolds(log, a)'
        <5>1. PICK a \in Answers : toLeader' = Append(toLeader, a) /\ AnswerHolds(log, a)'
          BY <4>2
        <5>2. /\ Len(toLeader') = Len(toLeader) + 1
              /\ \A j \in 1 .. Len(toLeader) : toLeader'[j] = toLeader[j]
              /\ \A j \in 1 .. Len(toLeader) + 1 :
                   j \in 1 .. Len(toLeader) \/ (j = Len(toLeader) + 1 /\ toLeader'[j] = a)
          BY <1>2, <5>1, AppendFacts
        <5> QED BY <5>1, <5>2
      <4> QED BY <4>1, <4>2
    <3>2. PICK m \in Answers : m = toLeader'[i] /\ AnswerHolds(log, m)'
      <4>1. CASE i \in 1 .. Len(toLeader) /\ toLeader'[i] = toLeader[i]
        <5>1. toLeader[i] \in Answers /\ AnswerHolds(log, toLeader[i])
          BY <1>2, <4>1
        <5>2. PICK m \in Answers : m = toLeader'[i] /\ AnswerHolds(log, m)
          BY <4>1, <5>1
        <5> QED BY <1>1, <5>2
      <4>2. CASE \E a \in Answers : toLeader'[i] = a /\ AnswerHolds(log, a)'
        BY <4>2
      <4> QED BY <3>1, <4>1, <4>2
    <3> QED BY <3>2 DEF AnswerHolds, Agreed
  <2> QED BY <2>1, <2>2 DEF AnswersHold
<1>4. (conf \in Settings /\ first \in Nat \ {0} /\ applied \in Nat)'
  BY DEF Inv, leader
<1> QED BY <1>1, <1>3, <1>4 DEF Inv

(* The follower's log is replaced by a prefix of the leader's that reaches *)
(* as far as anything claimed of it.                                       *)
LEMMA Replaced ==
  ASSUME Inv, UNCHANGED leader, NEW n \in Nat, flog' \in Seq(1 .. Term), Len(flog') = n,
         fcommit' \in Nat, Agreed(log, n)', \A k : Agreed(log, k) => k <= n
  PROVE  (\A k : Agreed(log, k) => Agreed(log, k)') /\ FollowerHolds(log)'
<1>1. PICK l \in Seq(1 .. Term) : l = log /\ l = log'
  BY InvContext DEF leader
<1>2. Agreed(l, n)'
  BY <1>1 DEF Agreed
<1>3. \A i \in Nat : i <= n => Agreed(l, i)'
  BY <1>2, AgreedBelow
<1>4. \A k : Agreed(l, k) => Agreed(l, k)'
  <2>1. ASSUME NEW k, Agreed(l, k) PROVE Agreed(l, k)'
    <3>1. k \in Nat /\ k <= n
      BY <1>1, <2>1 DEF Agreed
    <3> QED BY <1>3, <3>1
  <2> QED BY <2>1
<1>5. \A i \in 1 .. Len(flog') : Agreed(l, i)'
  BY <1>3
<1>6. Agreed(l, Len(flog))'
  BY <1>2 DEF Agreed
<1>7. FollowerHolds(l)'
  BY <1>5, <1>6 DEF FollowerHolds
<1> QED BY <1>1, <1>4, <1>7 DEF FollowerHolds, Agreed

(* An append that continues the follower's log agrees with it there. *)
LEMMA FitsAgrees ==
  ASSUME Inv, NEW m \in Appends, m.index <= Len(log), Fits(m)
  PROVE  Agreed(log, m.index)
<1>1. flog \in Seq(1 .. Term) /\ log \in Seq(1 .. Term) /\ m.index \in Nat
  BY InvContext DEF Inv, FollowerHolds, Appends
<1>2. m.index <= Len(flog) /\ TermAt(flog, m.index) = TermAt(log, m.index)
  BY DEF Fits
<1>3. CASE m.index = 0
  BY <1>1, <1>3 DEF Agreed
<1>4. CASE m.index # 0
  <2>1. m.index \in 1 .. Len(flog) /\ flog[m.index] = log[m.index]
    BY <1>1, <1>2, <1>4 DEF TermAt
  <2> QED BY <2>1 DEF Inv, FollowerHolds
<1> QED BY <1>3, <1>4

(* Where the logs differ nothing is claimed. *)
LEMMA DiffersAbove ==
  ASSUME Inv, NEW i \in Nat \ {0}, ~(i <= Len(flog) /\ flog[i] = log[i])
  PROVE  \A k : Agreed(log, k) => k \in Nat /\ k < i
<1>1. Len(flog) \in Nat
  BY DEF Inv, FollowerHolds
<1>2. ASSUME NEW k, Agreed(log, k), ~(k < i) PROVE FALSE
  <2>1. k \in Nat /\ k <= Len(flog) /\ \A j \in 1 .. k : flog[j] = log[j]
    BY <1>2 DEF Agreed
  <2>2. i \in 1 .. k /\ i <= Len(flog)
    BY <1>1, <1>2, <2>1
  <2> QED BY <2>1, <2>2
<1> QED BY <1>2 DEF Agreed

LEMMA PrefixFacts ==
  ASSUME NEW S, NEW s \in Seq(S), NEW n \in Nat, n <= Len(s)
  PROVE  /\ SubSeq(s, 1, n) \in Seq(S) /\ Len(SubSeq(s, 1, n)) = n
         /\ \A j \in 1 .. n : SubSeq(s, 1, n)[j] = s[j]
<1>1. 1 \in Int /\ n \in Int /\ 1 <= 1 /\ n = n - 1 + 1
  OBVIOUS
<1>2. /\ SubSeq(s, 1, n) \in Seq(S) /\ Len(SubSeq(s, 1, n)) = n
      /\ \A j \in 1 .. n : SubSeq(s, 1, n)[j] = s[1 + j - 1]
  BY <1>1, SubSeqFacts
<1>3. \A j \in 1 .. n : 1 + j - 1 = j
  OBVIOUS
<1> QED BY <1>2, <1>3

(* A prefix of f and what follows it in l. *)
LEMMA Spliced ==
  ASSUME NEW S, NEW f \in Seq(S), NEW l \in Seq(S), NEW a \in Nat, NEW b \in Nat,
         a <= b, a <= Len(f), b <= Len(l), \A j \in 1 .. a : f[j] = l[j],
         NEW r, r = SubSeq(f, 1, a) \o SubSeq(l, a + 1, b)
  PROVE  r \in Seq(S) /\ Len(r) = b /\ \A j \in 1 .. b : r[j] = l[j]
<1>1. PICK n \in Nat, a1 \in Int : n = b - a /\ a1 = a + 1 /\ 1 <= a1 /\ n = b - a1 + 1
  OBVIOUS
<1>2. PICK s \in Seq(S) : s = SubSeq(f, 1, a) /\ Len(s) = a /\ \A j \in 1 .. a : s[j] = f[j]
  <2>1. /\ SubSeq(f, 1, a) \in Seq(S) /\ Len(SubSeq(f, 1, a)) = a
        /\ \A j \in 1 .. a : SubSeq(f, 1, a)[j] = f[j]
    BY PrefixFacts
  <2> QED BY <2>1
<1>3. PICK t \in Seq(S) : t = SubSeq(l, a1, b) /\ Len(t) = n /\ \A j \in 1 .. n : t[j] = l[a1 + j - 1]
  <2>1. b \in Int
    OBVIOUS
  <2>2. /\ SubSeq(l, a1, b) \in Seq(S) /\ Len(SubSeq(l, a1, b)) = n
        /\ \A j \in 1 .. n : SubSeq(l, a1, b)[j] = l[a1 + j - 1]
    BY <1>1, <2>1, SubSeqFacts
  <2> QED BY <2>2
<1>4. r = s \o t
  BY <1>1, <1>2, <1>3
<1>5. /\ r \in Seq(S) /\ Len(r) = a + n
      /\ \A j \in 1 .. a + n : r[j] = IF j <= a THEN s[j] ELSE t[j - a]
  <2>1. /\ s \o t \in Seq(S) /\ Len(s \o t) = Len(s) + Len(t)
        /\ \A i \in 1 .. Len(s) + Len(t) :
             (s \o t)[i] = IF i <= Len(s) THEN s[i] ELSE t[i - Len(s)]
    BY ConcatFacts
  <2>2. Len(s) = a /\ Len(t) = n
    BY <1>2, <1>3
  <2> QED BY <1>4, <2>1, <2>2, Zenon
<1>6. a + n = b
  BY <1>1
<1>7. ASSUME NEW j \in 1 .. b PROVE r[j] = l[j]
  <2>1. CASE j <= a
    <3>1. j \in 1 .. a
      BY <2>1
    <3> QED BY <1>2, <1>5, <1>6, <2>1, <3>1
  <2>2. CASE ~(j <= a)
    <3>1. j - a \in 1 .. n /\ a1 + (j - a) - 1 = j
      BY <1>1, <2>2
    <3>2. t[j - a] = l[a1 + (j - a) - 1]
      BY <1>3, <3>1
    <3> QED BY <1>5, <1>6, <2>2, <3>1, <3>2
  <2> QED BY <2>1, <2>2
<1> QED BY <1>5, <1>6, <1>7

LEMMA SplicedAgrees ==
  ASSUME Inv, UNCHANGED log, NEW a \in Nat, NEW b \in Nat, a <= b, b <= Len(log), Agreed(log, a),
         flog' = SubSeq(flog, 1, a) \o SubSeq(log, a + 1, b)
  PROVE  flog' \in Seq(1 .. Term) /\ Len(flog') = b /\ Agreed(log, b)'
<1>1. PICK f, l : f = flog /\ l = log /\ l = log'
  OBVIOUS
<1>2. a <= Len(f) /\ b <= Len(l) /\ \A j \in 1 .. a : f[j] = l[j]
  BY <1>1 DEF Agreed
<1>3. PICK r : r = SubSeq(f, 1, a) \o SubSeq(l, a + 1, b)
  OBVIOUS
<1>4. r \in Seq(1 .. Term) /\ Len(r) = b /\ \A j \in 1 .. b : r[j] = l[j]
  <2>1. f \in Seq(1 .. Term) /\ l \in Seq(1 .. Term)
    BY <1>1, InvContext DEF Inv, FollowerHolds
  <2>2. ASSUME NEW S, f \in Seq(S), l \in Seq(S)
        PROVE  r \in Seq(S) /\ Len(r) = b /\ \A j \in 1 .. b : r[j] = l[j]
    BY <1>2, <1>3, <2>2, Spliced, SMTT(40)
  <2> QED BY <2>1, <2>2
<1>5. flog' = r
  BY <1>1, <1>3
<1>6. b <= Len(r)
  BY <1>4
<1>7. (b \in Nat /\ b <= Len(flog) /\ b <= Len(log) /\ \A j \in 1 .. b : flog[j] = log[j])'
  BY <1>1, <1>2, <1>4, <1>5, <1>6
<1> QED BY <1>4, <1>5, <1>7 DEF Agreed

LEMMA CommitAdvances ==
  ASSUME NEW a \in Nat, NEW b \in Nat, NEW d \in Nat, a <= d
  PROVE  /\ Max({a, Min({b, d})}) \in Nat /\ a <= Max({a, Min({b, d})})
         /\ Max({a, Min({b, d})}) <= d
<1>1. PICK x \in Nat : x = Min({b, d}) /\ x <= d
  BY MinNat
<1>2. PICK y \in Nat : y = Max({a, x}) /\ y >= a /\ \A z \in Int : a <= z /\ x <= z => y <= z
  BY MaxNat
<1>3. y <= d
  BY <1>1, <1>2
<1> QED BY <1>1, <1>2, <1>3

(* The answers the follower may give. *)
LEMMA AcceptHolds ==
  ASSUME NEW i \in Nat, fcommit' \in Nat, Agreed(log, i)'
  PROVE  Accept(i) \in Answers /\ \E a \in Answers : a = Accept(i) /\ AnswerHolds(log, a)'
<1>1. PICK c \in Nat : c = fcommit'
  OBVIOUS
<1>2. PICK a : a = Accept(i)
  OBVIOUS
<1>3. a = [index |-> i, commit |-> c, reject |-> FALSE, hint |-> 0, logTerm |-> 0]
  BY <1>1, <1>2 DEF Accept
<1>4. a \in Answers
  BY <1>3 DEF Answers
<1>5. a.commit = c /\ a.index = i
  BY <1>3
<1>6. AnswerHolds(log, a)'
  BY <1>1, <1>5 DEF AnswerHolds, Agreed
<1> QED BY <1>2, <1>4, <1>6

LEMMA AppAccepted ==
  ASSUME Inv, UNCHANGED <<conf, leader, beat, snap>>, NEW k \in DOMAIN toFollower,
         toFollower' = Without(toFollower, k), NEW m \in Appends, m = toFollower[k],
         m.index >= fcommit, Fits(m), NEW last, last = m.index + m.n, NEW ok \in BOOLEAN,
         ok <=> \A i \in m.index + 1 .. last : i <= Len(flog) /\ flog[i] = log[i],
         flog' = IF ok THEN flog ELSE SubSeq(flog, 1, m.index) \o SubSeq(log, m.index + 1, last),
         facc' = IF ok THEN facc ELSE Term,
         fcommit' = Max({fcommit, Min({m.commit, last})}),
         toLeader' = Append(toLeader, Accept(last))
  PROVE  Inv'
<1>1. /\ log \in Seq(1 .. Term) /\ Len(log) \in Nat /\ fcommit \in Nat
      /\ toFollower \in Seq(Appends) /\ Agreed(log, fcommit)
      /\ snap \in {"none", "sending", "applied", "failed"}
  BY InvContext
<1>2. flog \in Seq(1 .. Term) /\ Len(flog) \in Nat
  BY DEF Inv, FollowerHolds
<1>3. m.index \in Nat /\ m.n \in Nat /\ m.commit \in Nat /\ last \in Nat
  BY DEF Appends
<1>4. last <= Len(log)
  <2>1. AppendHolds(m, log, commit)
    BY <1>1, InvContext, NowFields DEF LeaderHolds
  <2> QED BY <2>1 DEF AppendHolds
<1>5. m.index <= Len(log) /\ m.index <= last /\ m.index <= Len(flog)
  BY <1>1, <1>3, <1>4 DEF Fits
<1>6. Agreed(log, m.index)
  BY <1>5, FitsAgrees
<1>7. fcommit' \in Nat /\ fcommit <= fcommit' /\ fcommit' <= last
  <2>1. fcommit <= last
    BY <1>1, <1>3, <1>5
  <2> QED BY <1>1, <1>3, <1>4, <2>1, CommitAdvances
<1>8. PICK l \in Seq(1 .. Term) : l = log /\ l = log'
  BY <1>1 DEF leader
<1>9. Agreed(l, last)' /\ (\A j : Agreed(log, j) => Agreed(log, j)') /\ FollowerHolds(log)'
  <2>1. CASE ok
    <3>1. UNCHANGED <<flog, facc, log>>
      BY <2>1 DEF leader
    <3>2. Agreed(l, last)
      <4>1. CASE m.n = 0
        BY <1>3, <1>6, <1>8, <4>1
      <4>2. CASE m.n # 0
        <5>1. last \in m.index + 1 .. last /\ last \in 1 .. last
          BY <1>3, <4>2
        <5>2. last <= Len(flog) /\ flog[last] = log[last]
          BY <2>1, <5>1
        <5> QED BY <1>2, <1>3, <1>4, <1>8, <5>1, <5>2 DEF Inv, FollowerHolds
      <4> QED BY <4>1, <4>2
    <3> QED BY <1>7, <3>1, <3>2 DEF Inv, FollowerHolds, Agreed
  <2>2. CASE ~ok
    <3>1. PICK i \in m.index + 1 .. last : ~(i <= Len(flog) /\ flog[i] = log[i])
      BY <2>2
    <3>2. i \in Nat \ {0} /\ i <= last
      BY <1>3, <3>1
    <3>3. \A j : Agreed(log, j) => j <= last
      <4>1. \A j : Agreed(log, j) => j \in Nat /\ j < i
        BY <3>1, <3>2, DiffersAbove
      <4> QED BY <1>3, <3>2, <4>1
    <3>4. flog' = SubSeq(flog, 1, m.index) \o SubSeq(log, m.index + 1, last)
      BY <2>2
    <3>5. flog' \in Seq(1 .. Term) /\ Len(flog') = last /\ Agreed(log, last)'
      BY <1>3, <1>4, <1>5, <1>6, <3>4, SplicedAgrees DEF leader
    <3>6. (\A j : Agreed(log, j) => Agreed(log, j)') /\ FollowerHolds(log)'
      BY <1>3, <1>7, <3>3, <3>5, Replaced
    <3>7. Agreed(l, last)'
      BY <1>8, <3>5 DEF Agreed
    <3> QED BY <3>6, <3>7
  <2> QED BY <2>1, <2>2
<1>10. Agreed(log, fcommit)'
  <2>1. PICK c \in Nat : c = fcommit' /\ c <= last
    BY <1>7
  <2>2. flog' \in Seq(1 .. Term)
    BY <1>9 DEF FollowerHolds
  <2>3. Agreed(l, c)'
    BY <1>3, <1>9, <2>1, <2>2, AgreedBelow
  <2> QED BY <1>8, <2>1, <2>3, ZenonT(40) DEF Agreed
<1>11. \E a \in Answers : toLeader' = Append(toLeader, a) /\ AnswerHolds(log, a)'
  <2>1. Agreed(log, last)'
    BY <1>8, <1>9 DEF Agreed
  <2> QED BY <1>3, <1>7, <2>1, AcceptHolds
<1> QED BY <1>1, <1>7, <1>9, <1>10, <1>11, FollowerStep

(* A step after which the follower's log is the same. *)
LEMMA SameLog ==
  ASSUME Inv, UNCHANGED <<leader, flog>>, fcommit' \in Nat, facc' = Term => Agreed(log, Len(flog))
  PROVE  FollowerHolds(log)' /\ \A k : Agreed(log, k) => Agreed(log, k)'
<1>1. UNCHANGED log
  BY DEF leader
<1> QED BY <1>1 DEF Inv, FollowerHolds, Agreed

LEMMA RejectionIsAnswer ==
  ASSUME Inv, NEW i \in Nat, NEW term
  PROVE  LET h == findConflictByTerm(flog, 0, Min({i, Len(flog)}), term)
         IN [index |-> i, commit |-> fcommit, reject |-> TRUE, hint |-> h.index,
             logTerm |-> h.term] \in Answers
<1>1. flog \in Seq(1 .. Term) /\ Len(flog) \in Nat /\ fcommit \in Nat /\ Term \in Nat
  BY ElectionsAssumption DEF Inv, FollowerHolds
<1>2. PICK j \in Nat : j = Min({i, Len(flog)}) /\ j <= Len(flog)
  BY <1>1, MinNat
<1>3. PICK h : h = findConflictByTerm(flog, 0, j, term)
  OBVIOUS
<1>4. h.index \in 0 .. j
  BY <1>3, ConflictIsIndex
<1>5. h.term = (IF h.index < 0 THEN 0 ELSE TermAt(flog, h.index))
  BY <1>3 DEF findConflictByTerm
<1>6. TermAt(flog, h.index) \in Nat
  <2>1. CASE h.index = 0
    BY <2>1 DEF TermAt
  <2>2. CASE h.index # 0
    <3>1. h.index \in 1 .. Len(flog)
      BY <1>1, <1>2, <1>4, <2>2
    <3>2. flog[h.index] \in 1 .. Term
      BY <1>1, <3>1
    <3> QED BY <1>1, <2>2, <3>2 DEF TermAt
  <2> QED BY <2>1, <2>2
<1>7. h.index \in Nat /\ h.term \in Nat
  BY <1>2, <1>4, <1>5, <1>6
<1>8. [index |-> i, commit |-> fcommit, reject |-> TRUE, hint |-> h.index,
       logTerm |-> h.term] \in Answers
  BY <1>1, <1>7 DEF Answers
<1> QED BY <1>2, <1>3, <1>8

LEMMA ReceiveAppKeeps ==
  ASSUME Inv, UNCHANGED conf, NEW k \in DOMAIN toFollower, ReceiveApp(k)
  PROVE  Inv'
<1>1. /\ log \in Seq(1 .. Term) /\ fcommit \in Nat /\ Agreed(log, fcommit)
      /\ toFollower \in Seq(Appends) /\ snap \in {"none", "sending", "applied", "failed"}
  BY InvContext
<1>2. PICK m \in Appends : m = toFollower[k]
  BY <1>1
<1>3. PICK last : last = m.index + m.n
  OBVIOUS
<1>4. m.index \in Nat /\ m.n \in Nat /\ last \in Nat
  BY <1>3 DEF Appends
<1>5. UNCHANGED <<conf, leader, beat, snap>> /\ toFollower' = Without(toFollower, k)
  BY DEF ReceiveApp
<1>6. facc = Term => Agreed(log, Len(flog))
  BY DEF Inv, FollowerHolds
<1>7. CASE /\ m.index < fcommit
           /\ UNCHANGED <<flog, fcommit, facc>>
           /\ toLeader' = Append(toLeader, Accept(fcommit))
  <2>1. FollowerHolds(log)' /\ \A j : Agreed(log, j) => Agreed(log, j)'
    BY <1>1, <1>5, <1>6, <1>7, SameLog
  <2>2. PICK c \in Nat : c = fcommit /\ c = fcommit'
    BY <1>1, <1>7
  <2>3. Agreed(log, c)'
    BY <1>1, <2>1, <2>2
  <2>4. Agreed(log, fcommit)'
    BY <2>2, <2>3 DEF Agreed
  <2>5. \E a \in Answers : toLeader' = Append(toLeader, a) /\ AnswerHolds(log, a)'
    BY <1>7, <2>2, <2>3, AcceptHolds
  <2> QED BY <1>1, <1>5, <1>7, <2>1, <2>2, <2>4, <2>5, FollowerStep
<1>8. CASE /\ m.index >= fcommit /\ ~Fits(m)
           /\ UNCHANGED <<flog, fcommit, facc>>
           /\ LET h == findConflictByTerm(flog, 0, Min({m.index, Len(flog)}), TermAt(log, m.index))
              IN toLeader' = Append(toLeader,
                   [index |-> m.index, commit |-> fcommit, reject |-> TRUE, hint |-> h.index,
                    logTerm |-> h.term])
  <2>1. FollowerHolds(log)' /\ \A j : Agreed(log, j) => Agreed(log, j)'
    BY <1>1, <1>5, <1>6, <1>8, SameLog
  <2>2. PICK c \in Nat : c = fcommit /\ c = fcommit'
    BY <1>1, <1>8
  <2>3. Agreed(log, c)'
    BY <1>1, <2>1, <2>2
  <2>4. Agreed(log, fcommit)'
    BY <2>2, <2>3 DEF Agreed
  <2>5. PICK h : h = findConflictByTerm(flog, 0, Min({m.index, Len(flog)}), TermAt(log, m.index))
    OBVIOUS
  <2>6. PICK a : a = [index |-> m.index, commit |-> fcommit, reject |-> TRUE, hint |-> h.index,
                      logTerm |-> h.term]
    OBVIOUS
  <2>7. a \in Answers
    BY <1>4, <2>5, <2>6, RejectionIsAnswer
  <2>8. a.commit = c /\ a.reject
    BY <2>2, <2>6
  <2>9. AnswerHolds(log, a)'
    BY <2>2, <2>8 DEF AnswerHolds
  <2>10. toLeader' = Append(toLeader, a)
    BY <1>8, <2>5, <2>6
  <2> QED BY <1>1, <1>5, <1>8, <2>1, <2>2, <2>4, <2>7, <2>9, <2>10, FollowerStep
<1>9. ASSUME NEW matching, matching = {i \in m.index + 1 .. last : i <= Len(flog) /\ flog[i] = log[i]},
             NEW ok \in BOOLEAN, ok <=> matching = m.index + 1 .. last,
             m.index >= fcommit, Fits(m),
             flog' = IF ok THEN flog ELSE SubSeq(flog, 1, m.index) \o SubSeq(log, m.index + 1, last),
             facc' = IF ok THEN facc ELSE Term,
             fcommit' = Max({fcommit, Min({m.commit, last})}),
             toLeader' = Append(toLeader, Accept(last))
      PROVE  Inv'
  <2>1. ok <=> \A i \in m.index + 1 .. last : i <= Len(flog) /\ flog[i] = log[i]
    BY <1>9, Zenon
  <2> QED BY <1>2, <1>3, <1>5, <1>9, <2>1, AppAccepted
<1>10. CASE /\ m.index >= fcommit /\ Fits(m)
            /\ LET matching == {i \in m.index + 1 .. last : i <= Len(flog) /\ flog[i] = log[i]}
                   ok == matching = m.index + 1 .. last
               IN /\ flog' = IF ok THEN flog
                           ELSE SubSeq(flog, 1, m.index) \o SubSeq(log, m.index + 1, last)
                  /\ facc' = IF ok THEN facc ELSE Term
                  /\ fcommit' = Max({fcommit, Min({m.commit, last})})
                  /\ toLeader' = Append(toLeader, Accept(last))
  <2>1. PICK matching : matching = {i \in m.index + 1 .. last : i <= Len(flog) /\ flog[i] = log[i]}
    OBVIOUS
  <2>2. PICK ok \in BOOLEAN : ok = (matching = m.index + 1 .. last)
    OBVIOUS
  <2>3. /\ flog' = IF ok THEN flog ELSE SubSeq(flog, 1, m.index) \o SubSeq(log, m.index + 1, last)
        /\ facc' = IF ok THEN facc ELSE Term
        /\ fcommit' = Max({fcommit, Min({m.commit, last})})
        /\ toLeader' = Append(toLeader, Accept(last))
    BY <1>10, <2>1, <2>2, Zenon
  <2> QED BY <1>9, <1>10, <2>1, <2>2, <2>3
<1> QED
  BY <1>2, <1>3, <1>7, <1>8, <1>10, Zenon DEF ReceiveApp

LEMMA ReceiveHeartbeatKeeps ==
  ASSUME Inv, UNCHANGED conf, ReceiveHeartbeat
  PROVE  Inv'
<1>1. /\ log \in Seq(1 .. Term) /\ fcommit \in Nat /\ Agreed(log, fcommit)
      /\ commit \in Nat /\ snap \in {"none", "sending", "applied", "failed"}
  BY InvContext
<1>2. /\ flog \in Seq(1 .. Term) /\ Len(flog) \in Nat /\ (facc = Term => Agreed(log, Len(flog)))
      /\ beat.commit \in Nat /\ beat.commit <= commit
  BY DEF Inv, FollowerHolds, BeatHolds, ReceiveHeartbeat
<1>3. UNCHANGED <<conf, leader, toFollower, toLeader, snap, flog, facc, log>>
  BY DEF ReceiveHeartbeat, leader
<1>4. /\ fcommit' \in Nat /\ fcommit <= fcommit'
      /\ fcommit' # fcommit => facc = Term /\ fcommit' <= Len(flog)
  <2>1. CASE facc = Term
    <3>1. fcommit' = Max({fcommit, Min({beat.commit, Len(flog)})}) /\ fcommit <= Len(flog)
      BY <1>1, <2>1 DEF ReceiveHeartbeat, Agreed
    <3> QED BY <1>1, <1>2, <2>1, <3>1, CommitAdvances
  <2>2. CASE facc # Term
    <3>1. fcommit' = fcommit
      BY <2>2 DEF ReceiveHeartbeat
    <3> QED BY <1>1, <3>1
  <2> QED BY <2>1, <2>2
<1>5. FollowerHolds(log)' /\ \A k : Agreed(log, k) => Agreed(log, k)'
  BY <1>2, <1>3, <1>4, SameLog
<1>6. Agreed(log, fcommit)'
  <2>1. PICK l \in Seq(1 .. Term), c \in Nat : l = log /\ c = fcommit'
    BY <1>1, <1>4
  <2>2. Agreed(l, c)
    <3>1. CASE fcommit' = fcommit
      BY <1>1, <2>1, <3>1
    <3>2. CASE fcommit' # fcommit
      <4>1. Agreed(l, Len(flog)) /\ c <= Len(flog)
        BY <1>2, <1>4, <2>1, <3>2
      <4> QED BY <1>2, <4>1, AgreedBelow
    <3> QED BY <3>1, <3>2
  <2> QED BY <1>3, <2>1, <2>2 DEF Agreed
<1>7. BeatHolds(log, commit)'
  BY DEF ReceiveHeartbeat, BeatHolds
<1> QED BY <1>1, <1>3, <1>4, <1>5, <1>6, <1>7, FollowerStep

LEMMA ReceiveSnapshotKeeps ==
  ASSUME Inv, UNCHANGED conf, NEW i \in DOMAIN log, ReceiveSnapshot(i)
  PROVE  Inv'
<1>1. /\ log \in Seq(1 .. Term) /\ fcommit \in Nat /\ Agreed(log, fcommit)
      /\ commit \in Nat /\ Len(log) \in Nat
  BY InvContext
<1>2. /\ flog \in Seq(1 .. Term) /\ Len(flog) \in Nat /\ (facc = Term => Agreed(log, Len(flog)))
  BY DEF Inv, FollowerHolds
<1>3. i \in Nat \ {0} /\ i <= Len(log)
  BY <1>1 DEF ReceiveSnapshot
<1>4. UNCHANGED <<conf, leader, log, toFollower, beat>> /\ snap' \in {"none", "sending", "applied", "failed"}
  BY DEF ReceiveSnapshot, leader
<1>5. /\ fcommit' \in Nat /\ fcommit <= fcommit'
      /\ Agreed(log, fcommit)' /\ FollowerHolds(log)' /\ \A k : Agreed(log, k) => Agreed(log, k)'
  <2>1. CASE i <= fcommit /\ UNCHANGED <<flog, fcommit, facc>>
    <3>1. FollowerHolds(log)' /\ \A k : Agreed(log, k) => Agreed(log, k)'
      BY <1>1, <1>2, <1>4, <2>1, SameLog
    <3>2. Agreed(log, fcommit)'
      BY <1>1, <1>4, <2>1 DEF Agreed
    <3> QED BY <1>1, <2>1, <3>1, <3>2
  <2>2. CASE /\ i > fcommit /\ i <= Len(flog) /\ flog[i] = log[i] /\ fcommit' = i
             /\ UNCHANGED <<flog, facc>>
    <3>1. FollowerHolds(log)' /\ \A k : Agreed(log, k) => Agreed(log, k)'
      BY <1>2, <1>3, <1>4, <2>2, SameLog
    <3>2. i \in 1 .. Len(flog)
      BY <1>2, <1>3, <2>2
    <3>3. Agreed(log, i)
      BY <1>3, <2>2, <3>2 DEF Inv, FollowerHolds
    <3>4. Agreed(log, fcommit)'
      BY <1>4, <2>2, <3>3 DEF Agreed
    <3> QED BY <1>1, <1>3, <2>2, <3>1, <3>4
  <2>3. CASE /\ i > fcommit /\ ~(i <= Len(flog) /\ flog[i] = log[i])
             /\ flog' = SubSeq(log, 1, i) /\ fcommit' = i /\ facc' = Term
    <3>1. \A k : Agreed(log, k) => k <= i
      <4>1. \A k : Agreed(log, k) => k \in Nat /\ k < i
        BY <1>3, <2>3, DiffersAbove
      <4> QED BY <1>3, <4>1
    <3>2. flog' \in Seq(1 .. Term) /\ Len(flog') = i /\ \A j \in 1 .. i : flog'[j] = log[j]
      <4>1. /\ SubSeq(log, 1, i) \in Seq(1 .. Term) /\ Len(SubSeq(log, 1, i)) = i
            /\ \A j \in 1 .. i : SubSeq(log, 1, i)[j] = log[j]
        <5>1. i \in Nat /\ i <= Len(log)
          BY <1>3
        <5> QED BY <1>1, <5>1, PrefixFacts
      <4> QED BY <2>3, <4>1
    <3>3. Agreed(log, i)'
      BY <1>3, <1>4, <3>2 DEF Agreed
    <3>4. FollowerHolds(log)' /\ \A k : Agreed(log, k) => Agreed(log, k)'
      BY <1>3, <1>4, <2>3, <3>1, <3>2, <3>3, Replaced
    <3>5. Agreed(log, fcommit)'
      BY <2>3, <3>3 DEF Agreed
    <3> QED BY <1>1, <1>3, <2>3, <3>4, <3>5
  <2> QED BY <2>1, <2>2, <2>3 DEF ReceiveSnapshot
<1>6. \E a \in Answers : toLeader' = Append(toLeader, a) /\ AnswerHolds(log, a)'
  <2>1. PICK c \in Nat : c = fcommit'
    BY <1>5
  <2>2. Agreed(log, c)'
    BY <1>5, <2>1 DEF Agreed
  <2>3. toLeader' = Append(toLeader, Accept(c))
    BY <2>1 DEF ReceiveSnapshot
  <2> QED BY <1>5, <2>2, <2>3, AcceptHolds
<1> QED BY <1>4, <1>5, <1>6, FollowerStep

LEMMA FollowerRestartsKeeps ==
  ASSUME Inv, UNCHANGED conf, FollowerRestarts
  PROVE  Inv'
<1>1. /\ fcommit \in Nat /\ Agreed(log, fcommit)
      /\ snap \in {"none", "sending", "applied", "failed"}
  BY InvContext
<1>2. UNCHANGED <<conf, leader, log, toFollower, toLeader, beat, snap, flog, fcommit>>
  BY DEF FollowerRestarts, leader
<1>3. facc' = Term => Agreed(log, Len(flog))
  <2>1. ASSUME TermAt(flog, Len(flog)) = Term PROVE Agreed(log, Len(flog))
    <3>1. flog \in Seq(1 .. Term) /\ Len(flog) \in Nat /\ Term # 0
      BY ElectionsAssumption DEF Inv, FollowerHolds
    <3>2. Len(flog) \in 1 .. Len(flog) /\ flog[Len(flog)] = Term
      BY <2>1, <3>1 DEF TermAt
    <3> QED BY <3>2 DEF Inv, FollowerHolds
  <2> QED BY <2>1 DEF FollowerRestarts
<1>4. FollowerHolds(log)' /\ \A k : Agreed(log, k) => Agreed(log, k)'
  BY <1>1, <1>2, <1>3, SameLog
<1>5. Agreed(log, fcommit)'
  BY <1>1, <1>2 DEF Agreed
<1>6. fcommit' \in Nat /\ fcommit <= fcommit'
  BY <1>1, <1>2
<1> QED BY <1>1, <1>2, <1>4, <1>5, <1>6, FollowerStep

-----------------------------------------------------------------------------
(* The inductive invariant. *)

LEMMA InitHolds ==
  ASSUME Init
  PROVE  Inv
<1>0. PICK e \in Elections :
        /\ log = Append(e.log, Term)
        /\ first = e.first /\ applied = e.applied /\ commit = e.commit
        /\ flog = e.flog /\ fcommit = e.fcommit
        /\ pr = [match |-> 0, next |-> Len(e.log) + 1, state |-> "Probe", paused |-> TRUE,
                 active |-> FALSE, pending |-> 0, sentCommit |-> e.commit, matchCommit |-> 0,
                 inflights |-> <<>>]
        /\ toFollower = <<[index |-> Len(e.log), n |-> 1, commit |-> e.commit, match |-> 0]>>
  BY DEF Init
<1> DEFINE LeaderLog == e.log
<1>a. /\ first \in Nat \ {0} /\ applied \in Nat /\ commit \in Nat /\ fcommit \in Nat
      /\ first <= applied + 1 /\ applied <= commit /\ commit <= e.decided /\ e.decided \in Nat
      /\ e.decided <= Len(e.log) /\ fcommit <= e.decided /\ fcommit <= Len(flog)
      /\ \A i \in 1 .. fcommit : flog[i] = e.log[i]
  BY <1>0, ElectionsAssumption
<1>1. /\ Term \in Nat \ {0} /\ LeaderLog \in Seq(1 .. Term - 1) /\ flog \in Seq(1 .. Term - 1)
      /\ \A i \in DOMAIN flog \cap DOMAIN LeaderLog :
           flog[i] = LeaderLog[i] => \A j \in 1 .. i : flog[j] = LeaderLog[j]
  BY <1>0, ElectionsAssumption
<1>2. LeaderLog \in Seq(1 .. Term) /\ flog \in Seq(1 .. Term) /\ Term \in 1 .. Term
  <2>1. 1 .. Term - 1 \subseteq 1 .. Term /\ Term \in 1 .. Term
    BY <1>1
  <2> QED BY <1>1, <2>1
<1>3. /\ log \in Seq(1 .. Term) /\ Len(log) = Len(LeaderLog) + 1 /\ Len(LeaderLog) \in Nat
      /\ \A i \in 1 .. Len(LeaderLog) : log[i] = LeaderLog[i]
      /\ \A i \in 1 .. Len(LeaderLog) + 1 :
           i \in 1 .. Len(LeaderLog) \/ (i = Len(LeaderLog) + 1 /\ log[i] = Term)
  BY <1>0, <1>2, AppendFacts
<1>4. Len(flog) \in Nat /\ \A i \in 1 .. Len(flog) : flog[i] # Term
  <2>1. \A i \in 1 .. Len(flog) : flog[i] \in 1 .. Term - 1
    BY <1>1
  <2> QED BY <1>1, <1>2, <2>1
<1>5. Agreed(log, 0)
  BY <1>3, <1>4 DEF Agreed
<1>6. FollowerHolds(log)
  <2>1. ASSUME NEW i \in 1 .. Len(flog), i <= Len(log), flog[i] = log[i] PROVE Agreed(log, i)
    <3>1. i \in 1 .. Len(LeaderLog) /\ flog[i] = LeaderLog[i]
      <4>1. i \in 1 .. Len(LeaderLog) + 1
        BY <1>3, <2>1
      <4> QED BY <1>3, <1>4, <2>1, <4>1
    <3>2. i \in DOMAIN flog \cap DOMAIN LeaderLog
      BY <1>2, <3>1
    <3>3. \A j \in 1 .. i : flog[j] = LeaderLog[j]
      BY <1>1, <3>1, <3>2
    <3>4. \A j \in 1 .. i : j \in 1 .. Len(LeaderLog)
      BY <1>3, <3>1
    <3>5. \A j \in 1 .. i : flog[j] = log[j]
      BY <1>3, <3>3, <3>4
    <3> QED BY <1>4, <2>1, <3>5 DEF Agreed
  <2>2. facc # Term
    <3>1. CASE Len(flog) = 0
      BY <1>1, <3>1 DEF Init, TermAt
    <3>2. CASE Len(flog) # 0
      <4>1. Len(flog) \in 1 .. Len(flog)
        BY <1>4, <3>2
      <4> QED BY <1>4, <3>2, <4>1 DEF Init, TermAt
    <3> QED BY <3>1, <3>2
  <2>3. fcommit \in Nat
    BY <1>a
  <2> QED BY <1>2, <1>4, <2>1, <2>2, <2>3 DEF FollowerHolds
<1>7. AnswersHold(log) /\ BeatHolds(log, commit)
  BY DEF Init, AnswersHold, BeatHolds
<1>8. Context
  BY <1>a DEF Init, Context
<1>9. LeaderHolds(Now)
  <2>1. PICK next \in Nat : next = Len(LeaderLog) + 1
    BY <1>3
  <2>2. pr = [match |-> 0, next |-> next, state |-> "Probe", paused |-> TRUE,
              active |-> FALSE, pending |-> 0, sentCommit |-> commit, matchCommit |-> 0,
              inflights |-> <<>>]
    BY <1>0, <2>1
  <2>3. <<>> \in Seq(Nat) /\ WindowHolds(<<>>, 0, next)
    BY <1>8, EmptyWindow
  <2>4. pr \in Progresses
    BY <1>a, <2>2, <2>3 DEF Progresses
  <2>5. /\ pr.match = 0 /\ pr.next = next /\ pr.state = "Probe" /\ pr.pending = 0
        /\ pr.matchCommit = 0 /\ pr.inflights = <<>>
    BY <2>2
  <2>6. ProgressHolds(pr, log, commit)
    <3>1. 0 <= commit /\ 0 <= fcommit
      BY <1>a
    <3>2. 0 < next /\ next <= Len(log) + 1 /\ 0 <= 0
      BY <1>3, <2>1
    <3> QED BY <1>5, <2>3, <2>5, <3>1, <3>2 DEF ProgressHolds, MatchHolds
  <2>7. PICK m : m = [index |-> Len(LeaderLog), n |-> 1, commit |-> commit, match |-> 0]
    OBVIOUS
  <2>8. m \in Appends /\ AppendHolds(m, log, commit)
    <3>1. m \in Appends
      BY <1>a, <1>3, <2>7 DEF Appends
    <3>2. m.index = Len(LeaderLog) /\ m.n = 1 /\ m.commit = commit /\ m.match = 0
      BY <2>7
    <3> QED BY <1>a, <1>3, <1>5, <3>1, <3>2 DEF AppendHolds
  <2>9. toFollower = <<m>>
    BY <1>0, <2>7
  <2>10. /\ toFollower \in Seq(Appends)
         /\ \A k \in 1 .. Len(toFollower) : AppendHolds(toFollower[k], log, commit)
    BY <2>8, <2>9
  <2>11. Now \in LeaderStates
    BY <1>a, <1>3, <2>4, <2>10 DEF Now, LeaderStates, Init
  <2>12. commit <= Len(log) /\ fcommit <= Len(log)
    BY <1>a, <1>3
  <2>13. Agreed(log, fcommit)
    <3>1. \A i \in 1 .. fcommit : i \in 1 .. Len(LeaderLog)
      BY <1>a, <1>3
    <3> QED BY <1>a, <1>3, <2>12, <3>1 DEF Agreed
  <2> QED BY <1>a, <2>6, <2>10, <2>11, <2>12, <2>13, NowFields DEF LeaderHolds
<1> QED BY <1>a, <1>6, <1>7, <1>9 DEF Inv, Init

LEMMA NextHolds ==
  ASSUME Inv, [Next]_vars
  PROVE  Inv'
<1>1. CASE UNCHANGED vars
  <2>1. UNCHANGED <<conf, log, first, applied, commit, pr, toFollower, toLeader, beat, snap, flog, fcommit, facc>>
    BY <1>1 DEF vars, leader, follower
  <2>2. Now' = Now
    BY <2>1 DEF Now
  <2> QED BY <2>1, <2>2
          DEF Inv, LeaderHolds, ProgressHolds, MatchHolds, WindowHolds, AppendHolds, Agreed,
              FollowerHolds, AnswersHold, AnswerHolds, BeatHolds, MaxInflight
<1>2. CASE Next
  <2>1. UNCHANGED conf
    BY <1>2 DEF Next
  <2>2. ASSUME NEW S, NEW ch \in Seq(S) PROVE Positions(ch) \subseteq DOMAIN ch
    <3>1. CASE Reorders \/ ch = <<>>
      BY <3>1 DEF Positions
    <3>2. CASE ~Reorders /\ ch # <<>>
      <4>1. Len(ch) \in Nat /\ Len(ch) # 0 /\ DOMAIN ch = 1 .. Len(ch)
        BY <3>2
      <4>2. 1 \in DOMAIN ch
        BY <4>1
      <4> QED BY <3>2, <4>2 DEF Positions
    <3> QED BY <3>1, <3>2
  <2>3. toLeader \in Seq(Answers) /\ toFollower \in Seq(Appends)
    BY InvContext DEF Inv, AnswersHold
  <2>4. Positions(toLeader) \subseteq DOMAIN toLeader /\ Positions(toFollower) \subseteq DOMAIN toFollower
    BY <2>2, <2>3
  <2>5. CASE Propose
    BY <2>1, <2>5, ProposeKeeps
  <2>6. CASE \E i \in DOMAIN log : OthersAcknowledge(i) \/ ReceiveSnapshot(i)
    BY <2>1, <2>6, OthersAcknowledgeKeeps, ReceiveSnapshotKeeps
  <2>7. CASE \E i \in 1 .. MaxLog + 1 : Compact(i)
    BY <2>1, <2>7, CompactKeeps
  <2>8. CASE SendHeartbeat
    BY <2>1, <2>8, SendHeartbeatKeeps
  <2>9. CASE MarkInactive
    BY <2>1, <2>9, MarkInactiveKeeps
  <2>10. CASE ReceiveHeartbeatResp
    BY <2>1, <2>10, ReceiveHeartbeatRespKeeps
  <2>11. CASE \E k \in Positions(toLeader) : ReceiveAppResp(k)
    BY <2>1, <2>4, <2>11, ReceiveAppRespKeeps
  <2>12. CASE ReportSnapshot
    BY <2>1, <2>12, ReportSnapshotKeeps
  <2>13. CASE Unreachable
    BY <2>1, <2>13, UnreachableKeeps
  <2>14. CASE \E k \in Positions(toFollower) : ReceiveApp(k)
    BY <2>1, <2>4, <2>14, ReceiveAppKeeps
  <2>15. CASE ReceiveHeartbeat
    BY <2>1, <2>15, ReceiveHeartbeatKeeps
  <2>16. CASE FollowerRestarts
    BY <2>1, <2>16, FollowerRestartsKeeps
  <2>17. CASE Lose
    BY <2>1, <2>17, LoseKeeps
  <2>18. CASE Apply
    BY <2>1, <2>18, ApplyKeeps
  <2> QED BY <1>2, <2>5, <2>6, <2>7, <2>8, <2>9, <2>10, <2>11, <2>12, <2>13, <2>14, <2>15,
             <2>16, <2>17, <2>18 DEF Next
<1> QED BY <1>1, <1>2

LEMMA Invariance == Spec => []Inv
<1>1. Init => Inv
  BY InitHolds
<1>2. Inv /\ [Next]_vars => Inv'
  BY NextHolds
<1> QED BY <1>1, <1>2, PTL DEF Spec

(* For every configuration of the leader, every state of the two logs that *)
(* the terms before allow at its election (the follower's commit index may *)
(* be ahead of the leader's), every number of proposals, compactions,      *)
(* losses and restarts, and whatever order messages arrive in: what        *)
(* Progress records as matched, what an append or a heartbeat says is      *)
(* matched (checkMatch panics otherwise) and what the follower takes as    *)
(* committed is in the follower's durable log, as it is in the leader's.   *)
THEOREM MatchedIsDurable == Spec => []MatchIsDurable
<1>1. Inv => MatchIsDurable
  <2> SUFFICES ASSUME Inv PROVE MatchIsDurable
    OBVIOUS
  <2>1. /\ LeaderHolds(Now) /\ pr \in Progresses /\ log \in Seq(1 .. Term) /\ Agreed(log, fcommit)
        /\ toFollower \in Seq(Appends) /\ ProgressHolds(pr, log, commit)
    BY InvContext
  <2>2. /\ pr.match <= Len(flog) /\ pr.matchCommit <= fcommit
        /\ \A i \in 1 .. pr.match : flog[i] = log[i]
    BY <2>1 DEF ProgressHolds, MatchHolds, Agreed
  <2>3. \A k \in DOMAIN toFollower : toFollower[k].match <= Len(flog)
    <3>1. \A k \in 1 .. Len(toFollower) : AppendHolds(toFollower[k], log, commit)
      BY <2>1, NowFields DEF LeaderHolds
    <3>2. DOMAIN toFollower = 1 .. Len(toFollower)
      BY <2>1
    <3> QED BY <3>1, <3>2 DEF AppendHolds, Agreed
  <2>4. beat.type = "Heartbeat" => beat.match <= Len(flog)
    BY DEF Inv, BeatHolds, Agreed
  <2>5. /\ fcommit <= Len(flog) /\ fcommit <= Len(log)
        /\ \A i \in 1 .. fcommit : flog[i] = log[i]
    BY <2>1 DEF Agreed
  <2> QED BY <2>2, <2>3, <2>4, <2>5 DEF MatchIsDurable
<1> QED BY <1>1, Invariance, PTL

(* "Invariant: 0 <= Match < Next" of progress.go, and the appends in       *)
(* flight lie strictly between the two, in order, at most MaxInflight of   *)
(* them, and only in StateReplicate: Inflights.Add never finds the window  *)
(* full, for every configuration and every behaviour.                      *)
THEOREM WindowStaysAhead == Spec => []WindowAhead
<1>1. Inv => WindowAhead
  <2> SUFFICES ASSUME Inv PROVE WindowAhead
    OBVIOUS
  <2>1. pr \in Progresses /\ ProgressHolds(pr, log, commit)
    BY InvContext
  <2>2. DOMAIN pr.inflights = 1 .. Len(pr.inflights)
    BY <2>1, ProgressTypes
  <2> QED BY <2>1, <2>2 DEF WindowAhead, ProgressHolds, WindowHolds
<1> QED BY <1>1, Invariance, PTL

-----------------------------------------------------------------------------
(* The ring buffer of the appends in flight implements the window that     *)
(* Progress relies on, for every size, byte limit and range of indexes.    *)

(* The messages in flight are in the order of their indexes. *)
Ordered ==
  \A i, j \in 0 .. count - 1 : i < j => Flight(i).index < Flight(j).index

RingInv == InflightsTypeOK /\ Ordered

-----------------------------------------------------------------------------
(* Every place of the window is a place of the buffer, and two places of   *)
(* it are different.                                                       *)
LEMMA PlacesInBuffer ==
  ASSUME InflightsTypeOK, NEW i \in 0 .. count - 1
  PROVE  Wrap(start + i) \in 0 .. len - 1 /\ Flight(i) \in Message \union {Zero}
BY SizeAssumption DEF InflightsTypeOK, Wrap, Flight

LEMMA PlacesDiffer ==
  ASSUME InflightsTypeOK, NEW i \in 0 .. count, NEW j \in 0 .. count, i # j, count < Size
  PROVE  Wrap(start + i) # Wrap(start + j)
BY SizeAssumption DEF InflightsTypeOK, Wrap

(* Indexes are numbers. *)
LEMMA IndexIsNat ==
  ASSUME NEW m \in Message \union {Zero}
  PROVE  m.index \in Nat
BY BoundsAssumption DEF Message, Zero, Index

LEMMA AddKeepsFlights ==
  ASSUME RingInv, NEW m \in Message, Add(m)
  PROVE  /\ InflightsTypeOK'
         /\ \A i \in 0 .. count - 1 : Flight(i)' = Flight(i)
         /\ \A i \in Nat : i = count => Flight(i)' = m
         /\ count < Size /\ count' = count + 1
<1> DEFINE next == Wrap(start + count)
<1>1. count < Size /\ count' = count + 1 /\ start' = start
  BY SizeAssumption DEF RingInv, InflightsTypeOK, Add, Full
<1>2. next \in Nat /\ (next >= len => next = len /\ start + count < Size)
  BY SizeAssumption DEF RingInv, InflightsTypeOK, Wrap, Add, Full
<1>3. len' \in 0 .. Size /\ len <= len' /\ next < len'
  BY <1>1, <1>2, SizeAssumption DEF RingInv, InflightsTypeOK, Add, grow, Wrap
<1>4. buffer' = [k \in 0 .. len' - 1 |->
                   IF k = next THEN m ELSE IF k < len THEN buffer[k] ELSE Zero]
  BY DEF Add
<1>5. buffer' \in [0 .. len' - 1 -> Message \union {Zero}]
  <2> DEFINE cell(k) == IF k = next THEN m ELSE IF k < len THEN buffer[k] ELSE Zero
  <2>1. ASSUME NEW k \in 0 .. len' - 1 PROVE cell(k) \in Message \union {Zero}
    <3>1. k < len => buffer[k] \in Message \union {Zero}
      BY <1>3 DEF RingInv, InflightsTypeOK
    <3> QED BY <3>1
  <2> HIDE DEF cell
  <2> QED BY <2>1, <1>4 DEF cell
<1>6. IF start' + count' <= Size THEN start' + count' <= len' ELSE len' = Size
  BY <1>1, <1>2, <1>3, SizeAssumption DEF RingInv, InflightsTypeOK, Wrap
<1>7. InflightsTypeOK'
  <2>1. start' \in 0 .. Size - 1 /\ count' \in 0 .. Size /\ count' # 0
    BY <1>1, SizeAssumption DEF RingInv, InflightsTypeOK
  <2> QED BY <1>3, <1>5, <1>6, <2>1 DEF InflightsTypeOK
<1>8. ASSUME NEW i \in 0 .. count - 1 PROVE Flight(i)' = Flight(i)
  <2>1. Wrap(start + i) \in 0 .. len - 1
    BY PlacesInBuffer DEF RingInv
  <2>2. Wrap(start + i) # next
    <3>1. i \in 0 .. count /\ count \in 0 .. count /\ i # count
      BY DEF RingInv, InflightsTypeOK
    <3> QED BY <3>1, <1>1, PlacesDiffer DEF RingInv
  <2>3. buffer'[Wrap(start + i)] = buffer[Wrap(start + i)]
    BY <1>3, <1>4, <2>1, <2>2 DEF RingInv, InflightsTypeOK
  <2>4. (Wrap(start + i))' = Wrap(start + i)
    BY <1>1 DEF Wrap
  <2> QED BY <2>3, <2>4 DEF Flight
<1>9. ASSUME NEW i \in Nat, i = count PROVE Flight(i)' = m
  <2>1. (Wrap(start + i))' = next
    BY <1>1, <1>9 DEF Wrap
  <2>2. buffer'[next] = m
    BY <1>2, <1>3, <1>4 DEF RingInv, InflightsTypeOK
  <2> QED BY <2>1, <2>2 DEF Flight
<1> QED BY <1>1, <1>7, <1>8, <1>9

(* A message that is added has a greater index than those in flight. *)
LEMMA AddKeepsInv ==
  ASSUME RingInv, NEW m \in Message, Add(m)
  PROVE  RingInv'
<1>1. /\ InflightsTypeOK'
      /\ \A i \in 0 .. count - 1 : Flight(i)' = Flight(i)
      /\ \A i \in Nat : i = count => Flight(i)' = m
      /\ count' = count + 1 /\ count \in Nat
  BY AddKeepsFlights DEF RingInv, InflightsTypeOK
<1>2. ASSUME NEW i \in 0 .. count' - 1, NEW j \in 0 .. count' - 1, i < j
      PROVE  Flight(i)'.index < Flight(j)'.index
  <2>1. i \in 0 .. count - 1 /\ Flight(i)' = Flight(i)
    BY <1>1, <1>2
  <2>2. CASE j \in 0 .. count - 1
    BY <2>1, <2>2, <1>1, <1>2 DEF RingInv, Ordered
  <2>3. CASE j = count
    <3>1. Flight(j)' = m
      BY <1>1, <2>3
    <3>2. Flight(i).index < m.index
      BY <2>1 DEF Add
    <3> QED BY <2>1, <3>1, <3>2
  <2> QED BY <2>2, <2>3, <1>1
<1>3. Ordered'
  BY <1>2 DEF Ordered
<1> QED BY <1>1, <1>3 DEF RingInv

(* The n messages that an acknowledgement covers go, the others move up.   *)
LEMMA FreeKeepsFlights ==
  ASSUME RingInv, NEW to \in Index, FreeLE(to)
  PROVE  /\ InflightsTypeOK'
         /\ \E n \in 0 .. count :
              /\ Frees(to, n)
              /\ count' = count - n
              /\ \A i \in 0 .. count - n - 1 : Flight(i)' = Flight(i + n)
<1>1. PICK n \in 0 .. count :
        /\ Frees(to, n)
        /\ count' = count - n
        /\ start' = IF count' = 0 THEN 0 ELSE Wrap(start + n)
  BY DEF FreeLE
<1>2. len' = len /\ buffer' = buffer
  BY DEF FreeLE
<1>3. start' \in 0 .. Size - 1 /\ count' \in 0 .. Size /\ (count' = 0 => start' = 0)
  BY <1>1, SizeAssumption DEF RingInv, InflightsTypeOK, Wrap
<1>4. IF start' + count' <= Size THEN start' + count' <= len ELSE len = Size
  BY <1>1, SizeAssumption DEF RingInv, InflightsTypeOK, Wrap
<1>5. InflightsTypeOK'
  BY <1>2, <1>3, <1>4 DEF RingInv, InflightsTypeOK
<1>6. ASSUME NEW i \in 0 .. count - n - 1 PROVE Flight(i)' = Flight(i + n)
  <2>1. (Wrap(start + i))' = Wrap(start + (i + n))
    BY <1>1, SizeAssumption DEF RingInv, InflightsTypeOK, Wrap
  <2> QED BY <1>2, <2>1 DEF Flight
<1> QED BY <1>1, <1>5, <1>6

LEMMA FreeKeepsInv ==
  ASSUME RingInv, NEW to \in Index, FreeLE(to)
  PROVE  RingInv'
<1>1. InflightsTypeOK'
  BY FreeKeepsFlights
<1>2. PICK n \in 0 .. count :
        /\ count' = count - n
        /\ \A i \in 0 .. count - n - 1 : Flight(i)' = Flight(i + n)
  BY FreeKeepsFlights
<1>3. ASSUME NEW i \in 0 .. count' - 1, NEW j \in 0 .. count' - 1, i < j
      PROVE  Flight(i)'.index < Flight(j)'.index
  <2>1. i + n \in 0 .. count - 1 /\ j + n \in 0 .. count - 1 /\ i + n < j + n
    BY <1>2, <1>3 DEF RingInv, InflightsTypeOK
  <2>2. Flight(i)' = Flight(i + n) /\ Flight(j)' = Flight(j + n)
    BY <1>2, <1>3
  <2> QED BY <2>1, <2>2 DEF RingInv, Ordered
<1>4. Ordered'
  BY <1>3 DEF Ordered
<1> QED BY <1>1, <1>4 DEF RingInv

(* The inductive invariant: the ring is in the buffer and in order. *)
THEOREM RingInvariant == InflightsSpec => []RingInv
<1>1. InflightsInit => RingInv
  BY SizeAssumption DEF InflightsInit, RingInv, InflightsTypeOK, Ordered
<1>2. RingInv /\ [InflightsNext]_inflightsVars => RingInv'
  <2> SUFFICES ASSUME RingInv, [InflightsNext]_inflightsVars PROVE RingInv'
    OBVIOUS
  <2>1. CASE \E m \in Message : Add(m)
    BY <2>1, AddKeepsInv
  <2>2. CASE \E to \in Index : FreeLE(to)
    BY <2>2, FreeKeepsInv
  <2>3. CASE reset
    BY <2>3, SizeAssumption DEF reset, RingInv, InflightsTypeOK, Ordered
  <2>4. CASE UNCHANGED inflightsVars
    BY <2>4 DEF inflightsVars, ring, RingInv, InflightsTypeOK, Ordered, Flight, Wrap
  <2> QED BY <2>1, <2>2, <2>3, <2>4 DEF InflightsNext
<1> QED BY <1>1, <1>2, PTL DEF InflightsSpec

(* The used part of the ring never leaves the buffer (an access outside of *)
(* it panics), however the buffer grew and the window moved.               *)
THEOREM RingTypeCorrect == InflightsSpec => []InflightsTypeOK
<1>1. RingInv => InflightsTypeOK
  BY DEF RingInv
<1> QED BY <1>1, RingInvariant, PTL

-----------------------------------------------------------------------------
(* Steps of the ring are steps of the window. *)

LEMMA AddIsAdd ==
  ASSUME RingInv, NEW m \in Message, Add(m)
  PROVE  Abstract!Add(m)
<1>1. /\ \A i \in 0 .. count - 1 : Flight(i)' = Flight(i)
      /\ \A i \in Nat : i = count => Flight(i)' = m
      /\ count < Size /\ count' = count + 1 /\ count \in Nat
  BY AddKeepsFlights DEF RingInv, InflightsTypeOK
<1>2. Len(Window) = count /\ DOMAIN Window = 1 .. count
  BY <1>1 DEF Window
<1>3. \A k \in 1 .. count : Window[k].index < m.index
  BY <1>1 DEF Window, Add
<1>4. Window' = Append(Window, m)
  <2>1. Window' = [k \in 1 .. count + 1 |-> Flight(k - 1)']
    BY <1>1 DEF Window
  <2>2. \A k \in 1 .. count + 1 : Flight(k - 1)' = IF k = count + 1 THEN m ELSE Flight(k - 1)
    BY <1>1
  <2>3. Append(Window, m) = [k \in 1 .. count + 1 |-> IF k = count + 1 THEN m ELSE Flight(k - 1)]
    BY <1>1, <1>2 DEF Window
  <2> QED BY <2>1, <2>2, <2>3
<1> QED BY <1>1, <1>2, <1>3, <1>4 DEF Abstract!Add, Add

LEMMA FreeIsFree ==
  ASSUME RingInv, NEW to \in Index, FreeLE(to)
  PROVE  Abstract!FreeLE(to)
<1>1. PICK n \in 0 .. count :
        /\ Frees(to, n)
        /\ count' = count - n
        /\ \A i \in 0 .. count - n - 1 : Flight(i)' = Flight(i + n)
  BY FreeKeepsFlights
<1>2. count \in Nat /\ Len(Window) = count /\ DOMAIN Window = 1 .. count
  BY DEF Window, RingInv, InflightsTypeOK
<1>3. \A k \in 1 .. n : Window[k].index <= to
  BY <1>1, <1>2 DEF Window, Frees
<1>4. ASSUME NEW k \in n + 1 .. count PROVE Window[k].index > to
  <2>1. n \in 0 .. count - 1 /\ k - 1 \in 0 .. count - 1 /\ Window[k] = Flight(k - 1)
    BY <1>1, <1>2, <1>4 DEF Window
  <2>2. Flight(n).index > to
    <3>1. n < count
      BY <1>2, <2>1
    <3> QED BY <1>1, <3>1 DEF Frees
  <2>3. Flight(n).index \in Nat /\ Flight(k - 1).index \in Nat /\ to \in Nat
    BY <2>1, PlacesInBuffer, IndexIsNat, BoundsAssumption DEF RingInv, Index
  <2>4. k - 1 = n \/ n < k - 1
    BY <1>1, <1>2, <1>4
  <2>5. n < k - 1 => Flight(n).index < Flight(k - 1).index
    BY <2>1 DEF RingInv, Ordered
  <2> QED BY <2>1, <2>2, <2>3, <2>4, <2>5
<1>5. Window' = [k \in 1 .. Len(Window) - n |-> Window[k + n]]
  <2>1. Window' = [k \in 1 .. count - n |-> Flight(k - 1)']
    BY <1>1 DEF Window
  <2>2. \A k \in 1 .. count - n : Flight(k - 1)' = Window[k + n]
    BY <1>1, <1>2 DEF Window
  <2> QED BY <2>1, <2>2, <1>2
<1>6. call' = <<"FreeLE", to>>
  BY DEF FreeLE
<1>7. n \in 0 .. Len(Window)
  BY <1>1, <1>2
<1> QED BY <1>2, <1>3, <1>4, <1>5, <1>6, <1>7 DEF Abstract!FreeLE

(* The ring buffer implements the window: what is in flight is exactly     *)
(* what was added and not acknowledged since, in order.                    *)
THEOREM RingRefinement == InflightsSpec => ImplementsWindow
<1>1. InflightsInit => Abstract!Init
  BY DEF InflightsInit, Abstract!Init, Window
<1>2. RingInv /\ [InflightsNext]_inflightsVars => [Abstract!Next]_<<Window, call>>
  <2> SUFFICES ASSUME RingInv, [InflightsNext]_inflightsVars PROVE [Abstract!Next]_<<Window, call>>
    OBVIOUS
  <2>1. CASE \E m \in Message : Add(m)
    BY <2>1, AddIsAdd DEF Abstract!Next
  <2>2. CASE \E to \in Index : FreeLE(to)
    BY <2>2, FreeIsFree DEF Abstract!Next
  <2>3. CASE reset
    BY <2>3 DEF reset, Window, Abstract!Next, Abstract!Reset
  <2>4. CASE UNCHANGED inflightsVars
    BY <2>4 DEF inflightsVars, ring, Window, Flight, Wrap
  <2> QED BY <2>1, <2>2, <2>3, <2>4 DEF InflightsNext
<1> QED BY <1>1, <1>2, RingInvariant, PTL DEF InflightsSpec, ImplementsWindow, Abstract!Spec
=============================================================================
