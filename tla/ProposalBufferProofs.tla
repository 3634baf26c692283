------------------------ MODULE ProposalBufferProofs ------------------------
(***************************************************************************)
(* The properties of ProposalBuffer for any number of requests, leases,    *)
(* reproposals and lost entries.                                           *)
(*                                                                         *)
(* The argument follows a request. Until it is sequenced it has a token: a *)
(* write is tracked, above everything that is assigned to be closed, and   *)
(* the lower bound of the tracker keeps it so. When a flush sequences it,  *)
(* its index is above and its closed timestamp not below those of all that *)
(* were sequenced before, and its write is above what these close. From    *)
(* then on all its entries are copies of one another, so once one of them  *)
(* is applied or rejected the others are dead; only then may it be         *)
(* proposed with another index. A change of the lease kills everything     *)
(* that was proposed before it, and the new lease starts above all that    *)
(* the earlier ones closed.                                                *)
(***************************************************************************)
EXTENDS ProposalBuffer, FiniteSetTheorems, TLAPS

RequestKinds == {"write", "untracked", "change", "lease"}

(* A request that has a token and wants a slot, or has one. *)
Inserting == {"insert", "flush", "wait", "buffered"}

RequestStates ==
  [pc : {"idle", "checked", "evaluate", "registered", "retry", "fail", "done"} \cup Inserting,
   kind : RequestKinds, seq : Nat, exp : Timestamps, wts : Timestamps, minTS : Timestamps,
   tok : BOOLEAN, seen : BOOLEAN, lai : Nat, closed : Timestamps, gen : Nat]

Entries == [r : Requests, gen : Nat, kind : RequestKinds, seq : Nat, wts : Timestamps,
            lai : Nat, closed : Timestamps]

LeaseTypes ==
  /\ lease \in [seq : Nat, mine : BOOLEAN, start : Timestamps, exp : Timestamps]
  /\ lease.exp.wall > 0
  /\ applied \in [lai : Nat, closed : Timestamps]
  /\ assigned \in [lai : Nat, closed : Timestamps]
  /\ published \in Timestamps

BufferTypes ==
  /\ prop \in [Requests -> RequestStates]
  /\ tracked \in [Requests -> Timestamps \cup {Untracked}]
  /\ arr \in [buf : Seq(Requests \X Nat), alloc : Nat, size : Nat \ {0}, shrink : Nat]
  /\ proposals \in SUBSET Requests /\ IsFiniteSet(proposals)
  /\ updateCheck \in BOOLEAN

RaftTypes ==
  /\ wire \in Seq(Entries)
  /\ applying \in Requests \cup {Nobody}
  /\ destroyed \in BOOLEAN
  /\ applications \in [Requests -> Nat]

LockTypes ==
  /\ lock \in {"free", "flush", "refresh"}
  /\ flush \in [owner : Requests \cup {Nobody}, i : Nat, used : Nat, target : Timestamps,
                ents : Seq(Entries)]
  /\ flush.i > 0 \/ lock # "flush"
  /\ refresh \in Seq(Requests)
  /\ lock = "refresh" => refresh # <<>>
  /\ lock = "free" => refresh = <<>>

Types == LeaseTypes /\ BufferTypes /\ RaftTypes /\ LockTypes

-----------------------------------------------------------------------------
(* The slots of the buffer: whoever may have to wait finds somebody who    *)
(* flushes.                                                                *)
SlotsAreServed ==
  /\ lock = "flush" => arr.alloc = 0
  /\ (arr.alloc > 0 \/ arr.buf # <<>>) => updateCheck \/ lock = "flush"
  /\ arr.alloc > arr.size => destroyed \/ \E r \in Requests : prop[r].pc = "flush"
  /\ WaitersAreWoken
  /\ flush.owner # Nobody => lock = "flush" /\ prop[flush.owner].pc = "flush"

(* A lease request may be finished and still be in slots. *)
Reinserted(r) == \/ prop[r].pc = "registered"
                 \/ prop[r].pc = "done" /\ prop[r].kind = "lease"

SlotHolds(slot) ==
  /\ prop[slot[1]].pc # "idle"
  /\ slot[2] <= prop[slot[1]].gen
  /\ Seen(slot) \/ prop[slot[1]].pc = "buffered" \/ Reinserted(slot[1])

SlotsHold ==
  /\ \A slot \in Range(arr.buf) : SlotHolds(slot)
  /\ \A r \in Range(refresh) : Reinserted(r)

-----------------------------------------------------------------------------
(* Requests, tokens and entries. *)

(* What a request has, depending on where it is. *)
TokenHolds(r) ==
  /\ prop[r].pc = "idle" => prop[r] = NewRequest /\ applications[r] = 0
  /\ prop[r].pc \in {"registered", "done"} => tracked[r] = Untracked
  /\ prop[r].pc \in {"checked", "registered", "done", "retry"} => ~prop[r].tok
  /\ prop[r].pc \in Inserting \cup {"evaluate"} => prop[r].tok
  /\ prop[r].tok => prop[r].lai = 0
  /\ prop[r].pc = "checked" => prop[r].lai = 0
  /\ r \in proposals <=> prop[r].pc = "registered"

(* The request was sequenced under the lease that is in force, and what it *)
(* was sequenced as may still apply.                                       *)
Sequenced(r) ==
  /\ prop[r].kind # "lease" /\ prop[r].seq = lease.seq
  /\ ~prop[r].tok /\ applied.lai < prop[r].lai

RetryHolds(r) ==
  /\ Sequenced(r) => destroyed \/ prop[r].pc = "registered"
  /\ prop[r].pc = "retry" =>
       prop[r].seen /\ applying = r /\ prop[r].kind # "lease" /\ ~Sequenced(r)

(* A request that has applied is of an earlier lease, or is done. *)
AppliedHolds(r) ==
  /\ applications[r] <= 1
  /\ applications[r] = 1 =>
       \/ prop[r].seq < lease.seq
       \/ prop[r].seen /\ prop[r].pc = "done" /\ prop[r].kind # "lease" /\ ~Sequenced(r)

(* It will never apply. *)
Dead(e) == e.seq < lease.seq \/ (e.kind # "lease" /\ e.lai <= applied.lai)

EntryHolds(e) ==
  /\ prop[e.r].pc \notin {"idle", "checked"}
  /\ e.kind = prop[e.r].kind /\ e.seq = prop[e.r].seq /\ e.gen <= prop[e.r].gen
  /\ e.gen = prop[e.r].gen => e = Entry(e.r, prop[e.r]) /\ ~prop[e.r].tok
  /\ e.gen < prop[e.r].gen => Dead(e)

EntriesHold == \A e \in Range(wire) \cup Range(flush.ents) : EntryHolds(e)

-----------------------------------------------------------------------------
(* Leases and closed timestamps. *)

(* The lease a request was checked under. *)
LeaseHolds(r) ==
  /\ prop[r].seq <= lease.seq
  /\ prop[r].pc # "idle" =>
       /\ prop[r].exp.wall > 0 /\ LessEq(prop[r].exp, lease.exp)
       /\ prop[r].seq = lease.seq => (prop[r].kind = "lease" <=> ~lease.mine)

(* Nothing is closed beyond the lease; a new lease starts above all that   *)
(* the earlier ones closed.                                                *)
BoundsHold ==
  /\ LessEq(assigned.closed, WallPrev(lease.exp))
  /\ LessEq(applied.closed, WallPrev(lease.exp))
  /\ LessEq(published, WallPrev(lease.exp))
  /\ lease.mine => /\ LessEq(applied.closed, assigned.closed) /\ applied.lai <= assigned.lai
                   /\ LessEq(published, lease.start) \/ LessEq(published, assigned.closed)

(* A write under the lease that is in force. *)
LiveWrite(r) == prop[r].kind = "write" /\ prop[r].seq = lease.seq

(* Until it is sequenced a write is tracked above all that is assigned. *)
TrackedHolds(r) ==
  LiveWrite(r) =>
    /\ prop[r].pc \in Inserting \cup {"evaluate"} =>
         tracked[r] # Untracked /\ Less(assigned.closed, tracked[r])
    /\ prop[r].pc = "evaluate" => tracked[r] = Forward(prop[r].wts, prop[r].minTS)
    /\ prop[r].pc \in Inserting => LessEq(tracked[r], prop[r].wts)
    /\ prop[r].pc \in Inserting \cup {"registered", "retry"} => Less(lease.start, prop[r].wts)

SequencedHolds(r) ==
  Sequenced(r) =>
    /\ prop[r].lai <= assigned.lai
    /\ LessEq(applied.closed, prop[r].closed) /\ LessEq(prop[r].closed, assigned.closed)
    /\ prop[r].kind = "write" => Less(applied.closed, prop[r].wts) /\ Less(published, prop[r].wts)

(* Of two requests that may both apply, the later closes no less and       *)
(* writes above what the earlier closes.                                   *)
InOrder(q, r) ==
  /\ prop[q].lai # prop[r].lai
  /\ prop[q].lai < prop[r].lai =>
       /\ LessEq(prop[q].closed, prop[r].closed)
       /\ prop[r].kind = "write" => Less(prop[q].closed, prop[r].wts)

OrderHolds == \A q, r \in Requests : q # r /\ Sequenced(q) /\ Sequenced(r) => InOrder(q, r)

RequestHolds(r) ==
  /\ TokenHolds(r) /\ RetryHolds(r) /\ AppliedHolds(r)
  /\ LeaseHolds(r) /\ TrackedHolds(r) /\ SequencedHolds(r)

Inv ==
  /\ ValidConstants /\ Types
  /\ SlotsAreServed /\ SlotsHold
  /\ \A r \in Requests : RequestHolds(r)
  /\ EntriesHold /\ BoundsHold /\ OrderHolds

-----------------------------------------------------------------------------
(* Timestamps. *)

LEMMA OrderFacts ==
  \A a, b, c \in Timestamps :
    /\ LessEq(a, a)
    /\ Less(a, b) => LessEq(a, b)
    /\ Less(a, b) /\ LessEq(b, c) => Less(a, c)
    /\ LessEq(a, b) /\ Less(b, c) => Less(a, c)
    /\ LessEq(a, b) /\ LessEq(b, c) => LessEq(a, c)
    /\ ~Less(a, b) => LessEq(b, a)
BY TimestampAssumption DEF Timestamps, Less, LessEq

LEMMA EmptyFacts ==
  /\ EmptyTS \in Timestamps
  /\ \A a \in Timestamps : LessEq(EmptyTS, a) /\ (LessEq(a, EmptyTS) => a = EmptyTS)
BY TimestampAssumption DEF Timestamps, EmptyTS, Less, LessEq

LEMMA ForwardFacts ==
  \A a, b \in Timestamps :
    /\ Forward(a, b) \in {a, b}
    /\ LessEq(a, Forward(a, b)) /\ LessEq(b, Forward(a, b))
<1> SUFFICES ASSUME NEW a \in Timestamps, NEW b \in Timestamps
             PROVE  /\ Forward(a, b) \in {a, b}
                    /\ LessEq(a, Forward(a, b)) /\ LessEq(b, Forward(a, b))
  OBVIOUS
<1>1. Less(a, b) \/ LessEq(b, a)
  BY OrderFacts
<1> QED BY <1>1, OrderFacts DEF Forward

LEMMA BackwardFacts ==
  \A a, b \in Timestamps :
    /\ Backward(a, b) \in {a, b}
    /\ LessEq(Backward(a, b), a) /\ LessEq(Backward(a, b), b)
<1> SUFFICES ASSUME NEW a \in Timestamps, NEW b \in Timestamps
             PROVE  /\ Backward(a, b) \in {a, b}
                    /\ LessEq(Backward(a, b), a) /\ LessEq(Backward(a, b), b)
  OBVIOUS
<1>1. Less(b, a) \/ LessEq(a, b)
  BY OrderFacts
<1> QED BY <1>1, OrderFacts DEF Backward

LEMMA NextFacts == \A a \in Timestamps : NextTS(a) \in Timestamps /\ Less(a, NextTS(a))
BY TimestampAssumption DEF Timestamps, NextTS, At, Less

LEMMA FloorPrevFacts ==
  \A a \in Timestamps : a # EmptyTS => FloorPrev(a) \in Timestamps /\ Less(FloorPrev(a), a)
<1> SUFFICES ASSUME NEW a \in Timestamps, a # EmptyTS
             PROVE  FloorPrev(a) \in Timestamps /\ Less(FloorPrev(a), a)
  OBVIOUS
<1>1. a.wall \in Nat /\ a.logical \in 0 .. MaxLogical /\ MaxLogical \in Nat
  BY TimestampAssumption DEF Timestamps
<1>2. a.wall > 0 \/ a.logical > 0
  BY <1>1 DEF EmptyTS, Timestamps
<1> QED BY <1>1, <1>2 DEF FloorPrev, At, Timestamps, Less

LEMMA WallPrevFacts ==
  \A a \in Timestamps : a.wall > 0 =>
    /\ WallPrev(a) \in Timestamps /\ Less(WallPrev(a), a)
    /\ \A b \in Timestamps : LessEq(a, b) => LessEq(WallPrev(a), WallPrev(b)) /\ b.wall > 0
BY TimestampAssumption DEF Timestamps, WallPrev, At, Less, LessEq

-----------------------------------------------------------------------------
(* Sequences. *)

LEMMA RangeFacts ==
  ASSUME NEW S, NEW s \in Seq(S)
  PROVE  /\ Range(s) \subseteq S
         /\ \A x \in S : Append(s, x) \in Seq(S) /\ Range(Append(s, x)) = Range(s) \cup {x}
         /\ \A t \in Seq(S) : s \o t \in Seq(S) /\ Range(s \o t) = Range(s) \cup Range(t)
         /\ s # <<>> => Head(s) \in Range(s) /\ Tail(s) \in Seq(S) /\ Range(Tail(s)) \subseteq Range(s)
<1>1. Range(s) \subseteq S
  BY DEF Range
<1>2. ASSUME NEW x \in S
      PROVE  Append(s, x) \in Seq(S) /\ Range(Append(s, x)) = Range(s) \cup {x}
  <2>1. /\ Append(s, x) \in Seq(S) /\ Len(Append(s, x)) = Len(s) + 1 /\ Len(s) \in Nat
        /\ \A i \in 1 .. Len(s) : Append(s, x)[i] = s[i]
        /\ Append(s, x)[Len(s) + 1] = x
    OBVIOUS
  <2>2. DOMAIN s = 1 .. Len(s) /\ DOMAIN Append(s, x) = 1 .. Len(s) + 1
    BY <2>1
  <2>3. \A i \in 1 .. Len(s) + 1 : i \in 1 .. Len(s) \/ i = Len(s) + 1
    BY <2>1
  <2>4. Range(Append(s, x)) \subseteq Range(s) \cup {x}
    BY <2>1, <2>2, <2>3 DEF Range
  <2>5. 1 .. Len(s) \subseteq 1 .. Len(s) + 1 /\ Len(s) + 1 \in 1 .. Len(s) + 1
    BY <2>1
  <2>6. \A i \in DOMAIN s : s[i] \in Range(Append(s, x))
    BY <2>1, <2>2, <2>5 DEF Range
  <2>7. x \in Range(Append(s, x))
    BY <2>1, <2>2, <2>5 DEF Range
  <2> QED BY <2>1, <2>4, <2>6, <2>7 DEF Range
<1>3. ASSUME NEW t \in Seq(S)
      PROVE  s \o t \in Seq(S) /\ Range(s \o t) = Range(s) \cup Range(t)
  <2>1. /\ s \o t \in Seq(S) /\ Len(s \o t) = Len(s) + Len(t) /\ Len(s) \in Nat /\ Len(t) \in Nat
        /\ \A i \in 1 .. Len(s) + Len(t) :
             (s \o t)[i] = IF i <= Len(s) THEN s[i] ELSE t[i - Len(s)]
    OBVIOUS
  <2>2. DOMAIN s = 1 .. Len(s) /\ DOMAIN t = 1 .. Len(t) /\ DOMAIN (s \o t) = 1 .. Len(s) + Len(t)
    BY <2>1
  <2>3. ASSUME NEW i \in 1 .. Len(s) + Len(t) PROVE (s \o t)[i] \in Range(s) \cup Range(t)
    <3>1. CASE i <= Len(s)
      <4>1. i \in DOMAIN s /\ (s \o t)[i] = s[i]
        BY <2>1, <2>2, <3>1
      <4> QED BY <4>1 DEF Range
    <3>2. CASE ~(i <= Len(s))
      <4>1. i - Len(s) \in DOMAIN t /\ (s \o t)[i] = t[i - Len(s)]
        BY <2>1, <2>2, <3>2
      <4> QED BY <4>1 DEF Range
    <3> QED BY <3>1, <3>2
  <2>4. ASSUME NEW i \in 1 .. Len(s) PROVE s[i] \in Range(s \o t)
    <3>1. i \in DOMAIN (s \o t) /\ (s \o t)[i] = s[i]
      BY <2>1, <2>2
    <3> QED BY <3>1 DEF Range
  <2>5. ASSUME NEW i \in 1 .. Len(t) PROVE t[i] \in Range(s \o t)
    <3>1. Len(s) + i \in DOMAIN (s \o t) /\ (s \o t)[Len(s) + i] = t[i]
      BY <2>1, <2>2
    <3> QED BY <3>1 DEF Range
  <2>6. Range(s \o t) \subseteq Range(s) \cup Range(t)
    <3>1. \A x \in Range(s \o t) : \E i \in 1 .. Len(s) + Len(t) : x = (s \o t)[i]
      BY <2>2 DEF Range
    <3> QED BY <2>3, <3>1
  <2>7. Range(s) \subseteq Range(s \o t) /\ Range(t) \subseteq Range(s \o t)
    <3>1. /\ \A x \in Range(s) : \E i \in 1 .. Len(s) : x = s[i]
          /\ \A x \in Range(t) : \E i \in 1 .. Len(t) : x = t[i]
      BY <2>2 DEF Range
    <3> QED BY <2>4, <2>5, <3>1
  <2> QED BY <2>1, <2>6, <2>7
<1>4. ASSUME s # <<>>
      PROVE  Head(s) \in Range(s) /\ Tail(s) \in Seq(S) /\ Range(Tail(s)) \subseteq Range(s)
  <2>1. /\ Len(s) \in Nat \ {0} /\ Head(s) = s[1] /\ Tail(s) \in Seq(S)
        /\ Len(Tail(s)) = Len(s) - 1
        /\ \A i \in 1 .. Len(s) - 1 : Tail(s)[i] = s[i + 1]
    BY <1>4
  <2>2. DOMAIN s = 1 .. Len(s) /\ DOMAIN Tail(s) = 1 .. Len(s) - 1
    BY <2>1
  <2>3. \A i \in 1 .. Len(s) - 1 : i + 1 \in DOMAIN s
    BY <2>1, <2>2
  <2>4. 1 \in DOMAIN s
    BY <2>1, <2>2
  <2> QED BY <2>1, <2>2, <2>3, <2>4 DEF Range
<1> QED BY <1>1, <1>2, <1>3, <1>4

LEMMA RemoveAtFacts ==
  ASSUME NEW S, NEW s \in Seq(S), NEW i \in DOMAIN s
  PROVE  RemoveAt(s, i) \in Seq(S) /\ Range(RemoveAt(s, i)) \subseteq Range(s)
<1>1. /\ Len(s) \in Nat /\ DOMAIN s = 1 .. Len(s) /\ i \in 1 .. Len(s)
  OBVIOUS
<1>2. ASSUME NEW m \in Int, NEW n \in Int, NEW k \in Nat, 1 <= m, m <= n + 1, n <= Len(s),
             k = n - m + 1
      PROVE  /\ SubSeq(s, m, n) \in Seq(S) /\ Len(SubSeq(s, m, n)) = k
             /\ \A j \in 1 .. k : SubSeq(s, m, n)[j] = s[m + j - 1]
  <2>1. SubSeq(s, m, n) = [j \in 1 .. (1 + n) - m |-> s[(j + m) - 1]]
    BY DEF SubSeq
  <2>2. \A j \in 1 .. (1 + n) - m : (j + m) - 1 \in 1 .. Len(s)
    BY <1>1, <1>2
  <2>3. \A j \in 1 .. (1 + n) - m : s[(j + m) - 1] \in S
    BY <1>1, <2>2
  <2>4. (1 + n) - m \in Nat /\ k = (1 + n) - m
    BY <1>2
  <2> QED BY <2>1, <2>2, <2>3, <2>4
<1> DEFINE a == SubSeq(s, 1, i - 1)
           b == SubSeq(s, i + 1, Len(s))
<1>a. a \in Seq(S) /\ Len(a) = i - 1 /\ \A j \in 1 .. i - 1 : a[j] = s[1 + j - 1]
  <2>1. i - 1 \in Nat /\ 1 <= (i - 1) + 1 /\ i - 1 <= Len(s) /\ i - 1 = (i - 1) - 1 + 1
    BY <1>1
  <2> QED BY <2>1, <1>2
<1>b. b \in Seq(S) /\ Len(b) = Len(s) - i /\ \A j \in 1 .. Len(s) - i : b[j] = s[(i + 1) + j - 1]
  <2>1. /\ Len(s) - i \in Nat /\ i + 1 \in Int /\ 1 <= i + 1 /\ i + 1 <= Len(s) + 1
        /\ Len(s) - i = Len(s) - (i + 1) + 1 /\ Len(s) \in Int /\ Len(s) <= Len(s)
    BY <1>1
  <2> QED BY <2>1, <1>2
<1>3. RemoveAt(s, i) = a \o b
  BY DEF RemoveAt
<1>4. RemoveAt(s, i) \in Seq(S) /\ Range(RemoveAt(s, i)) = Range(a) \cup Range(b)
  <2>1. PICK aa \in Seq(S), bb \in Seq(S) : aa = a /\ bb = b
    BY <1>a, <1>b
  <2>2. aa \o bb \in Seq(S) /\ Range(aa \o bb) = Range(aa) \cup Range(bb)
    BY RangeFacts
  <2> QED BY <1>3, <2>1, <2>2
<1>5. Range(a) \subseteq Range(s)
  <2>1. \A j \in 1 .. i - 1 : j \in DOMAIN s /\ a[j] = s[j]
    BY <1>1, <1>a
  <2>2. DOMAIN a = 1 .. i - 1
    BY <1>a
  <2> HIDE DEF a
  <2>3. \A x \in Range(a) : \E j \in 1 .. i - 1 : x = a[j]
    BY <2>2 DEF Range
  <2>4. \A j \in DOMAIN s : s[j] \in Range(s)
    BY DEF Range
  <2> QED BY <2>1, <2>3, <2>4
<1>6. Range(b) \subseteq Range(s)
  <2>1. \A j \in 1 .. Len(s) - i : i + j \in DOMAIN s /\ b[j] = s[i + j]
    BY <1>1, <1>b
  <2>2. DOMAIN b = 1 .. Len(s) - i
    BY <1>b
  <2> HIDE DEF b
  <2>3. \A x \in Range(b) : \E j \in 1 .. Len(s) - i : x = b[j]
    BY <2>2 DEF Range
  <2>4. \A j \in DOMAIN s : s[j] \in Range(s)
    BY DEF Range
  <2> QED BY <2>1, <2>3, <2>4
<1> QED BY <1>4, <1>5, <1>6

-----------------------------------------------------------------------------
(* The steps that move requests but leave the lease and what is applied,   *)
(* assigned and published alone.                                           *)

LEMMA InitInv == Init => Inv
<1> SUFFICES ASSUME ValidConstants, Init PROVE Inv
  BY ConstantsAssumption
<1>1. EmptyTS \in Timestamps /\ NewRequest \in RequestStates /\ At(LeaseLength, 0) \in Timestamps
  BY EmptyFacts, TimestampAssumption
     DEF NewRequest, RequestStates, RequestKinds, ValidConstants, At, Timestamps
<1>2. LeaseLength > 0 /\ At(LeaseLength, 0).wall = LeaseLength
  BY DEF ValidConstants, At
<1>3. Types
  <2>1. LeaseTypes
    BY <1>1, <1>2 DEF Init, LeaseTypes
  <2>2. BufferTypes
    <3>1. prop \in [Requests -> RequestStates] /\ tracked \in [Requests -> Timestamps \cup {Untracked}]
      BY <1>1 DEF Init
    <3>2. arr \in [buf : Seq(Requests \X Nat), alloc : Nat, size : Nat \ {0}, shrink : Nat]
      <4>1. <<>> \in Seq(Requests \X Nat) /\ ArrMinSize \in Nat \ {0}
        BY DEF ValidConstants
      <4> QED BY <4>1 DEF Init
    <3> QED BY <3>1, <3>2, FS_EmptySet DEF Init, BufferTypes
  <2>3. RaftTypes /\ LockTypes
    <3>1. <<>> \in Seq(Entries) /\ <<>> \in Seq(Requests)
      OBVIOUS
    <3>2. flush = NoFlush /\ applications \in [Requests -> Nat]
      BY DEF Init
    <3>3. RaftTypes
      BY <3>1, <3>2 DEF Init, RaftTypes
    <3>4. flush \in [owner : Requests \cup {Nobody}, i : Nat, used : Nat, target : Timestamps,
                    ents : Seq(Entries)]
      BY <1>1, <3>1, <3>2 DEF NoFlush
    <3> QED BY <3>1, <3>3, <3>4 DEF Init, LockTypes
  <2> QED BY <2>1, <2>2, <2>3 DEF Types
<1>4. \A r \in Requests : prop[r] = NewRequest /\ tracked[r] = Untracked /\ applications[r] = 0
  BY DEF Init
<1>5. SlotsAreServed /\ SlotsHold
  <2>1. Range(<<>>) = {}
    BY DEF Range
  <2>2. \A r \in Requests : prop[r].pc = "idle"
    BY <1>4 DEF NewRequest
  <2> QED BY <2>1, <2>2 DEF Init, SlotsAreServed, SlotsHold, WaitersAreWoken, ValidConstants, NoFlush
<1>6. EntriesHold /\ OrderHolds
  <2>1. Range(<<>>) = {}
    BY DEF Range
  <2>2. \A r \in Requests : ~Sequenced(r)
    BY <1>4 DEF Init, Sequenced, NewRequest
  <2> QED BY <2>1, <2>2 DEF Init, EntriesHold, OrderHolds, NoFlush
<1>7. BoundsHold
  <2>1. WallPrev(At(LeaseLength, 0)) \in Timestamps
    BY <1>1, <1>2, WallPrevFacts
  <2> QED BY <1>1, <2>1, EmptyFacts DEF Init, BoundsHold
<1>8. ASSUME NEW r \in Requests PROVE RequestHolds(r)
  <2>1. lease.seq = 1 /\ proposals = {}
    BY DEF Init
  <2>2. TokenHolds(r) /\ RetryHolds(r) /\ AppliedHolds(r)
    <3>1. TokenHolds(r)
      <4>1. prop[r] = NewRequest /\ prop[r].pc = "idle" /\ ~prop[r].tok /\ r \notin proposals
        <5>1. prop[r] = NewRequest /\ r \notin proposals
          BY <1>4, <2>1
        <5>2. NewRequest.pc = "idle" /\ ~NewRequest.tok
          BY DEF NewRequest
        <5> QED BY <5>1, <5>2
      <4> QED BY <1>4, <4>1 DEF TokenHolds, Inserting
    <3>2. applications[r] = 0 /\ prop[r].pc = "idle" /\ ~Sequenced(r)
      BY <1>4 DEF Init, NewRequest, Sequenced
    <3> QED BY <3>1, <3>2 DEF RetryHolds, AppliedHolds
  <2>3. LeaseHolds(r) /\ TrackedHolds(r) /\ SequencedHolds(r)
    BY <1>4, <2>1 DEF LeaseHolds, TrackedHolds, SequencedHolds, Sequenced, LiveWrite, NewRequest, Inserting
  <2> QED BY <2>2, <2>3 DEF RequestHolds
<1> QED BY <1>3, <1>5, <1>6, <1>7, <1>8 DEF Inv

Frame ==
  /\ UNCHANGED <<lease, applied, assigned, published, applications>>
  /\ destroyed => destroyed'
  /\ \A e \in Range(wire') \cup Range(flush'.ents) :
       e \in Range(wire) \cup Range(flush.ents) \/ EntryHolds(e)'

Stays(r) ==
  /\ prop'[r] = prop[r] /\ tracked'[r] = tracked[r]
  /\ r \in proposals' <=> r \in proposals
  /\ applying' = applying \/ prop[r].pc # "retry"

(* A request goes on with its command, which can be written at another     *)
(* timestamp only before it is proposed.                                   *)
Moves(r) ==
  /\ prop[r].pc # "idle" /\ prop'[r].pc \notin {"idle", "checked"}
  /\ prop'[r].kind = prop[r].kind /\ prop'[r].seq = prop[r].seq /\ prop'[r].exp = prop[r].exp
  /\ prop'[r].gen = prop[r].gen /\ (prop[r].seen => prop'[r].seen)
  /\ prop'[r].lai = prop[r].lai /\ prop'[r].closed = prop[r].closed
  /\ \/ prop[r].tok \/ prop[r].pc = "checked"
     \/ prop'[r].wts = prop[r].wts /\ ~prop'[r].tok
  /\ prop'[r].pc = "retry" =>
       prop'[r].seen /\ applying' = r /\ prop[r].kind # "lease" /\ ~Sequenced(r)
  /\ prop[r].pc = "done" /\ prop[r].kind # "lease" => prop'[r].pc = "done"
  /\ Sequenced(r) => destroyed \/ prop'[r].pc = "registered"
  /\ TokenHolds(r)' /\ TrackedHolds(r)'

(* A request starts, under the lease in force. *)
Starts(r) ==
  /\ prop[r].pc = "idle" /\ prop'[r].pc = "checked" /\ prop'[r].lai = 0
  /\ LeaseHolds(r)' /\ TokenHolds(r)' /\ TrackedHolds(r)'

(* Its command, whose entries are all dead, is proposed anew. *)
Retries(r) ==
  /\ prop[r].pc = "retry" /\ prop'[r].pc = "insert"
  /\ prop'[r].kind = prop[r].kind /\ prop'[r].seq = prop[r].seq /\ prop'[r].exp = prop[r].exp
  /\ prop'[r].gen = prop[r].gen + 1 /\ prop'[r].lai = 0
  /\ TokenHolds(r)' /\ TrackedHolds(r)'

(* What is sequenced is as it was. *)
SequencedBefore(r) ==
  /\ Sequenced(r)
  /\ prop'[r].kind = prop[r].kind /\ prop'[r].lai = prop[r].lai
  /\ prop'[r].closed = prop[r].closed /\ prop'[r].wts = prop[r].wts

LEMMA RequestTypes ==
  ASSUME Types, NEW r \in Requests
  PROVE  prop[r] \in RequestStates /\ prop[r].lai \in Nat /\ prop[r].gen \in Nat /\ prop[r].seq \in Nat
         /\ lease.seq \in Nat /\ applied.lai \in Nat
BY DEF Types, BufferTypes, LeaseTypes, RequestStates

LEMMA RequestKept ==
  ASSUME Inv, Frame, Types', NEW r \in Requests, Stays(r) \/ Moves(r) \/ Starts(r) \/ Retries(r)
  PROVE  RequestHolds(r)' /\ (Sequenced(r)' => SequencedBefore(r))
<1>1. /\ RequestHolds(r) /\ Types /\ prop[r] \in RequestStates /\ lease.seq \in Nat /\ applied.lai \in Nat
      /\ prop'[r] \in RequestStates
  <2>1. Types => prop[r] \in RequestStates
    BY DEF Types, BufferTypes
  <2>2. prop'[r] \in RequestStates
    BY DEF Types, BufferTypes
  <2> QED BY <2>1, <2>2, RequestTypes DEF Inv
<1>2. lease' = lease /\ applied' = applied /\ assigned' = assigned /\ published' = published
      /\ applications' = applications
  BY DEF Frame
<1>3. CASE Stays(r)
  <2>1. (Sequenced(r)' <=> Sequenced(r)) /\ (Sequenced(r)' => SequencedBefore(r))
    BY <1>2, <1>3 DEF Stays, Sequenced, SequencedBefore
  <2>2. TokenHolds(r)'
    BY <1>1, <1>2, <1>3 DEF Stays, RequestHolds, TokenHolds
  <2>3. RetryHolds(r)'
    BY <1>1, <1>2, <1>3, <2>1 DEF Stays, RequestHolds, RetryHolds, Frame
  <2>4. AppliedHolds(r)'
    BY <1>1, <1>2, <1>3, <2>1 DEF Stays, RequestHolds, AppliedHolds
  <2>5. LeaseHolds(r)'
    BY <1>1, <1>2, <1>3 DEF Stays, RequestHolds, LeaseHolds
  <2>6. TrackedHolds(r)'
    BY <1>1, <1>2, <1>3 DEF Stays, RequestHolds, TrackedHolds, LiveWrite
  <2>7. SequencedHolds(r)'
    BY <1>1, <1>2, <1>3, <2>1 DEF Stays, RequestHolds, SequencedHolds
  <2> QED BY <2>1, <2>2, <2>3, <2>4, <2>5, <2>6, <2>7 DEF RequestHolds
<1>4. CASE Moves(r)
  <2>1. Sequenced(r)' => SequencedBefore(r)
    <3> SUFFICES ASSUME Sequenced(r)' PROVE SequencedBefore(r)
      OBVIOUS
    <3>1. prop[r].lai # 0 /\ prop[r].lai = prop'[r].lai
      BY <1>1, <1>2, <1>4 DEF Moves, Sequenced, RequestStates
    <3>2. ~prop[r].tok /\ prop[r].pc # "checked"
      BY <1>1, <3>1 DEF RequestHolds, TokenHolds
    <3> QED BY <1>2, <1>4, <3>1, <3>2 DEF Moves, Sequenced, SequencedBefore
  <2>2. RetryHolds(r)'
    BY <1>4, <2>1 DEF RetryHolds, Moves, SequencedBefore, Frame
  <2>3. AppliedHolds(r)'
    BY <1>1, <1>2, <1>4, <2>1 DEF RequestHolds, AppliedHolds, Moves, SequencedBefore
  <2>4. LeaseHolds(r)'
    BY <1>1, <1>2, <1>4 DEF RequestHolds, LeaseHolds, Moves
  <2>5. SequencedHolds(r)'
    BY <1>1, <1>2, <2>1 DEF RequestHolds, SequencedHolds, SequencedBefore
  <2> QED BY <1>4, <2>1, <2>2, <2>3, <2>4, <2>5 DEF RequestHolds, Moves
<1>5. CASE Starts(r)
  <2>1. ~Sequenced(r)'
    BY <1>1, <1>2, <1>5 DEF Starts, Sequenced
  <2>2. RetryHolds(r)'
    BY <1>5, <2>1 DEF RetryHolds, Starts
  <2>3. AppliedHolds(r)'
    BY <1>1, <1>2, <1>5 DEF RequestHolds, TokenHolds, AppliedHolds, Starts
  <2>4. SequencedHolds(r)'
    BY <2>1 DEF SequencedHolds
  <2> QED BY <1>5, <2>1, <2>2, <2>3, <2>4 DEF RequestHolds, Starts
<1>6. CASE Retries(r)
  <2>1. ~Sequenced(r)'
    BY <1>1, <1>2, <1>6 DEF Retries, Sequenced
  <2>2. RetryHolds(r)'
    BY <1>6, <2>1 DEF RetryHolds, Retries
  <2>3. AppliedHolds(r)'
    BY <1>1, <1>2, <1>6 DEF RequestHolds, AppliedHolds, Retries
  <2>4. SequencedHolds(r)'
    BY <2>1 DEF SequencedHolds
  <2>5. LeaseHolds(r)'
    BY <1>1, <1>2, <1>6 DEF RequestHolds, LeaseHolds, Retries
  <2> QED BY <1>6, <2>1, <2>2, <2>3, <2>4, <2>5 DEF RequestHolds, Retries
<1> QED BY <1>3, <1>4, <1>5, <1>6

LEMMA EntriesAreTyped == Types => Range(wire) \cup Range(flush.ents) \subseteq Entries
BY RangeFacts DEF Types, RaftTypes, LockTypes

LEMMA RequestsKept ==
  ASSUME Inv, Frame, Types', SlotsAreServed', SlotsHold',
         \A r \in Requests : Stays(r) \/ Moves(r) \/ Starts(r) \/ Retries(r)
  PROVE  Inv'
<1>1. Types /\ EntriesHold /\ OrderHolds /\ BoundsHold
  BY DEF Inv
<1>2. \A r \in Requests : RequestHolds(r)' /\ (Sequenced(r)' => SequencedBefore(r))
  BY RequestKept
<1>3. OrderHolds'
  BY <1>1, <1>2 DEF OrderHolds, InOrder, SequencedBefore
<1>4. BoundsHold'
  BY <1>1 DEF BoundsHold, Frame
<1>5. EntriesHold'
  <2> SUFFICES ASSUME NEW e \in Range(wire') \cup Range(flush'.ents)
               PROVE  EntryHolds(e)'
    BY DEF EntriesHold
  <2> SUFFICES ASSUME e \in Range(wire) \cup Range(flush.ents) PROVE EntryHolds(e)'
    BY DEF Frame
  <2>1. EntryHolds(e) /\ e \in Entries
    BY <1>1, EntriesAreTyped DEF EntriesHold, Frame
  <2>2. PICK r \in Requests : r = e.r
    BY <2>1 DEF Entries
  <2>3. RequestHolds(r) /\ prop[r] \in RequestStates /\ lease.seq \in Nat /\ applied.lai \in Nat
        /\ e.gen \in Nat /\ e.seq \in Nat
    BY <1>1, <2>1, RequestTypes DEF Inv, Entries
  <2>4. Dead(e)' <=> Dead(e)
    BY DEF Dead, Frame
  <2>5. CASE Stays(r)
    BY <2>1, <2>2, <2>4, <2>5 DEF Stays, EntryHolds
  <2>6. CASE Moves(r)
    BY <2>1, <2>2, <2>4, <2>6 DEF Moves, EntryHolds, Entry
  <2>7. CASE Starts(r)
    BY <2>1, <2>2, <2>7 DEF Starts, EntryHolds
  <2>8. CASE Retries(r)
    <3>1. prop[r].kind # "lease" /\ ~Sequenced(r) /\ ~prop[r].tok /\ prop[r].seq <= lease.seq
      BY <2>3, <2>8 DEF Retries, RequestHolds, RetryHolds, TokenHolds, LeaseHolds
    <3>2. e.gen = prop[r].gen => Dead(e)
      BY <2>1, <2>2, <2>3, <3>1 DEF EntryHolds, Entry, Sequenced, Dead, RequestStates
    <3>3. e.gen <= prop[r].gen /\ (e.gen < prop[r].gen => Dead(e))
      BY <2>1, <2>2 DEF EntryHolds
    <3>4. prop'[r].gen = prop[r].gen + 1 /\ prop[r].gen \in Nat
      BY <2>3, <2>8 DEF Retries, RequestStates
    <3>5. Dead(e) /\ e.gen < prop'[r].gen /\ e.gen <= prop'[r].gen /\ e.gen # prop'[r].gen
      BY <2>3, <3>2, <3>3, <3>4
    <3> QED BY <2>1, <2>2, <2>4, <2>8, <3>5 DEF EntryHolds, Retries
  <2> QED BY <2>5, <2>6, <2>7, <2>8
<1>6. ValidConstants'
  BY DEF Inv, ValidConstants
<1> QED BY <1>2, <1>3, <1>4, <1>5, <1>6 DEF Inv

-----------------------------------------------------------------------------
(* The slots of the buffer. *)

(* What a step may do to a request that is in slots. *)
KeepsSlots(r) ==
  \/ prop'[r] = prop[r]
  \/ prop[r].pc = "idle"
  \/ /\ prop'[r].pc # "idle" /\ prop'[r].gen = prop[r].gen
     /\ \/ prop'[r].seen /\ refresh' = <<>>
        \/ /\ prop'[r].seen = prop[r].seen
           /\ prop[r].pc = "buffered" => prop'[r].pc = "buffered" \/ Reinserted(r)'
           /\ Reinserted(r) => Reinserted(r)'
  \/ prop'[r].pc # "idle" /\ prop'[r].gen = prop[r].gen + 1 /\ ~Reinserted(r)

LEMMA SlotKept ==
  ASSUME Types, NEW slot \in Requests \X Nat, SlotHolds(slot), KeepsSlots(slot[1])
  PROVE  SlotHolds(slot)'
<1>1. PICK r \in Requests, g \in Nat : slot = <<r, g>>
  OBVIOUS
<1>2. slot[1] = r /\ slot[2] = g
  BY <1>1
<1>3. prop[r].gen \in Nat
  BY RequestTypes
<1>4. /\ prop[r].pc # "idle" /\ g <= prop[r].gen
      /\ g # prop[r].gen \/ prop[r].seen \/ prop[r].pc = "buffered" \/ Reinserted(r)
  BY <1>2 DEF SlotHolds, Seen, Superseded
<1>5. SUFFICES /\ prop'[r].pc # "idle" /\ g <= prop'[r].gen
               /\ g # prop'[r].gen \/ prop'[r].seen \/ prop'[r].pc = "buffered" \/ Reinserted(r)'
  BY <1>2 DEF SlotHolds, Seen, Superseded
<1>6. CASE prop'[r] = prop[r]
  BY <1>4, <1>6 DEF Reinserted
<1>7. CASE prop'[r].gen = prop[r].gen + 1 /\ prop'[r].pc # "idle"
  BY <1>3, <1>4, <1>7
<1> QED BY <1>2, <1>3, <1>4, <1>6, <1>7 DEF KeepsSlots

LEMMA SlotsKept ==
  ASSUME Types, SlotsHold, \A r \in Requests : KeepsSlots(r),
         Range(arr'.buf) \subseteq Range(arr.buf), Range(refresh') \subseteq Range(refresh)
  PROVE  SlotsHold'
<1>1. Range(arr.buf) \subseteq Requests \X Nat /\ Range(refresh) \subseteq Requests
  BY RangeFacts DEF Types, BufferTypes, LockTypes
<1>2. ASSUME NEW slot \in Range(arr'.buf) PROVE SlotHolds(slot)'
  <2>1. slot \in Requests \X Nat /\ SlotHolds(slot) /\ KeepsSlots(slot[1])
    BY <1>1 DEF SlotsHold
  <2> QED BY <2>1, SlotKept
<1>3. ASSUME NEW r \in Range(refresh') PROVE Reinserted(r)'
  <2>1. r \in Requests /\ Reinserted(r) /\ KeepsSlots(r) /\ refresh' # <<>>
    BY <1>1 DEF SlotsHold, Range
  <2>2. prop'[r] = prop[r] => Reinserted(r)'
    BY <2>1 DEF Reinserted
  <2>3. prop[r].pc # "idle"
    BY <2>1 DEF Reinserted
  <2> QED BY <2>1, <2>2, <2>3 DEF KeepsSlots
<1> QED BY <1>2, <1>3 DEF SlotsHold

(* A step that leaves the array and the requests that wait or flush alone. *)
LEMMA ServedKept ==
  ASSUME Types, SlotsAreServed, UNCHANGED <<lock, arr, updateCheck>>, destroyed => destroyed',
         flush'.owner = flush.owner, flush'.used = flush.used,
         \A r \in Requests : /\ prop[r].pc = "flush" => prop'[r].pc = "flush"
                             /\ prop'[r].pc = "wait" => prop[r].pc = "wait"
  PROVE  SlotsAreServed'
<1>1. WaitersAreWoken'
  BY DEF SlotsAreServed, WaitersAreWoken
<1>2. flush'.owner # Nobody => lock' = "flush" /\ prop'[flush'.owner].pc = "flush"
  BY DEF SlotsAreServed, Types, LockTypes
<1> QED BY <1>1, <1>2 DEF SlotsAreServed

(* A request with pc x at the only request that is changed. *)
LEMMA OneMoves ==
  ASSUME NEW r \in Requests, Types, NEW p, prop' = [prop EXCEPT ![r] = p],
         NEW t, tracked' = [tracked EXCEPT ![r] = t],
         \A q \in Requests : q # r =>
            (q \in proposals' <=> q \in proposals) /\ (applying' = applying \/ prop[q].pc # "retry")
  PROVE  /\ prop'[r] = p /\ tracked'[r] = t
         /\ \A q \in Requests : q # r => Stays(q) /\ prop'[q] = prop[q]
BY DEF Stays, Types, BufferTypes

-----------------------------------------------------------------------------
(* Evaluation and retries. *)

LEMMA FieldTypes ==
  ASSUME Types, NEW r \in Requests
  PROVE  /\ prop[r].wts \in Timestamps /\ prop[r].minTS \in Timestamps /\ prop[r].exp \in Timestamps
         /\ prop[r].closed \in Timestamps /\ prop[r].kind \in RequestKinds
         /\ prop[r].tok \in BOOLEAN /\ prop[r].seen \in BOOLEAN
         /\ tracked[r] \in Timestamps \cup {Untracked}
         /\ assigned.closed \in Timestamps /\ assigned.lai \in Nat
         /\ applied.closed \in Timestamps /\ published \in Timestamps
         /\ lease.start \in Timestamps /\ lease.exp \in Timestamps /\ lease.mine \in BOOLEAN
BY DEF Types, BufferTypes, LeaseTypes, RequestStates

LEMMA OneRequest ==
  ASSUME Inv, NEW r \in Requests,
         NEW p \in RequestStates, prop' = [prop EXCEPT ![r] = p],
         NEW t \in Timestamps \cup {Untracked}, tracked' = [tracked EXCEPT ![r] = t],
         UNCHANGED <<leaseVars, assigned, arr, proposals, updateCheck, wire, destroyed,
                     applications, lockVars>>,
         applying' = applying \/ (applying = r /\ applying' = Nobody),
         prop[r].pc # "flush", p.pc # "wait",
         KeepsSlots(r), Moves(r) \/ Starts(r) \/ Retries(r)
  PROVE  Inv'
<1>1. Types /\ SlotsAreServed /\ SlotsHold
  BY DEF Inv
<1>2. /\ prop'[r] = p /\ tracked'[r] = t
      /\ \A q \in Requests : q # r => Stays(q) /\ prop'[q] = prop[q]
  <2>1. \A q \in Requests : q # r => applying' = applying \/ prop[q].pc # "retry"
    BY DEF Inv, RequestHolds, RetryHolds
  <2> QED BY <1>1, <2>1, OneMoves
<1>3. Types'
  BY <1>1 DEF Types, LeaseTypes, BufferTypes, RaftTypes, LockTypes, leaseVars, lockVars
<1>4. SlotsAreServed'
  BY <1>1, <1>2, ServedKept DEF lockVars
<1>5. SlotsHold'
  <2>1. \A q \in Requests : KeepsSlots(q)
    BY <1>2 DEF KeepsSlots
  <2> QED BY <1>1, <2>1, SlotsKept DEF lockVars
<1>6. Frame
  BY DEF Frame, leaseVars, lockVars
<1> QED BY <1>2, <1>3, <1>4, <1>5, <1>6, RequestsKept

LEMMA CheckExecutionKeeps ==
  ASSUME Inv, NEW r \in Requests, CheckExecution(r)
  PROVE  Inv'
<1>1. PICK kind \in Kinds, ts \in Inputs :
        /\ kind = "lease" <=> ~lease.mine
        /\ prop' = [prop EXCEPT ![r] = [NewRequest EXCEPT !.pc = "checked", !.kind = kind,
                      !.seq = lease.seq, !.exp = lease.exp, !.wts = ts]]
  BY DEF CheckExecution
<1>2. /\ Types /\ RequestHolds(r) /\ SlotsAreServed /\ SlotsHold /\ ValidConstants
      /\ prop[r].pc = "idle"
  BY DEF Inv, CheckExecution
<1>3. UNCHANGED <<leaseVars, assigned, tracked, arr, proposals, updateCheck, raftVars, lockVars>>
  BY DEF CheckExecution
<1>4. PICK p : p = [NewRequest EXCEPT !.pc = "checked", !.kind = kind, !.seq = lease.seq,
                                      !.exp = lease.exp, !.wts = ts]
  OBVIOUS
<1>5. /\ p.pc = "checked" /\ p.kind = kind /\ p.seq = lease.seq /\ p.exp = lease.exp
      /\ ~p.tok /\ p.lai = 0 /\ p \in RequestStates
  <2>1. kind \in RequestKinds /\ ts \in Timestamps /\ lease.seq \in Nat /\ lease.exp \in Timestamps
    BY <1>2 DEF ValidConstants, RequestKinds, Types, LeaseTypes
  <2> QED BY <1>4, <2>1, EmptyFacts DEF NewRequest, RequestStates
<1>6. prop' = [prop EXCEPT ![r] = p] /\ tracked' = [tracked EXCEPT ![r] = tracked[r]]
  <2>1. prop' = [prop EXCEPT ![r] = p]
    BY <1>1, <1>4
  <2>2. tracked' = tracked /\ tracked \in [Requests -> Timestamps \cup {Untracked}]
    BY <1>2, <1>3 DEF Types, BufferTypes
  <2> QED BY <2>1, <2>2
<1>7. /\ prop'[r] = p /\ tracked'[r] = tracked[r]
      /\ \A q \in Requests : q # r => Stays(q) /\ prop'[q] = prop[q]
  <2>1. proposals' = proposals /\ applying' = applying
    BY <1>3 DEF raftVars
  <2> QED BY <1>2, <1>6, <2>1, OneMoves
<1>9. Starts(r)
  <2>1. LeaseHolds(r)'
    <3>1. lease' = lease /\ lease.seq \in Nat /\ lease.exp \in Timestamps /\ lease.exp.wall > 0
      BY <1>2, <1>3 DEF leaseVars, Types, LeaseTypes
    <3> QED BY <1>1, <1>5, <1>7, <3>1, OrderFacts DEF LeaseHolds
  <2>2. TokenHolds(r)'
    BY <1>2, <1>3, <1>5, <1>7 DEF TokenHolds, Inserting, RequestHolds
  <2>3. TrackedHolds(r)'
    BY <1>5, <1>7 DEF TrackedHolds, Inserting
  <2> QED BY <1>2, <1>5, <1>7, <2>1, <2>2, <2>3 DEF Starts
<1>10. KeepsSlots(r)
  BY <1>2 DEF KeepsSlots
<1>11. tracked[r] \in Timestamps \cup {Untracked}
  BY <1>2, FieldTypes
<1> QED BY <1>2, <1>3, <1>5, <1>6, <1>9, <1>10, <1>11, OneRequest DEF raftVars

LEMMA TrackKeeps ==
  ASSUME Inv, NEW r \in Requests, TrackEvaluatingRequest(r)
  PROVE  Inv'
<1> DEFINE minTS == NextTS(assigned.closed)
<1>1. /\ Types /\ RequestHolds(r) /\ SlotsAreServed /\ SlotsHold /\ ValidConstants
      /\ prop[r].pc = "checked" /\ prop[r] \in RequestStates
  BY RequestTypes DEF Inv, TrackEvaluatingRequest
<1>2. UNCHANGED <<leaseVars, assigned, arr, proposals, updateCheck, raftVars, lockVars>>
  BY DEF TrackEvaluatingRequest
<1>3. minTS \in Timestamps /\ Less(assigned.closed, minTS)
  BY <1>1, NextFacts, FieldTypes
<1>4. PICK p, t :
        /\ prop' = [prop EXCEPT ![r] = p] /\ tracked' = [tracked EXCEPT ![r] = t]
        /\ p \in RequestStates /\ p.pc = "evaluate" /\ p.tok
        /\ p.kind = prop[r].kind /\ p.seq = prop[r].seq /\ p.exp = prop[r].exp /\ p.wts = prop[r].wts
        /\ p.gen = prop[r].gen /\ p.seen = prop[r].seen /\ p.lai = prop[r].lai
        /\ p.closed = prop[r].closed
        /\ p.kind = "write" => p.minTS = minTS /\ t = Forward(prop[r].wts, minTS)
        /\ p.kind # "write" => t = tracked[r]
  <2>1. CASE prop[r].kind = "write"
    <3>1. prop' = [prop EXCEPT ![r].pc = "evaluate", ![r].minTS = minTS, ![r].tok = TRUE]
      BY <2>1 DEF TrackEvaluatingRequest
    <3>2. tracked' = [tracked EXCEPT ![r] = Forward(prop[r].wts, minTS)]
      BY <2>1 DEF TrackEvaluatingRequest
    <3> HIDE DEF minTS
    <3>3. prop' = [prop EXCEPT ![r] = [prop[r] EXCEPT !.pc = "evaluate", !.minTS = minTS, !.tok = TRUE]]
      BY <3>1
    <3> DEFINE pp == [prop[r] EXCEPT !.pc = "evaluate", !.minTS = minTS, !.tok = TRUE]
    <3>4. /\ pp \in RequestStates /\ pp.pc = "evaluate" /\ pp.tok
          /\ pp.kind = prop[r].kind /\ pp.seq = prop[r].seq /\ pp.exp = prop[r].exp /\ pp.wts = prop[r].wts
          /\ pp.gen = prop[r].gen /\ pp.seen = prop[r].seen /\ pp.lai = prop[r].lai
          /\ pp.closed = prop[r].closed /\ pp.minTS = minTS
      BY <1>1, <1>3 DEF RequestStates
    <3> HIDE DEF pp
    <3> QED BY <2>1, <3>2, <3>3, <3>4 DEF pp
  <2>2. CASE prop[r].kind # "write"
    <3>1. prop' = [prop EXCEPT ![r].pc = "evaluate", ![r].tok = TRUE] /\ tracked' = tracked
      BY <2>2 DEF TrackEvaluatingRequest
    <3>2. tracked' = [tracked EXCEPT ![r] = tracked[r]]
      BY <1>1, <3>1 DEF Types, BufferTypes
    <3>3. prop' = [prop EXCEPT ![r] = [prop[r] EXCEPT !.pc = "evaluate", !.tok = TRUE]]
      BY <3>1
    <3> DEFINE pp == [prop[r] EXCEPT !.pc = "evaluate", !.tok = TRUE]
    <3>4. /\ pp \in RequestStates /\ pp.pc = "evaluate" /\ pp.tok
          /\ pp.kind = prop[r].kind /\ pp.seq = prop[r].seq /\ pp.exp = prop[r].exp /\ pp.wts = prop[r].wts
          /\ pp.gen = prop[r].gen /\ pp.seen = prop[r].seen /\ pp.lai = prop[r].lai
          /\ pp.closed = prop[r].closed
      BY <1>1 DEF RequestStates
    <3> HIDE DEF pp
    <3> QED BY <2>2, <3>2, <3>3, <3>4 DEF pp
  <2> QED BY <2>1, <2>2
<1> HIDE DEF minTS
<1>5. t \in Timestamps \cup {Untracked} /\ (p.kind = "write" => t \in Timestamps /\ t # Untracked /\ Less(assigned.closed, t))
  <2>1. /\ prop[r].wts \in Timestamps /\ tracked[r] \in Timestamps \cup {Untracked}
        /\ assigned.closed \in Timestamps /\ Untracked \notin Timestamps
    BY <1>1, FieldTypes DEF ValidConstants
  <2>2. /\ Forward(prop[r].wts, minTS) \in Timestamps
        /\ LessEq(minTS, Forward(prop[r].wts, minTS))
    BY <1>3, <2>1, ForwardFacts
  <2>3. Less(assigned.closed, Forward(prop[r].wts, minTS))
    BY <1>3, <2>1, <2>2, OrderFacts
  <2> QED BY <1>4, <2>1, <2>2, <2>3
<1>6. /\ prop'[r] = p /\ tracked'[r] = t
      /\ \A q \in Requests : q # r => Stays(q) /\ prop'[q] = prop[q]
  <2>1. proposals' = proposals /\ applying' = applying
    BY <1>2 DEF raftVars
  <2> QED BY <1>1, <1>4, <2>1, OneMoves
<1>8. Moves(r)
  <2>1. TokenHolds(r)'
    BY <1>1, <1>2, <1>4, <1>6 DEF TokenHolds, Inserting, RequestHolds
  <2>2. TrackedHolds(r)'
    <3>1. p.kind = "write" => t = Forward(p.wts, p.minTS)
      BY <1>4
    <3> QED BY <1>2, <1>4, <1>5, <1>6, <3>1 DEF TrackedHolds, Inserting, LiveWrite
  <2>3. ~Sequenced(r)
    BY <1>1, RequestTypes DEF Sequenced, RequestHolds, TokenHolds
  <2> QED BY <1>1, <1>4, <1>6, <2>1, <2>2, <2>3 DEF Moves
<1>9. KeepsSlots(r)
  BY <1>1, <1>4, <1>6 DEF KeepsSlots, Reinserted
<1> QED BY <1>1, <1>2, <1>4, <1>5, <1>8, <1>9, OneRequest DEF raftVars

LEMMA EvaluateKeeps ==
  ASSUME Inv, NEW r \in Requests, Evaluate(r)
  PROVE  Inv'
<1> DEFINE w == IF prop[r].kind = "write" THEN WriteTimestamp(prop[r]) ELSE prop[r].wts
<1>1. /\ Types /\ RequestHolds(r) /\ ValidConstants /\ prop[r].pc = "evaluate" /\ prop[r].tok
      /\ prop[r] \in RequestStates
  BY RequestTypes DEF Inv, Evaluate, RequestHolds, TokenHolds
<1>2. UNCHANGED <<leaseVars, assigned, tracked, arr, proposals, updateCheck, raftVars, lockVars>>
  BY DEF Evaluate
<1>3. tracked' = [tracked EXCEPT ![r] = tracked[r]] /\ tracked[r] \in Timestamps \cup {Untracked}
  BY <1>1, <1>2 DEF Types, BufferTypes
<1>4. /\ w \in Timestamps
      /\ prop[r].kind = "write" =>
           LessEq(Forward(prop[r].wts, prop[r].minTS), w) /\ Less(lease.start, w)
  <2>1. /\ prop[r].wts \in Timestamps /\ prop[r].minTS \in Timestamps /\ lease.start \in Timestamps
        /\ NextTS(lease.start) \in Timestamps /\ Less(lease.start, NextTS(lease.start))
    BY <1>1, FieldTypes, NextFacts
  <2>2. Forward(prop[r].wts, prop[r].minTS) \in Timestamps
    BY <2>1, ForwardFacts
  <2>3. PICK f \in Timestamps, n \in Timestamps :
          f = Forward(prop[r].wts, prop[r].minTS) /\ n = NextTS(lease.start)
    BY <2>1, <2>2
  <2>4. Forward(f, n) \in Timestamps /\ LessEq(f, Forward(f, n)) /\ LessEq(n, Forward(f, n))
    BY ForwardFacts
  <2>5. Less(lease.start, Forward(f, n))
    BY <2>1, <2>3, <2>4, OrderFacts
  <2>6. WriteTimestamp(prop[r]) = Forward(f, n)
    BY <2>3 DEF WriteTimestamp
  <2> QED BY <2>1, <2>3, <2>4, <2>5, <2>6
<1> HIDE DEF w
<1>5. PICK p \in RequestStates :
        /\ prop' = [prop EXCEPT ![r] = p] /\ p.tok
        /\ p.kind = prop[r].kind /\ p.seq = prop[r].seq /\ p.exp = prop[r].exp
        /\ p.gen = prop[r].gen /\ p.seen = prop[r].seen /\ p.lai = prop[r].lai
        /\ p.closed = prop[r].closed
        /\ p.pc = "fail" \/ (p.pc = "insert" /\ p.wts = w)
  <2>1. CASE prop' = [prop EXCEPT ![r].pc = "fail"]
    <3>1. prop' = [prop EXCEPT ![r] = [prop[r] EXCEPT !.pc = "fail"]]
      BY <2>1
    <3>2. [prop[r] EXCEPT !.pc = "fail"] \in RequestStates
      BY <1>1 DEF RequestStates
    <3> QED BY <1>1, <3>1, <3>2 DEF RequestStates
  <2>2. CASE prop' = [prop EXCEPT ![r].pc = "insert", ![r].wts = IF prop[r].kind = "write"
                                                              THEN WriteTimestamp(prop[r])
                                                              ELSE @]
    <3>1. prop' = [prop EXCEPT ![r] = [prop[r] EXCEPT !.pc = "insert", !.wts = w]]
      BY <2>2 DEF w
    <3>2. [prop[r] EXCEPT !.pc = "insert", !.wts = w] \in RequestStates
      BY <1>1, <1>4 DEF RequestStates, Inserting
    <3> QED BY <1>1, <3>1, <3>2 DEF RequestStates
  <2> QED BY <2>1, <2>2 DEF Evaluate
<1>6. prop'[r] = p /\ tracked'[r] = tracked[r]
  BY <1>1, <1>3, <1>5 DEF Types, BufferTypes
<1>7. TokenHolds(r)'
  BY <1>1, <1>2, <1>5, <1>6 DEF TokenHolds, Inserting, RequestHolds
<1>8. TrackedHolds(r)'
  BY <1>1, <1>2, <1>4, <1>5, <1>6 DEF TrackedHolds, Inserting, LiveWrite, RequestHolds, leaseVars
<1>9. ~Sequenced(r)
  BY <1>1 DEF Sequenced
<1>10. Moves(r)
  BY <1>1, <1>5, <1>6, <1>7, <1>8, <1>9 DEF Moves
<1>11. KeepsSlots(r)
  BY <1>1, <1>5, <1>6 DEF KeepsSlots, Reinserted
<1> QED BY <1>1, <1>2, <1>3, <1>5, <1>10, <1>11, OneRequest DEF raftVars

LEMMA DoneKeeps ==
  ASSUME Inv, NEW r \in Requests, DoneIfNotMoved(r)
  PROVE  Inv'
<1>1. /\ Types /\ RequestHolds(r) /\ prop[r].pc = "fail" /\ prop[r] \in RequestStates
  BY RequestTypes DEF Inv, DoneIfNotMoved
<1>2. /\ UNCHANGED <<leaseVars, assigned, arr, proposals, updateCheck, wire, destroyed,
                      applications, lockVars>>
      /\ applying' = applying \/ (applying = r /\ applying' = Nobody)
      /\ tracked' = [tracked EXCEPT ![r] = Untracked]
  BY DEF DoneIfNotMoved
<1>3. PICK p \in RequestStates :
        /\ prop' = [prop EXCEPT ![r] = p] /\ ~p.tok /\ p.pc = "done"
        /\ p.kind = prop[r].kind /\ p.seq = prop[r].seq /\ p.exp = prop[r].exp
        /\ p.gen = prop[r].gen /\ p.seen = prop[r].seen /\ p.lai = prop[r].lai
        /\ p.closed = prop[r].closed /\ p.wts = prop[r].wts
  <2>1. prop' = [prop EXCEPT ![r] = [prop[r] EXCEPT !.pc = "done", !.tok = FALSE]]
    BY DEF DoneIfNotMoved
  <2>2. [prop[r] EXCEPT !.pc = "done", !.tok = FALSE] \in RequestStates
    BY <1>1 DEF RequestStates
  <2> QED BY <1>1, <2>1, <2>2 DEF RequestStates
<1>4. prop'[r] = p /\ tracked'[r] = Untracked
  BY <1>1, <1>2, <1>3 DEF Types, BufferTypes
<1>5. TokenHolds(r)'
  BY <1>1, <1>2, <1>3, <1>4 DEF TokenHolds, Inserting, RequestHolds
<1>6. TrackedHolds(r)'
  BY <1>3, <1>4 DEF TrackedHolds, Inserting
<1>7. Moves(r)
  BY <1>1, <1>3, <1>4, <1>5, <1>6 DEF Moves, RequestHolds, RetryHolds
<1>8. KeepsSlots(r)
  BY <1>1, <1>3, <1>4 DEF KeepsSlots, Reinserted
<1> QED BY <1>1, <1>2, <1>3, <1>7, <1>8, OneRequest

LEMMA TryReproposeKeeps ==
  ASSUME Inv, NEW r \in Requests, TryRepropose(r)
  PROVE  Inv'
<1> DEFINE minTS == NextTS(assigned.closed)
<1>1. /\ Types /\ RequestHolds(r) /\ ValidConstants /\ prop[r].pc = "retry"
      /\ prop[r] \in RequestStates /\ ~prop[r].tok /\ ~Sequenced(r)
  BY RequestTypes DEF Inv, TryRepropose, RequestHolds, TokenHolds, RetryHolds
<1>2. /\ UNCHANGED <<leaseVars, assigned, arr, proposals, updateCheck, raftVars, lockVars>>
      /\ tracked' = [tracked EXCEPT ![r] = Forward(prop[r].wts, minTS)]
  BY DEF TryRepropose
<1>3. /\ minTS \in Timestamps /\ Less(assigned.closed, minTS) /\ prop[r].wts \in Timestamps
      /\ assigned.closed \in Timestamps
  BY <1>1, NextFacts, FieldTypes
<1> HIDE DEF minTS
<1>4. PICK t \in Timestamps : t = Forward(prop[r].wts, minTS)
  BY <1>3, ForwardFacts
<1>5. CASE TooLow(prop[r], minTS)
  <2>1. prop' = [prop EXCEPT ![r] = [prop[r] EXCEPT !.pc = "fail"]]
    BY <1>5 DEF TryRepropose, minTS
  <2>2. [prop[r] EXCEPT !.pc = "fail"] \in RequestStates
    BY <1>1 DEF RequestStates
  <2>3. PICK p \in RequestStates :
          /\ prop' = [prop EXCEPT ![r] = p] /\ ~p.tok /\ p.pc = "fail"
          /\ p.kind = prop[r].kind /\ p.seq = prop[r].seq /\ p.exp = prop[r].exp
          /\ p.gen = prop[r].gen /\ p.seen = prop[r].seen /\ p.lai = prop[r].lai
          /\ p.closed = prop[r].closed /\ p.wts = prop[r].wts
    BY <1>1, <2>1, <2>2 DEF RequestStates
  <2>4. prop'[r] = p /\ tracked'[r] = t
    BY <1>1, <1>2, <1>4, <2>3 DEF Types, BufferTypes
  <2>5. TokenHolds(r)'
    BY <1>1, <1>2, <2>3, <2>4 DEF TokenHolds, Inserting, RequestHolds
  <2>6. TrackedHolds(r)'
    BY <2>3, <2>4 DEF TrackedHolds, Inserting
  <2>7. Moves(r)
    BY <1>1, <2>3, <2>4, <2>5, <2>6 DEF Moves
  <2>8. KeepsSlots(r)
    BY <1>1, <2>3, <2>4 DEF KeepsSlots, Reinserted
  <2> QED BY <1>1, <1>2, <1>4, <2>3, <2>7, <2>8, OneRequest DEF raftVars
<1>6. CASE ~TooLow(prop[r], minTS)
  <2> DEFINE pp == [prop[r] EXCEPT !.pc = "insert", !.gen = prop[r].gen + 1, !.tok = TRUE,
                                   !.seen = FALSE, !.lai = 0, !.closed = EmptyTS]
  <2>1. prop' = [prop EXCEPT ![r] = pp]
    <3>1. prop' = [prop EXCEPT ![r] =
            IF TooLow(prop[r], minTS)
              THEN [prop[r] EXCEPT !.pc = "fail"]
              ELSE [prop[r] EXCEPT !.pc = "insert", !.gen = prop[r].gen + 1, !.tok = TRUE,
                                   !.seen = FALSE, !.lai = 0, !.closed = EmptyTS]]
      BY Zenon DEF TryRepropose, minTS
    <3> QED BY <1>6, <3>1
  <2>2. pp \in RequestStates
    <3>1. prop[r].gen + 1 \in Nat /\ EmptyTS \in Timestamps
      BY <1>1, RequestTypes, EmptyFacts
    <3> QED BY <1>1, <3>1 DEF RequestStates, Inserting
  <2>3. /\ pp.pc = "insert" /\ pp.tok /\ pp.lai = 0 /\ pp.gen = prop[r].gen + 1
        /\ pp.kind = prop[r].kind /\ pp.seq = prop[r].seq /\ pp.exp = prop[r].exp
        /\ pp.wts = prop[r].wts
    BY <1>1 DEF RequestStates
  <2>4. PICK p \in RequestStates :
          /\ prop' = [prop EXCEPT ![r] = p]
          /\ p.pc = "insert" /\ p.tok /\ p.lai = 0 /\ p.gen = prop[r].gen + 1
          /\ p.kind = prop[r].kind /\ p.seq = prop[r].seq /\ p.exp = prop[r].exp
          /\ p.wts = prop[r].wts
    <3> HIDE DEF pp
    <3> QED BY <2>1, <2>2, <2>3
  <2>5. prop'[r] = p /\ tracked'[r] = t
    BY <1>1, <1>2, <1>4, <2>4 DEF Types, BufferTypes
  <2>6. TokenHolds(r)'
    BY <1>1, <1>2, <2>4, <2>5 DEF TokenHolds, Inserting, RequestHolds
  <2>7. TrackedHolds(r)'
    <3> SUFFICES ASSUME LiveWrite(r)' PROVE TrackedHolds(r)'
      BY DEF TrackedHolds
    <3>1. LiveWrite(r) /\ Less(lease.start, prop[r].wts)
      <4>1. LiveWrite(r)
        BY <1>2, <2>4, <2>5 DEF LiveWrite, leaseVars
      <4> QED BY <1>1, <4>1 DEF RequestHolds, TrackedHolds
    <3>2. ~LessEq(prop[r].wts, minTS)
      BY <1>6, <3>1 DEF TooLow, LiveWrite
    <3>3. LessEq(minTS, prop[r].wts) /\ t = prop[r].wts
      BY <1>3, <1>4, <3>2, OrderFacts DEF Forward
    <3>4. Less(assigned.closed, prop[r].wts) /\ LessEq(t, prop[r].wts)
      BY <1>3, <3>3, OrderFacts
    <3>5. t # Untracked
      BY <1>1 DEF ValidConstants
    <3> QED BY <1>2, <2>4, <2>5, <3>1, <3>3, <3>4, <3>5 DEF TrackedHolds, Inserting, leaseVars
  <2>8. Retries(r)
    BY <1>1, <2>4, <2>5, <2>6, <2>7 DEF Retries
  <2>9. KeepsSlots(r)
    BY <1>1, <2>4, <2>5 DEF KeepsSlots, Reinserted
  <2> QED BY <1>1, <1>2, <1>4, <2>4, <2>8, <2>9, OneRequest DEF raftVars
<1> QED BY <1>5, <1>6

-----------------------------------------------------------------------------
(* Insertion and the flush. *)

LEMMA AllStay ==
  ASSUME Inv, Types', SlotsAreServed', SlotsHold',
         UNCHANGED <<leaseVars, assigned, prop, tracked, proposals, applying, applications>>,
         destroyed => destroyed',
         Range(wire') \cup Range(flush'.ents) \subseteq Range(wire) \cup Range(flush.ents)
  PROVE  Inv'
<1>1. Frame
  BY DEF Frame, leaseVars
<1>2. \A r \in Requests : Stays(r)
  BY DEF Stays
<1> QED BY <1>1, <1>2, RequestsKept

LEMMA RequestsUntouched ==
  ASSUME UNCHANGED prop
  PROVE  \A r \in Requests : KeepsSlots(r)
BY DEF KeepsSlots

LEMMA WithProposalFacts ==
  ASSUME Types, NEW r \in Requests, arr' = WithProposal(r)
  PROVE  /\ arr' \in [buf : Seq(Requests \X Nat), alloc : Nat, size : Nat \ {0}, shrink : Nat]
         /\ arr'.alloc = arr.alloc + 1 /\ arr'.size = arr.size
         /\ Range(arr'.buf) = Range(arr.buf) \cup {<<r, prop[r].gen>>}
<1>1. /\ arr \in [buf : Seq(Requests \X Nat), alloc : Nat, size : Nat \ {0}, shrink : Nat]
      /\ <<r, prop[r].gen>> \in Requests \X Nat
  BY RequestTypes DEF Types, BufferTypes
<1>2. PICK x \in Requests \X Nat, b \in Seq(Requests \X Nat) : x = <<r, prop[r].gen>> /\ b = arr.buf
  BY <1>1
<1>3. Append(b, x) \in Seq(Requests \X Nat) /\ Range(Append(b, x)) = Range(b) \cup {x}
  BY RangeFacts
<1>4. PICK n \in Nat, c \in Seq(Requests \X Nat) : n = arr.alloc + 1 /\ c = Append(b, x)
  <2>1. arr.alloc + 1 \in Nat
    BY <1>1
  <2> QED BY <1>3, <2>1
<1>5. arr' = [arr EXCEPT !.buf = c, !.alloc = n]
  BY <1>2, <1>4 DEF WithProposal
<1>6. /\ arr' \in [buf : Seq(Requests \X Nat), alloc : Nat, size : Nat \ {0}, shrink : Nat]
      /\ arr'.alloc = n /\ arr'.size = arr.size /\ arr'.buf = c
  BY <1>1, <1>5
<1> QED BY <1>2, <1>3, <1>4, <1>6

(* A proposal for r takes a slot. *)
LEMMA SlotAdded ==
  ASSUME Types, SlotsHold, SlotsAreServed, lock # "flush", NEW r \in Requests,
         arr.alloc < arr.size, arr' = WithProposal(r),
         updateCheck' = CheckScheduled, \A q \in Requests : KeepsSlots(q),
         prop'[r].gen = prop[r].gen, prop'[r].pc = "buffered" \/ Reinserted(r)',
         Range(refresh') \subseteq Range(refresh),
         \A q \in Requests : prop'[q].pc = "wait" => prop[q].pc = "wait",
         flush' = flush, lock' # "flush"
  PROVE  SlotsHold' /\ SlotsAreServed'
<1>1. /\ arr.alloc \in Nat /\ arr.size \in Nat /\ prop[r].gen \in Nat
      /\ Range(arr.buf) \subseteq Requests \X Nat /\ Range(refresh) \subseteq Requests
  BY RangeFacts, RequestTypes DEF Types, BufferTypes, LockTypes
<1>2. /\ arr'.alloc = arr.alloc + 1 /\ arr'.size = arr.size
      /\ Range(arr'.buf) = Range(arr.buf) \cup {<<r, prop[r].gen>>}
  BY WithProposalFacts
<1>3. ASSUME NEW slot \in Range(arr'.buf) PROVE SlotHolds(slot)'
  <2>1. CASE slot \in Range(arr.buf)
    <3>1. slot \in Requests \X Nat /\ SlotHolds(slot) /\ KeepsSlots(slot[1])
      BY <1>1, <2>1 DEF SlotsHold
    <3> QED BY <3>1, SlotKept
  <2>2. CASE slot = <<r, prop[r].gen>>
    <3>1. slot[1] = r /\ slot[2] = prop[r].gen
      BY <2>2
    <3>2. prop'[r].pc # "idle" /\ prop[r].gen <= prop'[r].gen
      BY <1>1 DEF Reinserted
    <3> QED BY <3>1, <3>2 DEF SlotHolds
  <2> QED BY <1>2, <2>1, <2>2
<1>4. ASSUME NEW q \in Range(refresh') PROVE Reinserted(q)'
  <2>0. Range(<<>>) = {}
    BY DEF Range
  <2>1. q \in Requests /\ Reinserted(q) /\ KeepsSlots(q) /\ refresh' # <<>>
    BY <1>1, <2>0 DEF SlotsHold
  <2>2. prop'[q] = prop[q] => Reinserted(q)'
    BY <2>1 DEF Reinserted
  <2>3. prop[q].pc # "idle"
    BY <2>1 DEF Reinserted
  <2> QED BY <2>1, <2>2, <2>3 DEF KeepsSlots
<1>5. updateCheck'
  <2>1. updateCheck \/ arr.alloc = 0
    BY <1>1 DEF SlotsAreServed
  <2> QED BY <2>1 DEF CheckScheduled
<1>6. ~(arr'.alloc > arr'.size) /\ ~(arr.alloc > arr.size)
  BY <1>1, <1>2
<1>7. WaitersAreWoken'
  BY <1>6 DEF SlotsAreServed, WaitersAreWoken
<1>8. flush.owner = Nobody
  BY DEF SlotsAreServed
<1>9. SlotsAreServed'
  BY <1>5, <1>6, <1>7, <1>8 DEF SlotsAreServed
<1> QED BY <1>3, <1>4, <1>9 DEF SlotsHold

(* A request goes on with the command it has: only its pc changes. *)
LEMMA PcMoves ==
  ASSUME Types, NEW r \in Requests, NEW x,
         x \in {"evaluate", "registered", "fail", "done"} \cup Inserting,
         NEW p, p = [prop[r] EXCEPT !.pc = x]
  PROVE  /\ p \in RequestStates /\ p.pc = x
         /\ p.kind = prop[r].kind /\ p.seq = prop[r].seq /\ p.exp = prop[r].exp
         /\ p.gen = prop[r].gen /\ p.seen = prop[r].seen /\ p.lai = prop[r].lai
         /\ p.closed = prop[r].closed /\ p.wts = prop[r].wts /\ p.tok = prop[r].tok
<1>1. prop[r] \in RequestStates
  BY RequestTypes
<1> QED BY <1>1 DEF RequestStates

(* A request with a token that goes from one place to another where it     *)
(* wants a slot, or has one, or fails.                                     *)
LEMMA InsertingMoves ==
  ASSUME Inv, NEW r \in Requests, prop[r].pc \in Inserting,
         NEW x \in Inserting \cup {"fail"}, prop'[r] = [prop[r] EXCEPT !.pc = x],
         tracked'[r] = tracked[r], r \in proposals' <=> r \in proposals,
         UNCHANGED <<lease, assigned, applications>>
  PROVE  /\ Moves(r)
         /\ prop[r].pc # "buffered" => KeepsSlots(r)
<1>1. Types /\ RequestHolds(r) /\ prop[r].tok
  BY DEF Inv, RequestHolds, TokenHolds
<1>2. PICK p : p = [prop[r] EXCEPT !.pc = x]
  OBVIOUS
<1>3. /\ p \in RequestStates /\ p.pc = x
      /\ p.kind = prop[r].kind /\ p.seq = prop[r].seq /\ p.exp = prop[r].exp
      /\ p.gen = prop[r].gen /\ p.seen = prop[r].seen /\ p.lai = prop[r].lai
      /\ p.closed = prop[r].closed /\ p.wts = prop[r].wts /\ p.tok = prop[r].tok
  <2>1. x \in {"evaluate", "registered", "fail", "done"} \cup Inserting
    OBVIOUS
  <2>2. prop[r] \in RequestStates
    BY <1>1, RequestTypes
  <2> QED BY <1>2, <2>1, <2>2 DEF RequestStates
<1>4. prop'[r] = p
  BY <1>2
<1>5. TokenHolds(r)'
  BY <1>1, <1>3, <1>4 DEF TokenHolds, Inserting, RequestHolds
<1>6. TrackedHolds(r)'
  BY <1>1, <1>3, <1>4 DEF TrackedHolds, Inserting, LiveWrite, RequestHolds
<1>7. ~Sequenced(r)
  BY <1>1 DEF Sequenced
<1>8. Moves(r)
  BY <1>1, <1>3, <1>4, <1>5, <1>6, <1>7 DEF Moves, Inserting
<1>9. prop[r].pc # "buffered" => KeepsSlots(r)
  BY <1>3, <1>4 DEF KeepsSlots, Reinserted, Inserting
<1> QED BY <1>8, <1>9

LEMMA InsertKeeps ==
  ASSUME Inv, NEW r \in Requests, Insert(r)
  PROVE  Inv'
<1>1. /\ Types /\ SlotsAreServed /\ SlotsHold /\ RequestHolds(r)
      /\ prop[r].pc = "insert" /\ lock = "free" /\ prop \in [Requests -> RequestStates]
      /\ tracked \in [Requests -> Timestamps \cup {Untracked}]
  BY DEF Inv, Insert, Types, BufferTypes
<1>2. UNCHANGED <<leaseVars, assigned, tracked, proposals, wire, destroyed, applications, lockVars>>
  BY DEF Insert
<1>3. PICK x \in Inserting \cup {"fail"} :
        /\ prop' = [prop EXCEPT ![r] = [prop[r] EXCEPT !.pc = x]] /\ x # "insert"
        /\ \/ x = "fail" /\ destroyed /\ UNCHANGED <<arr, updateCheck, applying>>
           \/ /\ x = "buffered" /\ ~destroyed /\ arr.alloc < arr.size
              /\ arr' = WithProposal(r) /\ updateCheck' = CheckScheduled
              /\ applying' = IF applying = r THEN Nobody ELSE applying
           \/ /\ x \in {"flush", "wait"} /\ ~destroyed /\ arr.alloc >= arr.size
              /\ x = "flush" <=> arr.alloc = arr.size
              /\ arr' = [arr EXCEPT !.alloc = arr.alloc + 1]
              /\ UNCHANGED <<updateCheck, applying>>
  <2>1. CASE /\ destroyed /\ prop' = [prop EXCEPT ![r].pc = "fail"]
             /\ UNCHANGED <<arr, updateCheck, applying>>
    BY <2>1
  <2>2. CASE /\ ~destroyed /\ arr.alloc < arr.size /\ arr' = WithProposal(r)
             /\ updateCheck' = CheckScheduled
             /\ prop' = [prop EXCEPT ![r].pc = "buffered"]
             /\ applying' = IF applying = r THEN Nobody ELSE applying
    BY <2>2 DEF Inserting
  <2>3. CASE /\ ~destroyed /\ arr.alloc >= arr.size
             /\ arr' = [arr EXCEPT !.alloc = @ + 1]
             /\ prop' = [prop EXCEPT ![r].pc = IF arr.alloc = arr.size THEN "flush" ELSE "wait"]
             /\ UNCHANGED <<updateCheck, applying>>
    BY <2>3 DEF Inserting
  <2> QED BY <2>1, <2>2, <2>3 DEF Insert
<1>4. /\ prop'[r] = [prop[r] EXCEPT !.pc = x]
      /\ \A q \in Requests : q # r => prop'[q] = prop[q]
  BY <1>1, <1>3
<1>5. prop'[r] \in RequestStates /\ prop'[r].pc = x /\ prop'[r].gen = prop[r].gen
  <2>1. PICK p : p = [prop[r] EXCEPT !.pc = x]
    OBVIOUS
  <2> QED BY <1>1, <1>4, <2>1, PcMoves
<1>6. Moves(r) /\ KeepsSlots(r)
  BY <1>1, <1>2, <1>4, InsertingMoves DEF Inserting, leaseVars
<1>7. \A q \in Requests : KeepsSlots(q)
  BY <1>4, <1>6 DEF KeepsSlots
<1>8. \A q \in Requests : q # r => Stays(q)
  <2>1. ASSUME NEW q \in Requests, q # r PROVE applying' = applying \/ prop[q].pc # "retry"
    <3>1. prop[q].pc = "retry" => applying = q
      BY DEF Inv, RequestHolds, RetryHolds
    <3> QED BY <1>3, <2>1, <3>1
  <2> QED BY <1>2, <1>4, <2>1 DEF Stays
<1>9. Types'
  <2>1. arr' \in [buf : Seq(Requests \X Nat), alloc : Nat, size : Nat \ {0}, shrink : Nat]
    <3>1. arr \in [buf : Seq(Requests \X Nat), alloc : Nat, size : Nat \ {0}, shrink : Nat]
      BY <1>1 DEF Types, BufferTypes
    <3>2. CASE arr' = [arr EXCEPT !.alloc = arr.alloc + 1]
      <4>1. arr.alloc + 1 \in Nat
        BY <3>1
      <4> QED BY <3>1, <3>2, <4>1
    <3> QED BY <1>1, <1>3, <3>1, <3>2, WithProposalFacts
  <2>2. applying' \in Requests \cup {Nobody}
    BY <1>1, <1>3 DEF Types, RaftTypes
  <2>3. updateCheck' \in BOOLEAN
    BY <1>1, <1>3 DEF Types, BufferTypes, CheckScheduled
  <2>4. prop' \in [Requests -> RequestStates]
    BY <1>1, <1>3, <1>4, <1>5
  <2> QED BY <1>1, <1>2, <2>1, <2>2, <2>3, <2>4
          DEF Types, LeaseTypes, BufferTypes, RaftTypes, LockTypes, leaseVars, lockVars
<1>10. Frame
  BY <1>2 DEF Frame, leaseVars, lockVars
<1>11. SlotsHold' /\ SlotsAreServed'
  <2>1. CASE x = "buffered"
    <3>1. arr.alloc < arr.size /\ arr' = WithProposal(r) /\ updateCheck' = CheckScheduled
      BY <1>3, <2>1
    <3>2. \A q \in Requests : prop'[q].pc = "wait" => prop[q].pc = "wait"
      BY <1>4, <1>5, <2>1
    <3> QED BY <1>1, <1>2, <1>5, <1>7, <2>1, <3>1, <3>2, SlotAdded DEF lockVars
  <2>2. CASE x = "fail"
    <3>1. UNCHANGED <<lock, arr, updateCheck, flush, refresh>> /\ (destroyed => destroyed')
      BY <1>2, <1>3, <2>2 DEF lockVars
    <3>2. SlotsHold'
      BY <1>1, <1>7, <3>1, SlotsKept
    <3>3. SlotsAreServed'
      BY <1>1, <1>4, <1>5, <2>2, <3>1, ServedKept
    <3> QED BY <3>2, <3>3
  <2>3. CASE x \in {"flush", "wait"}
    <3>1. /\ arr.alloc >= arr.size /\ (x = "flush" <=> arr.alloc = arr.size)
          /\ arr' = [arr EXCEPT !.alloc = arr.alloc + 1] /\ UNCHANGED <<updateCheck, lock, flush, refresh>>
          /\ destroyed' = destroyed
      BY <1>2, <1>3, <2>3 DEF lockVars
    <3>2. /\ arr'.alloc = arr.alloc + 1 /\ arr'.size = arr.size /\ arr'.buf = arr.buf
          /\ arr.alloc \in Nat /\ arr.size \in Nat \ {0}
      BY <1>1, <3>1 DEF Types, BufferTypes
    <3>3. SlotsHold'
      BY <1>1, <1>7, <3>1, <3>2, SlotsKept
    <3>4. destroyed \/ \E q \in Requests : prop'[q].pc = "flush"
      <4>1. CASE x = "flush"
        BY <1>5, <4>1
      <4>2. CASE x # "flush"
        <5>1. arr.alloc > arr.size
          BY <3>1, <3>2, <4>2
        <5>2. destroyed \/ \E q \in Requests : prop[q].pc = "flush"
          BY <1>1, <5>1 DEF SlotsAreServed
        <5> QED BY <1>1, <1>4, <5>2
      <4> QED BY <4>1, <4>2
    <3>5. ~destroyed /\ arr'.alloc > arr'.size /\ arr.alloc > 0
      BY <1>3, <2>3, <3>1, <3>2
    <3>6. WaitersAreWoken'
      BY <3>4, <3>5 DEF WaitersAreWoken
    <3>7. flush.owner = Nobody /\ updateCheck
      BY <1>1, <3>5 DEF SlotsAreServed
    <3>8. SlotsAreServed'
      BY <1>1, <3>1, <3>4, <3>6, <3>7 DEF SlotsAreServed
    <3> QED BY <3>3, <3>8
  <2> QED BY <1>3, <2>1, <2>2, <2>3
<1> QED BY <1>6, <1>8, <1>9, <1>10, <1>11, RequestsKept

LEMMA BroadcastFacts ==
  ASSUME Types
  PROVE  \A r \in Requests :
           Broadcast(prop)[r] = IF prop[r].pc = "wait" THEN [prop[r] EXCEPT !.pc = "insert"]
                                                       ELSE prop[r]
BY DEF Broadcast

LEMMA NoFlushFacts ==
  /\ NoFlush \in [owner : {Nobody}, i : Nat, used : Nat, target : Timestamps, ents : Seq(Entries)]
  /\ NoFlush.ents = <<>>
<1>1. PICK none \in Seq(Entries) : none = <<>>
  <2>1. <<>> \in Seq(Entries)
    OBVIOUS
  <2> QED BY <2>1
<1>2. PICK t \in Timestamps : t = EmptyTS
  BY EmptyFacts
<1>3. NoFlush = [owner |-> Nobody, i |-> 0, used |-> 0, target |-> t, ents |-> none]
  BY <1>1, <1>2 DEF NoFlush
<1>4. /\ NoFlush \in [owner : {Nobody}, i : Nat, used : Nat, target : Timestamps, ents : Seq(Entries)]
      /\ NoFlush.ents = none
  BY <1>3
<1> QED BY <1>1, <1>4

(* A flush begins, of whatever the array holds. *)
LEMMA FlushBegins ==
  ASSUME Inv, NEW owner \in Requests \cup {Nobody}, NEW used \in Nat, NEW target \in Targets,
         flush' = [NoFlush EXCEPT !.owner = owner, !.i = 1, !.used = used, !.target = target],
         arr' = [arr EXCEPT !.alloc = 0], lock' = "flush", lock # "flush", used >= arr.alloc,
         updateCheck' \in BOOLEAN,
         owner # Nobody => prop[owner].pc = "flush",
         UNCHANGED <<leaseVars, assigned, prop, tracked, proposals, raftVars, refresh>>
  PROVE  Inv'
<1>1. /\ Types /\ SlotsAreServed /\ SlotsHold /\ ValidConstants
      /\ arr \in [buf : Seq(Requests \X Nat), alloc : Nat, size : Nat \ {0}, shrink : Nat]
  BY DEF Inv, Types, BufferTypes
<1>2. /\ flush' \in [owner : Requests \cup {Nobody}, i : Nat, used : Nat, target : Timestamps,
                     ents : Seq(Entries)]
      /\ flush'.owner = owner /\ flush'.i = 1 /\ flush'.used = used /\ flush'.ents = <<>>
  <2>1. target \in Timestamps /\ <<>> \in Seq(Entries)
    BY <1>1 DEF ValidConstants
  <2>2. PICK n \in [owner : {Nobody}, i : Nat, used : Nat, target : Timestamps, ents : Seq(Entries)] :
          n = NoFlush /\ n.ents = <<>>
    BY NoFlushFacts
  <2>3. flush' = [n EXCEPT !.owner = owner, !.i = 1, !.used = used, !.target = target]
    BY <2>2, Zenon
  <2>4. flush'.ents = n.ents /\ n.ents \in Seq(Entries)
    BY <2>3
  <2>5. /\ flush' \in [owner : Requests \cup {Nobody}, i : Nat, used : Nat, target : Timestamps,
                       ents : Seq(Entries)]
        /\ flush'.owner = owner /\ flush'.i = 1 /\ flush'.used = used
    <3>1. flush' = [owner |-> owner, i |-> 1, used |-> used, target |-> target, ents |-> n.ents]
      BY <2>3
    <3>2. PICK es \in Seq(Entries) : es = n.ents
      BY <2>4
    <3>3. flush' = [owner |-> owner, i |-> 1, used |-> used, target |-> target, ents |-> es]
      BY <3>1, <3>2
    <3> QED BY <2>1, <3>3
  <2> QED BY <2>2, <2>4, <2>5
<1>3. /\ arr' \in [buf : Seq(Requests \X Nat), alloc : Nat, size : Nat \ {0}, shrink : Nat]
      /\ arr'.alloc = 0 /\ arr'.size = arr.size /\ arr'.buf = arr.buf
  BY <1>1
<1>4. Types'
  <2>1. LeaseTypes' /\ BufferTypes'
    BY <1>1, <1>3 DEF Types, LeaseTypes, BufferTypes, leaseVars
  <2>2. RaftTypes'
    BY <1>1 DEF Types, RaftTypes, raftVars
  <2>3. LockTypes'
    BY <1>1, <1>2 DEF Types, LockTypes
  <2> QED BY <2>1, <2>2, <2>3 DEF Types
<1>5. SlotsHold'
  BY <1>1, <1>3, RequestsUntouched, SlotsKept
<1>6. WaitersAreWoken'
  <2> SUFFICES ASSUME NEW r \in Requests, prop[r].pc = "wait" PROVE flush'.used > arr'.size
    BY DEF WaitersAreWoken
  <2>1. arr.alloc > arr.size
    BY <1>1 DEF SlotsAreServed, WaitersAreWoken
  <2> QED BY <1>1, <1>2, <1>3, <2>1
<1>7. SlotsAreServed'
  BY <1>1, <1>2, <1>3, <1>6 DEF SlotsAreServed
<1>8. Range(wire') \cup Range(flush'.ents) \subseteq Range(wire) \cup Range(flush.ents)
  BY <1>2 DEF Range, raftVars
<1> QED BY <1>4, <1>5, <1>7, <1>8, AllStay DEF raftVars

LEMMA HandleRaftReadyKeeps ==
  ASSUME Inv, HandleRaftReady
  PROVE  Inv'
<1>1. /\ lock = "free" /\ lock' = "flush" /\ arr' = [arr EXCEPT !.alloc = 0] /\ updateCheck' = FALSE
      /\ UNCHANGED <<leaseVars, assigned, prop, tracked, proposals, raftVars, refresh>>
  BY DEF HandleRaftReady, BeginFlush
<1>2. PICK target \in Targets :
        flush' = [NoFlush EXCEPT !.owner = Nobody, !.i = 1, !.used = arr.alloc, !.target = target]
  BY DEF HandleRaftReady, BeginFlush
<1>3. PICK used \in Nat : used = arr.alloc /\ used >= arr.alloc
  BY DEF Inv, Types, BufferTypes
<1> QED BY <1>1, <1>2, <1>3, FlushBegins

LEMMA FlushRLockedKeeps ==
  ASSUME Inv, NEW r \in Requests, FlushRLocked(r)
  PROVE  Inv'
<1>1. /\ Types /\ SlotsAreServed /\ SlotsHold /\ RequestHolds(r)
      /\ prop[r].pc = "flush" /\ lock = "free"
      /\ UNCHANGED <<leaseVars, assigned, tracked, proposals, updateCheck, raftVars, refresh>>
      /\ ValidConstants /\ prop \in [Requests -> RequestStates]
  BY DEF Inv, FlushRLocked, Types, BufferTypes
<1>2. CASE ~destroyed
  <2>1. /\ lock' = "flush" /\ arr' = [arr EXCEPT !.alloc = 0] /\ UNCHANGED prop
    BY <1>2 DEF FlushRLocked, BeginFlush
  <2>2. PICK target \in Targets :
          flush' = [NoFlush EXCEPT !.owner = r, !.i = 1, !.used = arr.alloc, !.target = target]
    BY <1>2 DEF FlushRLocked, BeginFlush
  <2>3. PICK used \in Nat : used = arr.alloc /\ used >= arr.alloc
    BY <1>1 DEF Types, BufferTypes
  <2>4. updateCheck' \in BOOLEAN /\ r # Nobody
    BY <1>1 DEF Types, BufferTypes, ValidConstants
  <2> QED BY <1>1, <2>1, <2>2, <2>3, <2>4, FlushBegins
<1>3. CASE destroyed
  <2>1. /\ prop' = [Broadcast(prop) EXCEPT ![r].pc = "fail"] /\ UNCHANGED <<lock, flush, arr>>
    BY <1>3 DEF FlushRLocked
  <2>2. prop'[r] = [prop[r] EXCEPT !.pc = "fail"]
    <3>1. Broadcast(prop)[r] = prop[r]
      BY <1>1, BroadcastFacts
    <3> QED BY <2>1, <3>1 DEF Broadcast
  <2>3. ASSUME NEW q \in Requests, q # r
        PROVE  prop'[q] = IF prop[q].pc = "wait" THEN [prop[q] EXCEPT !.pc = "insert"] ELSE prop[q]
    BY <2>1, <2>3 DEF Broadcast
  <2>4. Moves(r) /\ KeepsSlots(r)
    BY <1>1, <2>2, InsertingMoves DEF Inserting, leaseVars, raftVars
  <2>5. ASSUME NEW q \in Requests, q # r PROVE (Stays(q) \/ Moves(q)) /\ KeepsSlots(q)
    <3>1. CASE prop[q].pc = "wait"
      <4>1. prop'[q] = [prop[q] EXCEPT !.pc = "insert"]
        BY <2>3, <2>5, <3>1
      <4> QED BY <1>1, <3>1, <4>1, InsertingMoves DEF Inserting, leaseVars, raftVars
    <3>2. CASE prop[q].pc # "wait"
      <4>1. prop'[q] = prop[q]
        BY <2>3, <2>5, <3>2
      <4> QED BY <1>1, <4>1 DEF Stays, KeepsSlots, raftVars
    <3> QED BY <3>1, <3>2
  <2>6. \A q \in Requests : prop'[q] \in RequestStates /\ prop'[q].pc # "wait"
    <3>1. prop'[r] \in RequestStates /\ prop'[r].pc # "wait"
      <4>1. prop[r] \in RequestStates
        BY <1>1
      <4> QED BY <2>2, <4>1 DEF RequestStates
    <3>2. ASSUME NEW q \in Requests, q # r PROVE prop'[q] \in RequestStates /\ prop'[q].pc # "wait"
      <4>1. prop[q] \in RequestStates
        BY <1>1
      <4> QED BY <2>3, <3>2, <4>1 DEF RequestStates, Inserting
    <3> QED BY <3>1, <3>2
  <2>7. Types'
    <3>1. prop' \in [Requests -> RequestStates]
      BY <2>1, <2>6 DEF Broadcast
    <3> QED BY <1>1, <2>1, <3>1
            DEF Types, LeaseTypes, BufferTypes, RaftTypes, LockTypes, leaseVars, raftVars
  <2>8. SlotsHold'
    BY <1>1, <2>1, <2>4, <2>5, SlotsKept
  <2>9. SlotsAreServed'
    <3>1. WaitersAreWoken'
      BY <2>6 DEF WaitersAreWoken
    <3>2. flush.owner = Nobody /\ destroyed'
      BY <1>1, <1>3 DEF SlotsAreServed, raftVars
    <3> QED BY <1>1, <2>1, <3>1, <3>2 DEF SlotsAreServed
  <2>10. Frame
    BY <1>1, <2>1 DEF Frame, leaseVars, raftVars
  <2> QED BY <2>4, <2>5, <2>7, <2>8, <2>9, <2>10, RequestsKept
<1> QED BY <1>2, <1>3

LEMMA DestroyKeeps ==
  ASSUME Inv, Destroy
  PROVE  Inv'
<1>1. /\ Types /\ SlotsAreServed /\ SlotsHold
      /\ UNCHANGED <<leaseVars, bufVars, wire, applying, applications, lockVars>> /\ destroyed' = TRUE
  BY DEF Inv, Destroy
<1>2. Types'
  BY <1>1 DEF Types, LeaseTypes, BufferTypes, RaftTypes, LockTypes, leaseVars, bufVars, lockVars
<1>3. SlotsHold'
  BY <1>1, RequestsUntouched, SlotsKept DEF bufVars, lockVars
<1>4. SlotsAreServed'
  BY <1>1, ServedKept DEF bufVars, lockVars
<1> QED BY <1>1, <1>2, <1>3, <1>4, AllStay DEF bufVars, lockVars

LEMMA LoseKeeps ==
  ASSUME Inv, Lose
  PROVE  Inv'
<1>1. /\ Types /\ SlotsAreServed /\ SlotsHold
      /\ UNCHANGED <<leaseVars, bufVars, applying, destroyed, applications, lockVars>>
  BY DEF Inv, Lose
<1>2. wire' \in Seq(Entries) /\ Range(wire') \subseteq Range(wire)
  <2>1. PICK i \in DOMAIN wire : wire' = RemoveAt(wire, i)
    BY DEF Lose
  <2>2. wire \in Seq(Entries)
    BY <1>1 DEF Types, RaftTypes
  <2> QED BY <2>1, <2>2, RemoveAtFacts
<1>3. Types'
  BY <1>1, <1>2 DEF Types, LeaseTypes, BufferTypes, RaftTypes, LockTypes, leaseVars, bufVars, lockVars
<1>4. SlotsHold'
  BY <1>1, RequestsUntouched, SlotsKept DEF bufVars, lockVars
<1>5. SlotsAreServed'
  BY <1>1, ServedKept DEF bufVars, lockVars
<1> QED BY <1>1, <1>2, <1>3, <1>4, <1>5, AllStay DEF bufVars, lockVars

LEMMA RefreshKeeps ==
  ASSUME Inv, RefreshProposals
  PROVE  Inv'
<1>1. /\ Types /\ SlotsAreServed /\ SlotsHold /\ lock = "free" /\ lock' = "refresh"
      /\ UNCHANGED <<leaseVars, bufVars, raftVars, flush>>
      /\ proposals \in SUBSET Requests /\ IsFiniteSet(proposals)
  BY DEF Inv, RefreshProposals, Types, BufferTypes
<1>2. PICK S \in (SUBSET proposals) \ {{}} : refresh' \in [1 .. Cardinality(S) -> S]
  BY DEF RefreshProposals
<1>3. Cardinality(S) \in Nat \ {0}
  <2>1. IsFiniteSet(S)
    BY <1>1, FS_Subset
  <2>2. Cardinality(S) \in Nat /\ (Cardinality(S) = 0 => S = {})
    BY <2>1, FS_CardinalityType, FS_EmptySet
  <2> QED BY <1>2, <2>2
<1>4. /\ refresh' \in Seq(Requests) /\ refresh' # <<>> /\ Range(refresh') \subseteq proposals
  <2>1. PICK n \in Nat \ {0} : n = Cardinality(S)
    BY <1>3
  <2>2. refresh' \in [1 .. n -> S] /\ S \subseteq Requests /\ S \subseteq proposals
    BY <1>1, <1>2, <2>1
  <2>3. refresh' \in Seq(S) /\ Len(refresh') = n
    BY <2>2
  <2>4. refresh' \in Seq(Requests) /\ Range(refresh') \subseteq S
    BY <2>2, <2>3 DEF Range
  <2> QED BY <2>2, <2>3, <2>4
<1>5. Types'
  <2>1. LockTypes'
    BY <1>1, <1>4 DEF Types, LockTypes
  <2> QED BY <1>1, <2>1 DEF Types, LeaseTypes, BufferTypes, RaftTypes, leaseVars, bufVars, raftVars
<1>6. SlotsHold'
  <2>1. ASSUME NEW slot \in Range(arr.buf) PROVE SlotHolds(slot)'
    <3>1. SlotHolds(slot) /\ prop' = prop
      BY <1>1 DEF SlotsHold, bufVars
    <3> QED BY <3>1 DEF SlotHolds, Seen, Superseded, Reinserted
  <2>2. ASSUME NEW r \in Range(refresh') PROVE Reinserted(r)'
    <3>1. r \in Requests /\ prop[r].pc = "registered" /\ prop' = prop
      BY <1>1, <1>4 DEF Inv, RequestHolds, TokenHolds, bufVars
    <3> QED BY <3>1 DEF Reinserted
  <2>3. arr' = arr
    BY <1>1 DEF bufVars
  <2> QED BY <2>1, <2>2, <2>3 DEF SlotsHold
<1>7. SlotsAreServed'
  <2>1. flush' = flush /\ arr' = arr /\ prop' = prop /\ updateCheck' = updateCheck /\ destroyed' = destroyed
    BY <1>1 DEF bufVars, raftVars
  <2>2. WaitersAreWoken'
    BY <1>1, <2>1 DEF SlotsAreServed, WaitersAreWoken
  <2> QED BY <1>1, <2>1, <2>2 DEF SlotsAreServed
<1> QED BY <1>1, <1>5, <1>6, <1>7, AllStay DEF bufVars, raftVars

LEMMA ReinsertKeeps ==
  ASSUME Inv, ReinsertLocked
  PROVE  Inv'
<1>1. /\ Types /\ SlotsAreServed /\ SlotsHold /\ lock = "refresh" /\ ValidConstants
      /\ UNCHANGED <<leaseVars, assigned, prop, tracked, proposals, raftVars>>
      /\ refresh \in Seq(Requests) /\ refresh # <<>>
      /\ arr \in [buf : Seq(Requests \X Nat), alloc : Nat, size : Nat \ {0}, shrink : Nat]
  BY DEF Inv, ReinsertLocked, Types, LockTypes, BufferTypes
<1>2. /\ Head(refresh) \in Range(refresh) /\ Tail(refresh) \in Seq(Requests)
      /\ Range(Tail(refresh)) \subseteq Range(refresh) /\ Range(refresh) \subseteq Requests
  BY <1>1, RangeFacts
<1>3. PICK r \in Requests : r = Head(refresh)
  BY <1>2
<1>4. CASE arr.alloc < arr.size
  <2>1. /\ arr' = WithProposal(r) /\ updateCheck' = CheckScheduled /\ refresh' = Tail(refresh)
        /\ lock' = (IF Tail(refresh) = <<>> THEN "free" ELSE "refresh") /\ UNCHANGED flush
    BY <1>3, <1>4 DEF ReinsertLocked
  <2>2. Reinserted(r) /\ Reinserted(r)'
    BY <1>1, <1>2, <1>3 DEF SlotsHold, Reinserted
  <2>3. SlotsHold' /\ SlotsAreServed'
    <3>1. \A q \in Requests : KeepsSlots(q)
      BY <1>1, RequestsUntouched
    <3> QED BY <1>1, <1>2, <1>4, <2>1, <2>2, <3>1, SlotAdded
  <2>4. Types'
    <3>1. arr' \in [buf : Seq(Requests \X Nat), alloc : Nat, size : Nat \ {0}, shrink : Nat]
      BY <1>1, <2>1, WithProposalFacts
    <3>2. updateCheck' \in BOOLEAN
      BY <1>1, <2>1 DEF Types, BufferTypes, CheckScheduled
    <3>3. BufferTypes'
      BY <1>1, <3>1, <3>2 DEF Types, BufferTypes
    <3>4. LockTypes'
      BY <1>1, <1>2, <2>1 DEF Types, LockTypes
    <3> QED BY <1>1, <3>3, <3>4 DEF Types, LeaseTypes, RaftTypes, leaseVars, raftVars
  <2> QED BY <1>1, <2>1, <2>3, <2>4, AllStay DEF raftVars
<1>5. CASE ~(arr.alloc < arr.size)
  <2>1. arr' = [arr EXCEPT !.alloc = 0] /\ lock' = "flush" /\ UNCHANGED <<refresh, updateCheck>>
    BY <1>5 DEF ReinsertLocked
  <2>2. PICK target \in Targets :
          flush' = [NoFlush EXCEPT !.i = 1, !.used = arr.alloc + 1, !.target = target]
    BY <1>5 DEF ReinsertLocked
  <2>3. PICK used \in Nat : used = arr.alloc + 1 /\ used >= arr.alloc
    <3>1. arr.alloc + 1 \in Nat /\ arr.alloc + 1 >= arr.alloc
      BY <1>1
    <3> QED BY <3>1
  <2>4. flush' = [NoFlush EXCEPT !.owner = Nobody, !.i = 1, !.used = used, !.target = target]
    <3>1. flush' = [NoFlush EXCEPT !.i = 1, !.used = used, !.target = target]
      BY <2>2, <2>3, Zenon
    <3>2. PICK n \in [owner : {Nobody}, i : Nat, used : Nat, target : Timestamps, ents : Seq(Entries)] :
            n = NoFlush
      BY NoFlushFacts
    <3>3. flush' = [n EXCEPT !.i = 1, !.used = used, !.target = target]
      BY <3>1, <3>2, Zenon
    <3>4. flush' = [n EXCEPT !.owner = Nobody, !.i = 1, !.used = used, !.target = target]
      BY <3>3
    <3> QED BY <3>2, <3>4, Zenon
  <2>5. updateCheck' \in BOOLEAN
    BY <1>1, <2>1 DEF Types, BufferTypes
  <2> QED BY <1>1, <2>1, <2>3, <2>4, <2>5, FlushBegins
<1> QED BY <1>4, <1>5

LEMMA SlotFacts ==
  ASSUME Inv, lock = "flush", flush.i <= Len(arr.buf)
  PROVE  \E r \in Requests, g \in Nat :
           /\ arr.buf[flush.i] = <<r, g>> /\ arr.buf[flush.i][1] = r
           /\ SlotHolds(arr.buf[flush.i])
           /\ Seen(arr.buf[flush.i]) <=> (g # prop[r].gen \/ prop[r].seen)
           /\ ~Seen(arr.buf[flush.i]) => prop[r].pc = "buffered" \/ Reinserted(r)
<1>1. /\ Types /\ SlotsHold /\ arr.buf \in Seq(Requests \X Nat) /\ flush.i \in Nat /\ flush.i > 0
  BY DEF Inv, Types, BufferTypes, LockTypes
<1>2. flush.i \in DOMAIN arr.buf
  BY <1>1
<1>3. arr.buf[flush.i] \in Range(arr.buf) /\ arr.buf[flush.i] \in Requests \X Nat
  BY <1>1, <1>2 DEF Range
<1>4. PICK slot \in Requests \X Nat : slot = arr.buf[flush.i]
  BY <1>3
<1>5. PICK r \in Requests, g \in Nat : slot = <<r, g>>
  OBVIOUS
<1>6. slot[1] = r /\ slot[2] = g
  BY <1>5
<1>7. SlotHolds(slot)
  BY <1>1, <1>3, <1>4 DEF SlotsHold
<1>8. Seen(slot) <=> (g # prop[r].gen \/ prop[r].seen)
  BY <1>6 DEF Seen, Superseded
<1>9. ~Seen(slot) => prop[r].pc = "buffered" \/ Reinserted(r)
  BY <1>6, <1>7 DEF SlotHolds
<1> QED BY <1>4, <1>5, <1>6, <1>7, <1>8, <1>9

LEMMA NextSlotFacts ==
  ASSUME Types, NEW es \in Seq(Entries)
  PROVE  LET f == [NextSlot EXCEPT !.ents = es]
         IN  /\ f \in [owner : Requests \cup {Nobody}, i : Nat, used : Nat, target : Timestamps,
                       ents : Seq(Entries)]
             /\ f.owner = flush.owner /\ f.used = flush.used /\ f.ents = es /\ f.i > 0
             /\ es = flush.ents => NextSlot = f
<1>1. flush \in [owner : Requests \cup {Nobody}, i : Nat, used : Nat, target : Timestamps,
                 ents : Seq(Entries)]
  BY DEF Types, LockTypes
<1>2. PICK n \in Nat : n = flush.i + 1 /\ n > 0
  <2>1. flush.i + 1 \in Nat /\ flush.i + 1 > 0
    BY <1>1
  <2> QED BY <2>1
<1>3. NextSlot = [flush EXCEPT !.i = n]
  BY <1>2 DEF NextSlot
<1> QED BY <1>1, <1>2, <1>3

LEMMA FlushRejectsKeeps ==
  ASSUME Inv, FlushRejects
  PROVE  Inv'
<1>1. /\ Types /\ SlotsAreServed /\ SlotsHold /\ ValidConstants
      /\ lock = "flush" /\ flush.i <= Len(arr.buf) /\ flush' = NextSlot
      /\ UNCHANGED <<leaseVars, assigned, arr, updateCheck, raftVars, lock, refresh>>
      /\ prop \in [Requests -> RequestStates]
      /\ tracked \in [Requests -> Timestamps \cup {Untracked}]
  BY DEF Inv, FlushRejects, Types, BufferTypes
<1>2. PICK r \in Requests, g \in Nat :
        /\ arr.buf[flush.i] = <<r, g>> /\ arr.buf[flush.i][1] = r
        /\ SlotHolds(arr.buf[flush.i])
        /\ ~Seen(arr.buf[flush.i]) => prop[r].pc = "buffered" \/ Reinserted(r)
  BY <1>1, SlotFacts
<1>3. /\ flush' \in [owner : Requests \cup {Nobody}, i : Nat, used : Nat, target : Timestamps,
                     ents : Seq(Entries)]
      /\ flush'.owner = flush.owner /\ flush'.used = flush.used /\ flush'.ents = flush.ents
      /\ flush'.i > 0
  <2>1. PICK es \in Seq(Entries) : es = flush.ents
    BY <1>1 DEF Types, LockTypes
  <2> QED BY <1>1, <2>1, NextSlotFacts
<1>4. LockTypes'
  BY <1>1, <1>3 DEF Types, LockTypes
<1>5. CASE Seen(arr.buf[flush.i])
  <2>1. UNCHANGED <<prop, tracked, proposals>>
    BY <1>5 DEF FlushRejects
  <2>2. Types'
    BY <1>1, <1>4, <2>1 DEF Types, LeaseTypes, BufferTypes, RaftTypes, leaseVars, raftVars
  <2>3. SlotsHold'
    BY <1>1, <2>1, RequestsUntouched, SlotsKept
  <2>4. SlotsAreServed'
    BY <1>1, <1>3, <2>1, ServedKept DEF raftVars
  <2> QED BY <1>1, <1>3, <2>1, <2>2, <2>3, <2>4, AllStay DEF raftVars
<1>6. CASE ~Seen(arr.buf[flush.i])
  <2>1. /\ prop[r].kind = "lease"
        /\ prop' = [prop EXCEPT ![r] = [prop[r] EXCEPT !.pc = "done", !.tok = FALSE]]
        /\ tracked' = [tracked EXCEPT ![r] = Untracked]
        /\ proposals' = proposals \ {r}
    BY <1>2, <1>6 DEF FlushRejects
  <2>2. RequestHolds(r) /\ prop[r] \in RequestStates /\ (prop[r].pc = "buffered" \/ Reinserted(r))
    BY <1>1, <1>2, <1>6 DEF Inv
  <2>3. PICK p \in RequestStates :
          /\ prop' = [prop EXCEPT ![r] = p] /\ ~p.tok /\ p.pc = "done"
          /\ p.kind = prop[r].kind /\ p.seq = prop[r].seq /\ p.exp = prop[r].exp
          /\ p.gen = prop[r].gen /\ p.seen = prop[r].seen /\ p.lai = prop[r].lai
          /\ p.closed = prop[r].closed /\ p.wts = prop[r].wts
    <3>1. [prop[r] EXCEPT !.pc = "done", !.tok = FALSE] \in RequestStates
      BY <2>2 DEF RequestStates
    <3> QED BY <2>1, <2>2, <3>1 DEF RequestStates
  <2>4. /\ prop'[r] = p /\ tracked'[r] = Untracked
        /\ \A q \in Requests : q # r => Stays(q) /\ prop'[q] = prop[q]
    BY <1>1, <2>1, <2>3, OneMoves DEF raftVars
  <2>5. TokenHolds(r)'
    BY <2>1, <2>3, <2>4 DEF TokenHolds, Inserting
  <2>6. TrackedHolds(r)'
    BY <2>3, <2>4 DEF TrackedHolds, Inserting
  <2>7. Moves(r)
    BY <2>1, <2>2, <2>3, <2>4, <2>5, <2>6 DEF Moves, Reinserted, Sequenced
  <2>8. \A q \in Requests : KeepsSlots(q)
    <3>1. KeepsSlots(r)
      BY <2>1, <2>3, <2>4 DEF KeepsSlots, Reinserted
    <3> QED BY <2>4, <3>1 DEF KeepsSlots
  <2>9. Types'
    <3>1. BufferTypes'
      <4>1. IsFiniteSet(proposals') /\ proposals' \in SUBSET Requests
        BY <1>1, <2>1, FS_Subset DEF Types, BufferTypes
      <4> QED BY <1>1, <2>1, <2>3, <4>1 DEF Types, BufferTypes
    <3> QED BY <1>1, <1>4, <3>1 DEF Types, LeaseTypes, RaftTypes, leaseVars, raftVars
  <2>10. SlotsHold'
    BY <1>1, <2>8, SlotsKept
  <2>11. SlotsAreServed'
    <3>1. prop[r].pc # "flush" /\ p.pc # "wait"
      BY <2>2, <2>3 DEF Reinserted
    <3> QED BY <1>1, <1>3, <2>4, <3>1, ServedKept DEF raftVars
  <2>12. Frame
    BY <1>1, <1>3 DEF Frame, leaseVars, raftVars
  <2> QED BY <2>4, <2>7, <2>9, <2>10, <2>11, <2>12, RequestsKept
<1> QED BY <1>5, <1>6

LEMMA AdjustSizeFacts ==
  ASSUME ValidConstants, NEW used \in Nat,
         NEW a \in [buf : Seq(Requests \X Nat), alloc : Nat, size : Nat \ {0}, shrink : Nat]
  PROVE  /\ AdjustSize(a, used) \in [buf : Seq(Requests \X Nat), alloc : Nat, size : Nat \ {0},
                                     shrink : Nat]
         /\ AdjustSize(a, used).buf = a.buf /\ AdjustSize(a, used).alloc = a.alloc
<1>1. ASSUME NEW n \in Nat \ {0}, NEW m \in Nat, NEW z, z = [a EXCEPT !.shrink = m, !.size = n]
      PROVE  /\ z \in [buf : Seq(Requests \X Nat), alloc : Nat, size : Nat \ {0}, shrink : Nat]
             /\ z.buf = a.buf /\ z.alloc = a.alloc
  BY <1>1
<1>2. \E n \in Nat \ {0}, m \in Nat : AdjustSize(a, used) = [a EXCEPT !.shrink = m, !.size = n]
  <2>1. ArrMinSize \in Nat \ {0} /\ ArrMaxSize \in Nat /\ a.size \in Nat \ {0} /\ a.shrink \in Nat
    BY DEF ValidConstants
  <2>2. CASE used <= a.size \div 4
    <3>1. CASE a.size <= ArrMinSize
      <4>1. AdjustSize(a, used) = [a EXCEPT !.shrink = a.shrink, !.size = a.size]
        <5>1. AdjustSize(a, used) = a
          BY <2>2, <3>1 DEF AdjustSize
        <5>2. a = [a EXCEPT !.shrink = a.shrink, !.size = a.size]
          OBVIOUS
        <5> QED BY <5>1, <5>2
      <4> QED BY <2>1, <4>1
    <3>2. CASE ~(a.size <= ArrMinSize) /\ a.shrink + 1 = ArrShrinkDelay
      <4>1. PICK n \in Nat \ {0} : n = IF a.size \div 2 <= ArrMinSize THEN ArrMinSize ELSE a.size \div 2
        <5>1. a.size \div 2 \in Nat
          BY <2>1
        <5>2. ~(a.size \div 2 <= ArrMinSize) => a.size \div 2 \in Nat \ {0}
          BY <2>1, <5>1
        <5> QED BY <2>1, <5>2
      <4>2. AdjustSize(a, used) = [a EXCEPT !.shrink = 0, !.size = n]
        BY <2>2, <3>2, <4>1 DEF AdjustSize
      <4> QED BY <4>2
    <3>3. CASE ~(a.size <= ArrMinSize) /\ a.shrink + 1 # ArrShrinkDelay
      <4>1. PICK m \in Nat : m = a.shrink + 1
        <5>1. a.shrink + 1 \in Nat
          BY <2>1
        <5> QED BY <5>1
      <4>2. AdjustSize(a, used) = [a EXCEPT !.shrink = m]
        BY <2>2, <3>3, <4>1 DEF AdjustSize
      <4>3. AdjustSize(a, used) = [a EXCEPT !.shrink = m, !.size = a.size]
        BY <4>2
      <4> QED BY <2>1, <4>3
    <3> QED BY <3>1, <3>2, <3>3
  <2>3. CASE ~(used <= a.size \div 4) /\ used >= a.size
    <3>1. PICK n \in Nat \ {0} : n = IF 2 * a.size <= ArrMaxSize THEN 2 * a.size ELSE a.size
      <4>1. 2 * a.size \in Nat \ {0}
        BY <2>1
      <4> QED BY <2>1, <4>1
    <3>2. AdjustSize(a, used) = [a EXCEPT !.shrink = 0, !.size = n]
      BY <2>3, <3>1 DEF AdjustSize
    <3> QED BY <3>2
  <2>4. CASE ~(used <= a.size \div 4) /\ ~(used >= a.size)
    <3>1. AdjustSize(a, used) = [a EXCEPT !.shrink = 0]
      BY <2>4 DEF AdjustSize
    <3>2. AdjustSize(a, used) = [a EXCEPT !.shrink = 0, !.size = a.size]
      BY <3>1
    <3> QED BY <2>1, <3>2
  <2> QED BY <2>2, <2>3, <2>4
<1>z. PICK z : z = AdjustSize(a, used)
  OBVIOUS
<1>3. PICK n \in Nat \ {0}, m \in Nat : z = AdjustSize(a, used) /\ z = [a EXCEPT !.shrink = m, !.size = n]
  BY <1>z, <1>2
<1>4. /\ z \in [buf : Seq(Requests \X Nat), alloc : Nat, size : Nat \ {0}, shrink : Nat]
      /\ z.buf = a.buf /\ z.alloc = a.alloc
  BY <1>1, <1>3
<1> QED BY <1>3, <1>4

(* Requests that were waiting or flushing try again; the others stay. *)
LEMMA Woken ==
  ASSUME Inv, NEW q \in Requests,
         \/ prop'[q] = prop[q]
         \/ prop[q].pc \in {"wait", "flush"} /\ prop'[q] = [prop[q] EXCEPT !.pc = "insert"],
         UNCHANGED <<lease, assigned, tracked, proposals, applying, applications>>
  PROVE  (Stays(q) \/ Moves(q)) /\ KeepsSlots(q) /\ prop'[q] \in RequestStates
<1>1. Types /\ prop[q] \in RequestStates
  BY RequestTypes DEF Inv
<1>2. CASE prop'[q] = prop[q]
  BY <1>1, <1>2 DEF Stays, KeepsSlots
<1>3. CASE prop[q].pc \in {"wait", "flush"} /\ prop'[q] = [prop[q] EXCEPT !.pc = "insert"]
  <2>1. Moves(q) /\ KeepsSlots(q)
    BY <1>1, <1>3, InsertingMoves DEF Inserting
  <2>2. prop'[q] \in RequestStates
    BY <1>1, <1>3 DEF RequestStates, Inserting
  <2> QED BY <2>1, <2>2
<1> QED BY <1>2, <1>3

LEMMA EndFlushKeeps ==
  ASSUME Inv, EndFlush
  PROVE  Inv'
<1> DEFINE p == IF flush.used > arr.size THEN Broadcast(prop) ELSE prop
<1>1. /\ Types /\ SlotsAreServed /\ SlotsHold /\ ValidConstants
      /\ lock = "flush" /\ wire' = wire \o flush.ents
      /\ arr' = AdjustSize([arr EXCEPT !.buf = <<>>], flush.used)
      /\ prop' = IF flush.owner = Nobody THEN p ELSE [p EXCEPT ![flush.owner].pc = "insert"]
      /\ lock' = IF refresh # <<>> THEN "refresh" ELSE "free"
      /\ flush' = NoFlush
      /\ UNCHANGED <<leaseVars, assigned, tracked, proposals, updateCheck, applying, destroyed,
                     applications, refresh>>
  BY DEF Inv, EndFlush
<1>2. /\ prop \in [Requests -> RequestStates] /\ flush.used \in Nat /\ flush.ents \in Seq(Entries)
      /\ wire \in Seq(Entries)
      /\ arr \in [buf : Seq(Requests \X Nat), alloc : Nat, size : Nat \ {0}, shrink : Nat]
  BY <1>1 DEF Types, BufferTypes, RaftTypes, LockTypes
<1>3. /\ arr' \in [buf : Seq(Requests \X Nat), alloc : Nat, size : Nat \ {0}, shrink : Nat]
      /\ arr'.buf = <<>> /\ arr'.alloc = 0
  <2>1. PICK none \in Seq(Requests \X Nat) : none = <<>>
    <3>1. <<>> \in Seq(Requests \X Nat)
      OBVIOUS
    <3> QED BY <3>1
  <2>2. PICK a : a = [arr EXCEPT !.buf = none]
    OBVIOUS
  <2>3. /\ a \in [buf : Seq(Requests \X Nat), alloc : Nat, size : Nat \ {0}, shrink : Nat]
        /\ a.buf = none /\ a.alloc = arr.alloc
    BY <1>2, <2>2
  <2>4. arr.alloc = 0
    BY <1>1 DEF SlotsAreServed
  <2>5. arr' = AdjustSize(a, flush.used)
    BY <1>1, <2>1, <2>2, Zenon
  <2> QED BY <1>1, <1>2, <2>1, <2>3, <2>4, <2>5, AdjustSizeFacts
<1>4. \A q \in Requests : p[q] = prop[q] \/ (prop[q].pc = "wait" /\ p[q] = [prop[q] EXCEPT !.pc = "insert"])
  BY <1>1, BroadcastFacts
<1>5. flush.used > arr.size => \A q \in Requests : p[q].pc # "wait"
  <2>1. ASSUME flush.used > arr.size, NEW q \in Requests PROVE p[q].pc # "wait"
    <3>1. p[q] = IF prop[q].pc = "wait" THEN [prop[q] EXCEPT !.pc = "insert"] ELSE prop[q]
      BY <1>1, <2>1, BroadcastFacts
    <3>2. prop[q] \in RequestStates
      BY <1>2
    <3> QED BY <3>1, <3>2 DEF RequestStates
  <2> QED BY <2>1
<1>6. DOMAIN p = Requests
  BY <1>2 DEF Broadcast
<1> HIDE DEF p
<1>7. ASSUME NEW q \in Requests
      PROVE  /\ \/ prop'[q] = prop[q]
                \/ prop[q].pc \in {"wait", "flush"} /\ prop'[q] = [prop[q] EXCEPT !.pc = "insert"]
             /\ prop'[q].pc = "wait" => p[q].pc = "wait"
  <2>1. CASE flush.owner = q /\ q # Nobody
    <3>1. prop[q].pc = "flush" /\ p[q] = prop[q]
      BY <1>1, <1>4, <2>1 DEF SlotsAreServed
    <3>2. prop'[q] = [p[q] EXCEPT !.pc = "insert"]
      BY <1>1, <1>6, <2>1
    <3>3. prop'[q] = [prop[q] EXCEPT !.pc = "insert"] /\ prop[q] \in RequestStates
      BY <1>2, <3>1, <3>2
    <3>4. prop'[q].pc = "insert"
      BY <3>3 DEF RequestStates
    <3> QED BY <3>1, <3>3, <3>4
  <2>2. CASE flush.owner # q \/ q = Nobody
    <3>1. prop'[q] = p[q]
      <4>1. CASE flush.owner = Nobody
        BY <1>1, <4>1
      <4>2. CASE flush.owner # Nobody
        <5>1. prop' = [p EXCEPT ![flush.owner].pc = "insert"] /\ flush.owner # q
          BY <1>1, <2>2, <4>2 DEF ValidConstants
        <5> QED BY <1>6, <5>1
      <4> QED BY <4>1, <4>2
    <3> QED BY <1>4, <3>1
  <2> QED BY <2>1, <2>2
<1>8. \A q \in Requests : (Stays(q) \/ Moves(q)) /\ KeepsSlots(q) /\ prop'[q] \in RequestStates
  BY <1>1, <1>7, Woken DEF leaseVars
<1>9. Types'
  <2>1. BufferTypes'
    <3>1. prop' \in [Requests -> RequestStates]
      <4>1. DOMAIN prop' = Requests /\ prop' = [q \in Requests |-> prop'[q]]
        <5>1. p = [q \in Requests |-> p[q]]
          BY <1>2 DEF p, Broadcast
        <5>2. CASE flush.owner = Nobody
          BY <1>1, <5>1, <5>2
        <5>3. CASE flush.owner # Nobody
          BY <1>1, <5>1, <5>3
        <5> QED BY <5>2, <5>3
      <4> QED BY <1>8, <4>1
    <3> QED BY <1>1, <1>3, <3>1 DEF Types, BufferTypes
  <2>2. RaftTypes'
    BY <1>1, <1>2, RangeFacts DEF Types, RaftTypes
  <2>3. LockTypes'
    <3>1. NoFlush \in [owner : Requests \cup {Nobody}, i : Nat, used : Nat, target : Timestamps,
                       ents : Seq(Entries)]
      BY NoFlushFacts
    <3> QED BY <1>1, <3>1 DEF Types, LockTypes
  <2> QED BY <1>1, <2>1, <2>2, <2>3 DEF Types, LeaseTypes, leaseVars
<1>10. SlotsHold'
  <2>1. Range(arr'.buf) \subseteq Range(arr.buf)
    BY <1>3 DEF Range
  <2> QED BY <1>1, <1>8, <2>1, SlotsKept
<1>11. SlotsAreServed'
  <2>1. ~\E q \in Requests : prop'[q].pc = "wait"
    <3> SUFFICES ASSUME NEW q \in Requests, prop'[q].pc = "wait" PROVE FALSE
      OBVIOUS
    <3>1. prop[q].pc = "wait" /\ p[q].pc = "wait"
      <4>1. prop[q] \in RequestStates
        BY <1>2
      <4> QED BY <1>7, <4>1 DEF RequestStates
    <3>2. flush.used > arr.size
      <4>1. ~(arr.alloc > arr.size)
        BY <1>1, <1>2 DEF SlotsAreServed
      <4> QED BY <1>1, <3>1, <4>1 DEF SlotsAreServed, WaitersAreWoken
    <3> QED BY <1>5, <3>1, <3>2
  <2>2. flush'.owner = Nobody
    BY <1>1, NoFlushFacts
  <2> QED BY <1>1, <1>3, <2>1, <2>2 DEF SlotsAreServed, WaitersAreWoken
<1>12. Frame
  <2>1. Range(wire') = Range(wire) \cup Range(flush.ents)
    BY <1>1, <1>2, RangeFacts
  <2>2. Range(flush'.ents) = {}
    BY <1>1, NoFlushFacts DEF Range
  <2> QED BY <1>1, <2>1, <2>2 DEF Frame, leaseVars
<1> QED BY <1>8, <1>9, <1>10, <1>11, <1>12, RequestsKept

LEMMA DisconnectKeeps ==
  ASSUME Inv, Disconnect
  PROVE  Inv'
<1> DEFINE finished == proposals \cup {slot[1] : slot \in Range(arr.buf)}
           woken == IF arr.alloc > arr.size THEN Broadcast(prop) ELSE prop
<1>1. /\ Types /\ SlotsAreServed /\ SlotsHold /\ ValidConstants
      /\ lock = "free" /\ applying = Nobody /\ destroyed
      /\ tracked' = [r \in Requests |-> IF r \in finished THEN Untracked ELSE tracked[r]]
      /\ prop' = [r \in Requests |-> IF r \in finished
                                       THEN [woken[r] EXCEPT !.pc = "done", !.tok = FALSE]
                                       ELSE woken[r]]
      /\ proposals' = {}
      /\ arr' = AdjustSize([arr EXCEPT !.buf = <<>>, !.alloc = 0], arr.alloc)
      /\ UNCHANGED <<leaseVars, assigned, updateCheck, raftVars, lockVars>>
  BY DEF Inv, Disconnect
<1>2. /\ prop \in [Requests -> RequestStates] /\ tracked \in [Requests -> Timestamps \cup {Untracked}]
      /\ arr \in [buf : Seq(Requests \X Nat), alloc : Nat, size : Nat \ {0}, shrink : Nat]
      /\ refresh = <<>>
  BY <1>1 DEF Types, BufferTypes, LockTypes
<1>3. /\ arr' \in [buf : Seq(Requests \X Nat), alloc : Nat, size : Nat \ {0}, shrink : Nat]
      /\ arr'.buf = <<>> /\ arr'.alloc = 0
  <2>1. PICK none \in Seq(Requests \X Nat) : none = <<>>
    <3>1. <<>> \in Seq(Requests \X Nat)
      OBVIOUS
    <3> QED BY <3>1
  <2>2. PICK a : a = [arr EXCEPT !.buf = none, !.alloc = 0]
    OBVIOUS
  <2>3. /\ a \in [buf : Seq(Requests \X Nat), alloc : Nat, size : Nat \ {0}, shrink : Nat]
        /\ a.buf = none /\ a.alloc = 0
    BY <1>2, <2>2
  <2>4. arr' = AdjustSize(a, arr.alloc) /\ arr.alloc \in Nat
    <3>1. arr' = AdjustSize(a, arr.alloc)
      BY <1>1, <2>1, <2>2, Zenon
    <3> QED BY <1>2, <3>1
  <2>5. PICK n \in Nat : n = arr.alloc
    BY <2>4
  <2>6. ValidConstants /\ arr' = AdjustSize(a, n)
    BY <1>1, <2>4, <2>5
  <2>7. /\ AdjustSize(a, n) \in [buf : Seq(Requests \X Nat), alloc : Nat, size : Nat \ {0}, shrink : Nat]
        /\ AdjustSize(a, n).buf = a.buf /\ AdjustSize(a, n).alloc = a.alloc
    BY <2>3, <2>6, AdjustSizeFacts
  <2> QED BY <2>1, <2>3, <2>6, <2>7
<1>4. \A q \in Requests : woken[q] = prop[q] \/ (prop[q].pc = "wait" /\ woken[q] = [prop[q] EXCEPT !.pc = "insert"])
  BY <1>1, BroadcastFacts
<1>5. arr.alloc > arr.size => \A q \in Requests : woken[q].pc # "wait"
  <2>1. ASSUME arr.alloc > arr.size, NEW q \in Requests PROVE woken[q].pc # "wait"
    <3>1. woken[q] = IF prop[q].pc = "wait" THEN [prop[q] EXCEPT !.pc = "insert"] ELSE prop[q]
      BY <1>1, <2>1, BroadcastFacts
    <3>2. prop[q] \in RequestStates
      BY <1>2
    <3> QED BY <3>1, <3>2 DEF RequestStates
  <2> QED BY <2>1
<1>6. \A q \in finished : q \in Requests => prop[q].pc # "idle"
  <2>1. \A q \in proposals : q \in Requests => prop[q].pc # "idle"
    BY DEF Inv, RequestHolds, TokenHolds
  <2>2. \A slot \in Range(arr.buf) : prop[slot[1]].pc # "idle"
    BY <1>1 DEF SlotsHold, SlotHolds
  <2> QED BY <2>1, <2>2
<1>7. \A q \in Requests : q \notin finished => q \notin proposals
  OBVIOUS
<1> HIDE DEF finished, woken
<1>8. ASSUME NEW q \in Requests, q \in finished
      PROVE  Moves(q) /\ prop'[q] \in RequestStates /\ prop'[q].pc = "done"
  <2>1. PICK w : w = woken[q]
    OBVIOUS
  <2>2. /\ w \in RequestStates
        /\ w.kind = prop[q].kind /\ w.seq = prop[q].seq /\ w.exp = prop[q].exp
        /\ w.gen = prop[q].gen /\ w.seen = prop[q].seen /\ w.lai = prop[q].lai
        /\ w.closed = prop[q].closed /\ w.wts = prop[q].wts
    <3>1. prop[q] \in RequestStates
      BY <1>2
    <3>2. CASE w = prop[q]
      BY <3>1, <3>2
    <3>3. CASE w = [prop[q] EXCEPT !.pc = "insert"]
      BY <3>1, <3>3 DEF RequestStates, Inserting
    <3> QED BY <1>4, <2>1, <3>2, <3>3
  <2>3. prop'[q] = [w EXCEPT !.pc = "done", !.tok = FALSE] /\ tracked'[q] = Untracked
    BY <1>1, <1>8, <2>1
  <2>4. PICK p \in RequestStates :
          /\ p = prop'[q] /\ p.pc = "done" /\ ~p.tok
          /\ p.kind = prop[q].kind /\ p.seq = prop[q].seq /\ p.exp = prop[q].exp
          /\ p.gen = prop[q].gen /\ p.seen = prop[q].seen /\ p.lai = prop[q].lai
          /\ p.closed = prop[q].closed /\ p.wts = prop[q].wts
    <3>1. [w EXCEPT !.pc = "done", !.tok = FALSE] \in RequestStates
      BY <2>2 DEF RequestStates
    <3> QED BY <2>2, <2>3, <3>1 DEF RequestStates
  <2>5. TokenHolds(q)'
    BY <1>1, <2>3, <2>4 DEF TokenHolds, Inserting
  <2>6. TrackedHolds(q)'
    BY <2>4 DEF TrackedHolds, Inserting
  <2>7. prop[q].pc # "idle"
    BY <1>6, <1>8
  <2>8. Moves(q)
    BY <1>1, <2>4, <2>5, <2>6, <2>7 DEF Moves
  <2> QED BY <2>4, <2>8
<1>9. ASSUME NEW q \in Requests, q \notin finished
      PROVE  (Stays(q) \/ Moves(q)) /\ prop'[q] \in RequestStates
  <2>1. prop'[q] = woken[q] /\ tracked'[q] = tracked[q] /\ q \notin proposals /\ q \notin proposals'
    BY <1>1, <1>7, <1>9
  <2>2. CASE prop'[q] = prop[q]
    BY <1>1, <1>2, <2>1, <2>2 DEF Stays, raftVars
  <2>3. CASE prop[q].pc = "wait" /\ prop'[q] = [prop[q] EXCEPT !.pc = "insert"]
    <3>1. Moves(q)
      BY <1>1, <2>1, <2>3, InsertingMoves DEF Inserting, leaseVars, raftVars
    <3>2. prop[q] \in RequestStates
      BY <1>2
    <3>3. prop'[q] \in RequestStates
      BY <2>3, <3>2 DEF RequestStates, Inserting
    <3> QED BY <3>1, <3>3
  <2> QED BY <1>4, <2>1, <2>2, <2>3
<1>10. Types'
  <2>1. BufferTypes'
    <3>1. prop' \in [Requests -> RequestStates]
      BY <1>1, <1>8, <1>9
    <3>2. tracked' \in [Requests -> Timestamps \cup {Untracked}]
      BY <1>1, <1>2
    <3> QED BY <1>1, <1>3, <3>1, <3>2, FS_EmptySet DEF Types, BufferTypes
  <2> QED BY <1>1, <2>1 DEF Types, LeaseTypes, RaftTypes, LockTypes, leaseVars, raftVars, lockVars
<1>11. SlotsHold'
  <2>1. Range(arr'.buf) = {} /\ Range(refresh') = {}
    <3>1. arr'.buf = <<>> /\ refresh' = <<>>
      BY <1>1, <1>2, <1>3 DEF lockVars
    <3>2. Range(<<>>) = {}
      BY DEF Range
    <3> QED BY <3>1, <3>2
  <2> QED BY <2>1 DEF SlotsHold
<1>12. SlotsAreServed'
  <2>1. ~\E q \in Requests : prop'[q].pc = "wait"
    <3> SUFFICES ASSUME NEW q \in Requests, prop'[q].pc = "wait" PROVE FALSE
      OBVIOUS
    <3>1. q \notin finished
      BY <1>8
    <3>2. woken[q].pc = "wait"
      BY <1>1, <3>1
    <3>3. prop[q].pc = "wait"
      <4>1. prop[q] \in RequestStates
        BY <1>2
      <4> QED BY <1>4, <3>2, <4>1 DEF RequestStates
    <3>4. arr.alloc > arr.size
      BY <1>1, <3>3 DEF SlotsAreServed, WaitersAreWoken
    <3> QED BY <1>5, <3>2, <3>4
  <2>2. flush'.owner = Nobody /\ destroyed' /\ lock' = "free"
    BY <1>1 DEF SlotsAreServed, lockVars, raftVars
  <2>3. arr'.alloc = 0 /\ arr'.buf = <<>> /\ ~(arr'.alloc > arr'.size) /\ ~(arr'.alloc > 0)
    BY <1>3
  <2> QED BY <2>1, <2>2, <2>3 DEF SlotsAreServed, WaitersAreWoken
<1>13. Frame
  BY <1>1 DEF Frame, leaseVars, raftVars, lockVars
<1> QED BY <1>8, <1>9, <1>10, <1>11, <1>12, <1>13, RequestsKept

-----------------------------------------------------------------------------
(* A flush proposes. *)

LEMMA LowerBoundFacts ==
  ASSUME ValidConstants, NEW tr, NEW lb \in LowerBounds(tr)
  PROVE  /\ lb \in Timestamps
         /\ \A q \in Requests : tr[q] # Untracked => lb # EmptyTS /\ LessEq(lb, tr[q])
<1>1. PICK w \in 0 .. MaxWall : lb = At(w, 0)
  BY DEF LowerBounds
<1>2. lb \in Timestamps
  BY <1>1, TimestampAssumption DEF At, Timestamps, ValidConstants
<1>3. Promise!SoundBound(lb, tr)
  BY DEF LowerBounds
<1>4. ASSUME NEW q \in Requests, tr[q] # Untracked PROVE lb # EmptyTS /\ LessEq(lb, tr[q])
  <2>1. q \in Promise!TrackedRequests(tr)
    BY <1>4 DEF Promise!TrackedRequests
  <2> QED BY <1>3, <2>1 DEF Promise!SoundBound, Promise!LessEq, Promise!EmptyTS, Promise!Less,
                            LessEq, Less, EmptyTS
<1> QED BY <1>2, <1>4

(* What a flush closes is above what was closed, within the lease, and     *)
(* below all that is tracked.                                              *)
LEMMA ClosedFacts ==
  ASSUME Inv, NEW r \in Requests, prop[r].pc # "idle", NEW tr, NEW lb \in LowerBounds(tr),
         NEW c, c = Forward(assigned.closed, ClosedTarget(flush.target, lb, prop[r].exp))
  PROVE  /\ c \in Timestamps /\ LessEq(assigned.closed, c) /\ LessEq(c, WallPrev(lease.exp))
         /\ \A t \in Timestamps :
              lb # EmptyTS /\ LessEq(lb, t) /\ Less(assigned.closed, t) => Less(c, t)
<1>1. /\ Types /\ ValidConstants /\ RequestHolds(r) /\ BoundsHold
      /\ flush.target \in Timestamps /\ assigned.closed \in Timestamps
      /\ prop[r].exp \in Timestamps /\ lease.exp \in Timestamps
  BY FieldTypes DEF Inv, Types, LockTypes
<1>2. lb \in Timestamps
  BY <1>1, LowerBoundFacts
<1>3. prop[r].exp.wall > 0 /\ LessEq(prop[r].exp, lease.exp)
  BY <1>1 DEF RequestHolds, LeaseHolds
<1>4. PICK e \in Timestamps, l \in Timestamps :
        /\ e = WallPrev(prop[r].exp) /\ l = WallPrev(lease.exp) /\ LessEq(e, l)
  BY <1>1, <1>3, WallPrevFacts
<1>5. PICK b \in Timestamps :
        /\ b = IF lb = EmptyTS THEN flush.target ELSE Backward(flush.target, FloorPrev(lb))
        /\ lb # EmptyTS => Less(b, lb)
  <2>1. CASE lb = EmptyTS
    BY <1>1, <2>1
  <2>2. CASE lb # EmptyTS
    <3>1. PICK f \in Timestamps : f = FloorPrev(lb) /\ Less(f, lb)
      BY <1>2, <2>2, FloorPrevFacts
    <3>2. Backward(flush.target, f) \in Timestamps /\ LessEq(Backward(flush.target, f), f)
      BY <1>1, BackwardFacts
    <3>3. Less(Backward(flush.target, f), lb)
      BY <1>2, <3>1, <3>2, OrderFacts
    <3> QED BY <2>2, <3>1, <3>2, <3>3
  <2> QED BY <2>1, <2>2
<1>6. PICK d \in Timestamps :
        d = ClosedTarget(flush.target, lb, prop[r].exp) /\ LessEq(d, b) /\ LessEq(d, e)
  <2>1. ClosedTarget(flush.target, lb, prop[r].exp) = Backward(b, e)
    BY <1>4, <1>5 DEF ClosedTarget
  <2>2. Backward(b, e) \in Timestamps /\ LessEq(Backward(b, e), b) /\ LessEq(Backward(b, e), e)
    BY BackwardFacts
  <2> QED BY <2>1, <2>2
<1>7. c = Forward(assigned.closed, d)
  BY <1>6
<1>8. c \in {assigned.closed, d} /\ c \in Timestamps /\ LessEq(assigned.closed, c)
  BY <1>1, <1>7, ForwardFacts
<1>9. LessEq(c, l)
  <2>1. LessEq(d, l)
    BY <1>4, <1>6, OrderFacts
  <2>2. LessEq(assigned.closed, l)
    BY <1>1, <1>4 DEF BoundsHold
  <2> QED BY <1>8, <2>1, <2>2
<1>10. ASSUME NEW t \in Timestamps, lb # EmptyTS, LessEq(lb, t), Less(assigned.closed, t)
       PROVE  Less(c, t)
  <2>1. Less(b, lb)
    BY <1>5, <1>10
  <2>2. Less(b, t)
    BY <1>2, <1>10, <2>1, OrderFacts
  <2>3. Less(d, t)
    BY <1>6, <2>2, OrderFacts
  <2> QED BY <1>8, <1>10, <2>3
<1> QED BY <1>4, <1>8, <1>9, <1>10

(* What FlushProposes does to the proposal, and when it sequences it. *)
Proposed(r, p) ==
  /\ p \in RequestStates
  /\ p.pc = "registered" /\ ~p.tok
  /\ p.kind = prop[r].kind /\ p.seq = prop[r].seq /\ p.exp = prop[r].exp /\ p.wts = prop[r].wts
  /\ p.gen = prop[r].gen /\ p.seen = prop[r].seen
  /\ prop' = [prop EXCEPT ![r] = p] /\ tracked' = [tracked EXCEPT ![r] = Untracked]
  /\ proposals' = proposals \cup {r}
  /\ ~prop[r].seen /\ (prop[r].pc = "buffered" \/ Reinserted(r))

NotSequenced(r, p) ==
  /\ ~prop[r].tok \/ prop[r].kind = "lease"
  /\ assigned' = assigned /\ p.lai = prop[r].lai /\ p.closed = prop[r].closed

SequencedNow(r, p) ==
  /\ prop[r].tok /\ prop[r].kind # "lease"
  /\ assigned' = [lai |-> p.lai, closed |-> p.closed]
  /\ p.lai = assigned.lai + 1
  /\ \E lb \in LowerBounds([tracked EXCEPT ![r] = Untracked]) :
       p.closed = Forward(assigned.closed, ClosedTarget(flush.target, lb, prop[r].exp))

LEMMA FlushShape ==
  ASSUME Inv, FlushProposes
  PROVE  \E r \in Requests, p \in RequestStates :
           /\ Proposed(r, p) /\ (NotSequenced(r, p) \/ SequencedNow(r, p))
           /\ \/ /\ flush' = [NextSlot EXCEPT !.ents = Append(flush.ents, Entry(r, p))]
                 /\ UNCHANGED wire
              \/ /\ wire' = wire \o Append(flush.ents, Entry(r, p))
                 /\ flush' = [NextSlot EXCEPT !.ents = <<>>]
<1>1. /\ lock = "flush" /\ flush.i <= Len(arr.buf) /\ ~Seen(arr.buf[flush.i]) /\ Types
  BY DEF FlushProposes, Inv
<1>2. PICK r \in Requests, g \in Nat :
        /\ arr.buf[flush.i] = <<r, g>> /\ arr.buf[flush.i][1] = r
        /\ Seen(arr.buf[flush.i]) <=> (g # prop[r].gen \/ prop[r].seen)
        /\ ~Seen(arr.buf[flush.i]) => prop[r].pc = "buffered" \/ Reinserted(r)
  BY <1>1, SlotFacts
<1>3. prop[r] \in RequestStates /\ ~prop[r].seen /\ (prop[r].pc = "buffered" \/ Reinserted(r))
  BY <1>1, <1>2, RequestTypes
<1> DEFINE left == [tracked EXCEPT ![r] = Untracked]
           p0 == [prop[r] EXCEPT !.pc = "registered", !.tok = FALSE]
           alloc(lb) == IF Reproposal(prop[r]) THEN [assigned |-> assigned, p |-> p0]
                                              ELSE Allocated(p0, lb)
<1>4. PICK lb \in LowerBounds(left) :
        /\ assigned' = alloc(lb).assigned
        /\ prop' = [prop EXCEPT ![r] = alloc(lb).p]
        /\ \/ /\ flush' = [NextSlot EXCEPT !.ents = Append(NextSlot.ents, Entry(r, alloc(lb).p))]
              /\ UNCHANGED wire
           \/ /\ wire' = wire \o Append(flush.ents, Entry(r, alloc(lb).p))
              /\ flush' = [NextSlot EXCEPT !.ents = <<>>]
  BY <1>2 DEF FlushProposes
<1>5. tracked' = left /\ proposals' = proposals \cup {r}
  BY <1>2 DEF FlushProposes
<1>6. NextSlot.ents = flush.ents
  BY <1>1 DEF NextSlot, Types, LockTypes
<1>7. /\ p0 \in RequestStates /\ p0.pc = "registered" /\ ~p0.tok
      /\ p0.kind = prop[r].kind /\ p0.seq = prop[r].seq /\ p0.exp = prop[r].exp
      /\ p0.wts = prop[r].wts /\ p0.gen = prop[r].gen /\ p0.seen = prop[r].seen
      /\ p0.lai = prop[r].lai /\ p0.closed = prop[r].closed
  BY <1>3 DEF RequestStates
<1> HIDE DEF p0
<1>8. CASE Reproposal(prop[r]) \/ prop[r].kind = "lease"
  <2>1. alloc(lb).assigned = assigned /\ alloc(lb).p = p0
    BY <1>7, <1>8 DEF Allocated
  <2>2. prop' = [prop EXCEPT ![r] = p0] /\ assigned' = assigned
    BY <1>4, <2>1
  <2>3. Proposed(r, p0)
    BY <1>3, <1>5, <1>7, <2>2 DEF Proposed
  <2>4. NotSequenced(r, p0)
    BY <1>7, <1>8, <2>2 DEF NotSequenced, Reproposal
  <2> QED BY <1>4, <1>6, <1>7, <2>1, <2>3, <2>4
<1>9. CASE ~Reproposal(prop[r]) /\ prop[r].kind # "lease"
  <2> DEFINE c == Forward(assigned.closed, ClosedTarget(flush.target, lb, prop[r].exp))
             n == assigned.lai + 1
             p1 == [p0 EXCEPT !.lai = n, !.closed = c]
  <2>1. alloc(lb).assigned = [lai |-> n, closed |-> c] /\ alloc(lb).p = p1
    BY <1>7, <1>9 DEF Allocated
  <2>2. c \in Timestamps /\ n \in Nat
    <3>1. prop[r].pc # "idle"
      BY <1>3 DEF Reinserted
    <3>2. c \in Timestamps
      BY <3>1, ClosedFacts
    <3> QED BY <1>1, <3>2, FieldTypes
  <2> HIDE DEF c, n
  <2>3. /\ p1 \in RequestStates /\ p1.pc = "registered" /\ ~p1.tok
        /\ p1.kind = prop[r].kind /\ p1.seq = prop[r].seq /\ p1.exp = prop[r].exp
        /\ p1.wts = prop[r].wts /\ p1.gen = prop[r].gen /\ p1.seen = prop[r].seen
        /\ p1.lai = n /\ p1.closed = c
    BY <1>7, <2>2 DEF RequestStates
  <2> HIDE DEF p1
  <2>4. prop' = [prop EXCEPT ![r] = p1] /\ assigned' = [lai |-> n, closed |-> c]
    BY <1>4, <2>1
  <2>5. Proposed(r, p1)
    BY <1>3, <1>5, <2>3, <2>4 DEF Proposed
  <2>6. SequencedNow(r, p1)
    BY <1>9, <2>3, <2>4 DEF SequencedNow, Reproposal, n, c
  <2> QED BY <1>4, <1>6, <2>1, <2>3, <2>5, <2>6
<1> QED BY <1>8, <1>9

(* The new entry of the request joins the others. *)
LEMMA EntryAdded ==
  ASSUME Inv, FlushProposes, NEW r \in Requests, NEW p \in RequestStates, Proposed(r, p),
         \/ /\ flush' = [NextSlot EXCEPT !.ents = Append(flush.ents, Entry(r, p))]
            /\ UNCHANGED wire
         \/ /\ wire' = wire \o Append(flush.ents, Entry(r, p))
            /\ flush' = [NextSlot EXCEPT !.ents = <<>>]
  PROVE  /\ flush' \in [owner : Requests \cup {Nobody}, i : Nat, used : Nat, target : Timestamps,
                        ents : Seq(Entries)]
         /\ flush'.owner = flush.owner /\ flush'.used = flush.used /\ flush'.i > 0
         /\ wire' \in Seq(Entries)
         /\ Range(wire') \cup Range(flush'.ents) \subseteq
              Range(wire) \cup Range(flush.ents) \cup {Entry(r, p)}
<1>1. PICK e \in Entries : e = Entry(r, p)
  <2>1. Entry(r, p) \in Entries
    BY DEF Entry, Entries, RequestStates
  <2> QED BY <2>1
<1>2. Types /\ wire \in Seq(Entries) /\ flush.ents \in Seq(Entries)
  BY DEF Inv, Types, RaftTypes, LockTypes
<1>3. PICK es \in Seq(Entries) : es = Append(flush.ents, e) /\ Range(es) = Range(flush.ents) \cup {e}
  <2>1. PICK fs \in Seq(Entries) : fs = flush.ents
    BY <1>2
  <2>2. Append(fs, e) \in Seq(Entries) /\ Range(Append(fs, e)) = Range(fs) \cup {e}
    BY RangeFacts
  <2> QED BY <2>1, <2>2
<1>4. CASE flush' = [NextSlot EXCEPT !.ents = Append(flush.ents, Entry(r, p))] /\ UNCHANGED wire
  <2>1. flush' = [NextSlot EXCEPT !.ents = es]
    BY <1>1, <1>3, <1>4
  <2>2. /\ flush' \in [owner : Requests \cup {Nobody}, i : Nat, used : Nat, target : Timestamps,
                       ents : Seq(Entries)]
        /\ flush'.owner = flush.owner /\ flush'.used = flush.used /\ flush'.i > 0 /\ flush'.ents = es
    BY <1>2, <2>1, NextSlotFacts
  <2> QED BY <1>1, <1>2, <1>3, <1>4, <2>2
<1>5. CASE /\ wire' = wire \o Append(flush.ents, Entry(r, p))
           /\ flush' = [NextSlot EXCEPT !.ents = <<>>]
  <2>1. PICK none \in Seq(Entries) : none = <<>>
    <3>1. <<>> \in Seq(Entries)
      OBVIOUS
    <3> QED BY <3>1
  <2>2. flush' = [NextSlot EXCEPT !.ents = none]
    BY <1>5, <2>1, Zenon
  <2>3. /\ flush' \in [owner : Requests \cup {Nobody}, i : Nat, used : Nat, target : Timestamps,
                       ents : Seq(Entries)]
        /\ flush'.owner = flush.owner /\ flush'.used = flush.used /\ flush'.i > 0
        /\ flush'.ents = none
    BY <1>2, <2>2, NextSlotFacts
  <2>4. Range(flush'.ents) = {}
    BY <2>1, <2>3 DEF Range
  <2>5. wire' = wire \o es
    BY <1>1, <1>3, <1>5
  <2>6. wire' \in Seq(Entries) /\ Range(wire') = Range(wire) \cup Range(es)
    BY <1>2, <2>5, RangeFacts
  <2> QED BY <1>1, <1>3, <2>3, <2>4, <2>6
<1> QED BY <1>4, <1>5

LEMMA NotSequencedKeeps ==
  ASSUME Inv, NEW r \in Requests, NEW p \in RequestStates, Proposed(r, p), NotSequenced(r, p),
         Types', SlotsHold', SlotsAreServed',
         UNCHANGED <<lease, applied, published, applications, applying, destroyed>>,
         Range(wire') \cup Range(flush'.ents) \subseteq
           Range(wire) \cup Range(flush.ents) \cup {Entry(r, p)}
  PROVE  Inv'
<1>1. /\ Types /\ RequestHolds(r)
      /\ prop' = [prop EXCEPT ![r] = p] /\ tracked' = [tracked EXCEPT ![r] = Untracked]
      /\ proposals' = proposals \cup {r} /\ r \in proposals'
      /\ p.pc = "registered" /\ ~p.tok
  BY DEF Inv, Proposed
<1>2. /\ prop'[r] = p /\ tracked'[r] = Untracked
      /\ \A q \in Requests : q # r => Stays(q) /\ prop'[q] = prop[q]
  BY <1>1, OneMoves
<1>3. Moves(r)
  <2>1. TokenHolds(r)'
    BY <1>1, <1>2 DEF TokenHolds, Inserting
  <2>2. TrackedHolds(r)'
    <3>1. CASE p.kind = "write" /\ p.seq = lease.seq
      <4>1. LiveWrite(r) /\ p.wts = prop[r].wts /\ prop[r].pc \in {"buffered", "registered"}
        BY <3>1 DEF LiveWrite, Proposed, Reinserted
      <4>2. Less(lease.start, prop[r].wts)
        BY <1>1, <4>1 DEF RequestHolds, TrackedHolds, Inserting
      <4> QED BY <1>1, <1>2, <4>1, <4>2 DEF TrackedHolds, Inserting
    <3>2. CASE ~(p.kind = "write" /\ p.seq = lease.seq)
      BY <1>2, <3>2 DEF TrackedHolds, LiveWrite
    <3> QED BY <3>1, <3>2
  <2> QED BY <1>1, <1>2, <2>1, <2>2 DEF Moves, Proposed, NotSequenced, Reinserted
<1>4. EntryHolds(Entry(r, p))'
  <2>1. PICK e : e = Entry(r, p)
    OBVIOUS
  <2>2. e.r = r /\ e.kind = p.kind /\ e.seq = p.seq /\ e.gen = p.gen /\ p.gen \in Nat
    BY <2>1 DEF Entry, RequestStates
  <2>3. EntryHolds(e)'
    BY <1>1, <1>2, <2>1, <2>2 DEF EntryHolds
  <2>4. Entry(r, p)' = Entry(r, p)
    BY DEF Entry
  <2> QED BY <2>1, <2>3
<1>5. Frame
  <2>1. ASSUME NEW e \in Range(wire') \cup Range(flush'.ents)
        PROVE  e \in Range(wire) \cup Range(flush.ents) \/ EntryHolds(e)'
    <3>1. CASE e = Entry(r, p)
      BY <1>4, <3>1
    <3> QED BY <3>1
  <2> QED BY <2>1 DEF Frame, NotSequenced
<1> QED BY <1>2, <1>3, <1>5, RequestsKept

LEMMA SequencedNowKeeps ==
  ASSUME Inv, NEW r \in Requests, NEW p \in RequestStates, Proposed(r, p), SequencedNow(r, p),
         Types', SlotsHold', SlotsAreServed',
         UNCHANGED <<lease, applied, published, applications, applying, destroyed>>,
         Range(wire') \cup Range(flush'.ents) \subseteq
           Range(wire) \cup Range(flush.ents) \cup {Entry(r, p)}
  PROVE  Inv'
<1>1. /\ Types /\ RequestHolds(r) /\ BoundsHold /\ OrderHolds /\ EntriesHold /\ ValidConstants
      /\ prop' = [prop EXCEPT ![r] = p] /\ tracked' = [tracked EXCEPT ![r] = Untracked]
      /\ proposals' = proposals \cup {r} /\ r \in proposals'
      /\ prop[r].tok /\ prop[r].pc = "buffered"
  <2>1. Reinserted(r) => ~prop[r].tok
    BY DEF Inv, RequestHolds, TokenHolds, Reinserted
  <2> QED BY <2>1 DEF Inv, Proposed, SequencedNow
<1>2. /\ prop'[r] = p /\ tracked'[r] = Untracked
      /\ \A q \in Requests : q # r => Stays(q) /\ prop'[q] = prop[q]
  BY <1>1, OneMoves
<1>3. /\ p.pc = "registered" /\ ~p.tok /\ p.kind = prop[r].kind /\ p.seq = prop[r].seq
      /\ p.exp = prop[r].exp /\ p.wts = prop[r].wts /\ p.gen = prop[r].gen /\ p.seen = prop[r].seen
      /\ p.kind # "lease" /\ p.lai = assigned.lai + 1
  BY DEF Proposed, SequencedNow
<1>4. /\ assigned'.lai = assigned.lai + 1 /\ assigned'.closed = p.closed
      /\ assigned.lai \in Nat /\ applied.lai \in Nat /\ lease.seq \in Nat /\ p.lai \in Nat /\ p.seq \in Nat
      /\ assigned.closed \in Timestamps /\ p.closed \in Timestamps /\ applied.closed \in Timestamps
      /\ p.wts \in Timestamps /\ published \in Timestamps /\ lease.start \in Timestamps
      /\ p.gen \in Nat
  BY <1>1, FieldTypes, RequestTypes DEF SequencedNow, RequestStates
<1>5. /\ LessEq(assigned.closed, p.closed) /\ LessEq(p.closed, WallPrev(lease.exp))
      /\ \A q \in Requests : q # r /\ tracked[q] # Untracked /\ Less(assigned.closed, tracked[q])
                             => Less(p.closed, tracked[q])
  <2>1. PICK lb \in LowerBounds([tracked EXCEPT ![r] = Untracked]) :
          p.closed = Forward(assigned.closed, ClosedTarget(flush.target, lb, prop[r].exp))
    BY DEF SequencedNow
  <2>2. /\ LessEq(assigned.closed, p.closed) /\ LessEq(p.closed, WallPrev(lease.exp))
        /\ \A t \in Timestamps :
             lb # EmptyTS /\ LessEq(lb, t) /\ Less(assigned.closed, t) => Less(p.closed, t)
    <3>1. prop[r].pc # "idle"
      BY <1>1
    <3> QED BY <2>1, <3>1, ClosedFacts
  <2>3. ASSUME NEW q \in Requests, q # r, tracked[q] # Untracked
        PROVE  tracked[q] \in Timestamps /\ lb # EmptyTS /\ LessEq(lb, tracked[q])
    <3>1. [tracked EXCEPT ![r] = Untracked][q] = tracked[q]
      BY <1>1, <2>3 DEF Types, BufferTypes
    <3>2. PICK left : left = [tracked EXCEPT ![r] = Untracked]
      OBVIOUS
    <3>3. left[q] = tracked[q] /\ lb \in LowerBounds(left)
      BY <3>1, <3>2
    <3>4. lb # EmptyTS /\ LessEq(lb, left[q])
      BY <1>1, <2>3, <3>3, LowerBoundFacts
    <3> QED BY <1>1, <2>3, <3>3, <3>4, FieldTypes
  <2> QED BY <2>2, <2>3
<1>6. ASSUME NEW q \in Requests, q # r
      PROVE  RequestHolds(q)' /\ (Sequenced(q)' => SequencedBefore(q) /\ SequencedHolds(q))
  <2>1. RequestHolds(q) /\ prop'[q] = prop[q] /\ Stays(q)
    BY <1>2, <1>6 DEF Inv
  <2>2. (Sequenced(q)' <=> Sequenced(q)) /\ (Sequenced(q)' => SequencedBefore(q))
    BY <2>1 DEF Sequenced, SequencedBefore
  <2>3. TokenHolds(q)'
    BY <2>1 DEF Stays, RequestHolds, TokenHolds
  <2>4. RetryHolds(q)' /\ AppliedHolds(q)'
    BY <2>1, <2>2 DEF RequestHolds, RetryHolds, AppliedHolds
  <2>5. LeaseHolds(q)'
    BY <2>1 DEF RequestHolds, LeaseHolds
  <2>6. TrackedHolds(q)'
    BY <1>4, <1>5, <1>6, <2>1 DEF Stays, RequestHolds, TrackedHolds, LiveWrite
  <2>7. SequencedHolds(q)'
    <3> SUFFICES ASSUME Sequenced(q) PROVE SequencedHolds(q)'
      BY <2>2 DEF SequencedHolds
    <3>1. /\ prop[q].lai <= assigned.lai /\ prop[q].lai \in Nat
          /\ LessEq(prop[q].closed, assigned.closed) /\ prop[q].closed \in Timestamps
      BY <1>1, <2>1, RequestTypes, FieldTypes DEF RequestHolds, SequencedHolds
    <3>2. prop[q].lai <= assigned'.lai /\ LessEq(prop[q].closed, assigned'.closed)
      BY <1>4, <1>5, <3>1, OrderFacts
    <3> QED BY <2>1, <3>2 DEF RequestHolds, SequencedHolds
  <2> QED BY <2>1, <2>2, <2>3, <2>4, <2>5, <2>6, <2>7 DEF RequestHolds
<1>7. ASSUME p.seq = lease.seq
      PROVE  /\ lease.mine /\ LessEq(applied.closed, assigned.closed) /\ applied.lai <= assigned.lai
             /\ p.kind = "write" => Less(assigned.closed, p.wts) /\ Less(lease.start, p.wts)
  <2>1. lease.mine
    BY <1>1, <1>3, <1>7, FieldTypes DEF RequestHolds, LeaseHolds
  <2>2. LessEq(applied.closed, assigned.closed) /\ applied.lai <= assigned.lai
    BY <1>1, <2>1 DEF BoundsHold
  <2>3. ASSUME p.kind = "write" PROVE Less(assigned.closed, p.wts) /\ Less(lease.start, p.wts)
    <3>1. LiveWrite(r)
      BY <1>3, <1>7, <2>3 DEF LiveWrite
    <3>2. /\ tracked[r] # Untracked /\ Less(assigned.closed, tracked[r])
          /\ LessEq(tracked[r], prop[r].wts) /\ Less(lease.start, prop[r].wts)
      BY <1>1, <3>1 DEF RequestHolds, TrackedHolds, Inserting
    <3>3. tracked[r] \in Timestamps
      BY <1>1, <3>2, FieldTypes
    <3> QED BY <1>3, <1>4, <3>2, <3>3, OrderFacts
  <2> QED BY <2>1, <2>2, <2>3
<1>8. RequestHolds(r)'
  <2>1. TokenHolds(r)'
    BY <1>1, <1>2, <1>3 DEF TokenHolds, Inserting
  <2>2. RetryHolds(r)'
    BY <1>2, <1>3 DEF RetryHolds
  <2>3. AppliedHolds(r)'
    BY <1>1, <1>2, <1>3 DEF AppliedHolds, RequestHolds
  <2>4. LeaseHolds(r)'
    BY <1>1, <1>2, <1>3 DEF LeaseHolds, RequestHolds
  <2>5. TrackedHolds(r)'
    BY <1>2, <1>3, <1>7 DEF TrackedHolds, LiveWrite, Inserting
  <2>6. SequencedHolds(r)'
    <3> SUFFICES ASSUME p.seq = lease.seq
                 PROVE  /\ p.lai <= assigned'.lai
                        /\ LessEq(applied.closed, p.closed) /\ LessEq(p.closed, assigned'.closed)
                        /\ p.kind = "write" => Less(applied.closed, p.wts) /\ Less(published, p.wts)
      BY <1>2 DEF SequencedHolds, Sequenced
    <3>1. p.lai <= assigned'.lai
      BY <1>3, <1>4
    <3>2. LessEq(applied.closed, p.closed) /\ LessEq(p.closed, assigned'.closed)
      BY <1>4, <1>5, <1>7, OrderFacts
    <3>3. ASSUME p.kind = "write" PROVE Less(applied.closed, p.wts) /\ Less(published, p.wts)
      <4>1. Less(applied.closed, p.wts)
        BY <1>4, <1>7, <3>3, OrderFacts
      <4>2. LessEq(published, lease.start) \/ LessEq(published, assigned.closed)
        BY <1>1, <1>7 DEF BoundsHold
      <4> QED BY <1>4, <1>7, <3>3, <4>1, <4>2, OrderFacts
    <3> QED BY <3>1, <3>2, <3>3
  <2> QED BY <2>1, <2>2, <2>3, <2>4, <2>5, <2>6 DEF RequestHolds
<1>9. BoundsHold'
  <2>1. lease.mine => /\ LessEq(applied.closed, p.closed) /\ applied.lai <= assigned'.lai
                      /\ LessEq(published, lease.start) \/ LessEq(published, p.closed)
    BY <1>1, <1>4, <1>5, OrderFacts DEF BoundsHold
  <2> QED BY <1>1, <1>4, <1>5, <2>1 DEF BoundsHold
<1>10. OrderHolds'
  <2> SUFFICES ASSUME NEW q \in Requests, NEW s \in Requests, q # s, Sequenced(q)', Sequenced(s)'
               PROVE  InOrder(q, s)'
    BY DEF OrderHolds
  <2>1. CASE q # r /\ s # r
    <3>1. Sequenced(q) /\ Sequenced(s) /\ prop'[q] = prop[q] /\ prop'[s] = prop[s]
      BY <1>2, <1>6, <2>1 DEF SequencedBefore
    <3>2. InOrder(q, s)
      BY <1>1, <3>1 DEF OrderHolds
    <3> QED BY <3>1, <3>2 DEF InOrder
  <2>2. ASSUME NEW u \in Requests, u # r, Sequenced(u)', Sequenced(r)'
        PROVE  /\ prop'[u].lai < p.lai /\ LessEq(prop'[u].closed, p.closed)
               /\ p.kind = "write" => Less(prop'[u].closed, p.wts)
               /\ prop'[u].lai \in Nat
    <3>1. SequencedBefore(u) /\ SequencedHolds(u) /\ p.seq = lease.seq
      BY <1>2, <1>6, <2>2 DEF Sequenced
    <3>2. /\ prop[u].lai <= assigned.lai /\ LessEq(prop[u].closed, assigned.closed)
          /\ prop'[u].lai = prop[u].lai /\ prop'[u].closed = prop[u].closed
          /\ prop[u].lai \in Nat /\ prop[u].closed \in Timestamps
      BY <1>1, <3>1, RequestTypes, FieldTypes DEF SequencedBefore, SequencedHolds
    <3>3. prop[u].lai < p.lai
      BY <1>3, <1>4, <3>2
    <3>4. LessEq(prop[u].closed, p.closed)
      BY <1>4, <1>5, <3>2, OrderFacts
    <3>5. p.kind = "write" => Less(prop[u].closed, p.wts)
      BY <1>4, <1>7, <3>1, <3>2, OrderFacts
    <3> QED BY <3>2, <3>3, <3>4, <3>5
  <2>3. CASE s = r
    BY <1>2, <1>4, <2>2, <2>3 DEF InOrder
  <2>4. CASE q = r
    BY <1>2, <1>4, <2>2, <2>4 DEF InOrder
  <2> QED BY <2>1, <2>3, <2>4
<1>11. EntriesHold'
  <2> SUFFICES ASSUME NEW e \in Range(wire) \cup Range(flush.ents) \cup {Entry(r, p)}
               PROVE  EntryHolds(e)'
    BY DEF EntriesHold
  <2>1. CASE e = Entry(r, p)
    <3>1. e.r = r /\ e.kind = p.kind /\ e.seq = p.seq /\ e.gen = p.gen
      BY <2>1 DEF Entry
    <3> QED BY <1>2, <1>3, <1>4, <2>1, <3>1 DEF EntryHolds
  <2>2. CASE e \in Range(wire) \cup Range(flush.ents)
    <3>1. EntryHolds(e) /\ e \in Entries
      BY <1>1, <2>2, EntriesAreTyped DEF EntriesHold
    <3>2. PICK q \in Requests : q = e.r
      BY <3>1 DEF Entries
    <3>3. Dead(e)' <=> Dead(e)
      BY DEF Dead
    <3>4. CASE q # r
      BY <1>2, <3>1, <3>2, <3>3, <3>4 DEF EntryHolds
    <3>5. CASE q = r
      BY <1>1, <1>2, <1>3, <3>1, <3>2, <3>3, <3>5 DEF EntryHolds
    <3> QED BY <3>4, <3>5
  <2> QED BY <2>1, <2>2
<1>12. ValidConstants'
  BY <1>1 DEF ValidConstants
<1> QED BY <1>6, <1>8, <1>9, <1>10, <1>11, <1>12 DEF Inv

LEMMA FlushProposesKeeps ==
  ASSUME Inv, FlushProposes
  PROVE  Inv'
<1>1. PICK r \in Requests, p \in RequestStates :
        /\ Proposed(r, p) /\ (NotSequenced(r, p) \/ SequencedNow(r, p))
        /\ \/ /\ flush' = [NextSlot EXCEPT !.ents = Append(flush.ents, Entry(r, p))]
              /\ UNCHANGED wire
           \/ /\ wire' = wire \o Append(flush.ents, Entry(r, p))
              /\ flush' = [NextSlot EXCEPT !.ents = <<>>]
  BY FlushShape
<1>2. /\ flush' \in [owner : Requests \cup {Nobody}, i : Nat, used : Nat, target : Timestamps,
                     ents : Seq(Entries)]
      /\ flush'.owner = flush.owner /\ flush'.used = flush.used /\ flush'.i > 0
      /\ wire' \in Seq(Entries)
      /\ Range(wire') \cup Range(flush'.ents) \subseteq
           Range(wire) \cup Range(flush.ents) \cup {Entry(r, p)}
  BY <1>1, EntryAdded
<1>3. /\ UNCHANGED <<leaseVars, arr, updateCheck, applying, destroyed, applications, lock, refresh>>
      /\ Types /\ SlotsHold /\ SlotsAreServed
  BY DEF FlushProposes, Inv
<1>4. /\ prop'[r] = p
      /\ \A q \in Requests : q # r => prop'[q] = prop[q]
  BY <1>1, <1>3 DEF Proposed, Types, BufferTypes
<1>5. /\ p.pc = "registered" /\ p.gen = prop[r].gen /\ p.seen = prop[r].seen /\ p.kind = prop[r].kind
      /\ prop[r].pc = "buffered" \/ Reinserted(r)
  BY <1>1 DEF Proposed
<1>6. Types'
  <2>1. assigned' \in [lai : Nat, closed : Timestamps]
    <3>1. CASE NotSequenced(r, p)
      BY <1>3, <3>1 DEF NotSequenced, Types, LeaseTypes
    <3>2. CASE SequencedNow(r, p)
      BY <3>2 DEF SequencedNow, RequestStates
    <3> QED BY <1>1, <3>1, <3>2
  <2>2. LeaseTypes'
    BY <1>3, <2>1 DEF Types, LeaseTypes, leaseVars
  <2>3. BufferTypes'
    <3>1. IsFiniteSet(proposals') /\ proposals' \in SUBSET Requests
      BY <1>1, <1>3, FS_AddElement DEF Proposed, Types, BufferTypes
    <3> QED BY <1>1, <1>3, <3>1 DEF Proposed, Types, BufferTypes
  <2>4. RaftTypes'
    BY <1>2, <1>3 DEF Types, RaftTypes
  <2>5. LockTypes'
    BY <1>2, <1>3 DEF Types, LockTypes
  <2> QED BY <2>2, <2>3, <2>4, <2>5 DEF Types
<1>7. SlotsHold'
  <2>1. KeepsSlots(r)
    BY <1>4, <1>5 DEF KeepsSlots, Reinserted
  <2>2. \A q \in Requests : KeepsSlots(q)
    BY <1>4, <2>1 DEF KeepsSlots
  <2> QED BY <1>3, <2>2, SlotsKept
<1>8. SlotsAreServed'
  <2>1. prop[r].pc # "flush"
    BY <1>5 DEF Reinserted
  <2> QED BY <1>2, <1>3, <1>4, <1>5, <2>1, ServedKept
<1> QED BY <1>1, <1>2, <1>3, <1>6, <1>7, <1>8, NotSequencedKeeps, SequencedNowKeeps DEF leaseVars

-----------------------------------------------------------------------------
(* Application, and the lease. *)

(* The request's latest ProposalData is as it was, but for what has become *)
(* of it.                                                                  *)
KeepsCommand(r) ==
  /\ prop'[r].kind = prop[r].kind /\ prop'[r].seq = prop[r].seq /\ prop'[r].exp = prop[r].exp
  /\ prop'[r].gen = prop[r].gen /\ prop'[r].lai = prop[r].lai /\ prop'[r].closed = prop[r].closed
  /\ prop'[r].wts = prop[r].wts /\ prop'[r].tok = prop[r].tok
  /\ prop'[r].pc = prop[r].pc \/ (prop[r].pc = "registered" /\ prop'[r].pc \in {"done", "retry"})

LEMMA NewLeaseFacts ==
  ASSUME Inv, NEW mine \in BOOLEAN, NewLease(mine)
  PROVE  /\ lease' \in [seq : Nat, mine : BOOLEAN, start : Timestamps, exp : Timestamps]
         /\ lease'.seq = lease.seq + 1 /\ lease'.mine = mine /\ lease'.start = lease.exp
         /\ lease'.exp.wall > 0 /\ LessEq(lease.exp, lease'.exp)
         /\ LessEq(WallPrev(lease.exp), WallPrev(lease'.exp))
         /\ WallPrev(lease.exp) \in Timestamps /\ WallPrev(lease'.exp) \in Timestamps
         /\ Less(WallPrev(lease.exp), lease.exp)
         /\ assigned' \in [lai : Nat, closed : Timestamps]
         /\ LessEq(assigned'.closed, WallPrev(lease.exp))
         /\ mine => LessEq(applied.closed, assigned'.closed) /\ applied.lai <= assigned'.lai
<1>1. /\ Types /\ BoundsHold /\ ValidConstants
      /\ lease \in [seq : Nat, mine : BOOLEAN, start : Timestamps, exp : Timestamps]
      /\ lease.exp.wall > 0 /\ LeaseLength \in Nat \ {0}
      /\ assigned.closed \in Timestamps /\ assigned.lai \in Nat
      /\ applied.closed \in Timestamps /\ applied.lai \in Nat
  BY DEF Inv, Types, LeaseTypes, ValidConstants
<1>2. PICK x \in Timestamps, n \in Nat :
        /\ x = At(lease.exp.wall + LeaseLength, 0) /\ x.wall > 0 /\ LessEq(lease.exp, x)
        /\ n = lease.seq + 1
  <2>1. PICK w \in Nat : w = lease.exp.wall /\ lease.exp.wall > 0
    BY <1>1 DEF Timestamps
  <2>2. w + LeaseLength \in Nat /\ w + LeaseLength > w /\ w + LeaseLength > 0 /\ lease.seq + 1 \in Nat
    BY <1>1, <2>1
  <2>3. At(w + LeaseLength, 0) \in Timestamps
    BY <2>2, TimestampAssumption DEF At, Timestamps
  <2>4. LessEq(lease.exp, At(w + LeaseLength, 0)) /\ At(w + LeaseLength, 0).wall > 0
    BY <2>1, <2>2 DEF At, Less, LessEq
  <2> QED BY <2>1, <2>2, <2>3, <2>4
<1>3. lease' = [seq |-> n, mine |-> mine, start |-> lease.exp, exp |-> x]
  BY <1>2 DEF NewLease
<1>4. /\ lease' \in [seq : Nat, mine : BOOLEAN, start : Timestamps, exp : Timestamps]
      /\ lease'.seq = n /\ lease'.mine = mine /\ lease'.start = lease.exp /\ lease'.exp = x
  BY <1>1, <1>3
<1>5. /\ WallPrev(lease.exp) \in Timestamps /\ WallPrev(x) \in Timestamps
      /\ Less(WallPrev(lease.exp), lease.exp) /\ LessEq(WallPrev(lease.exp), WallPrev(x))
  <2>1. PICK y \in Timestamps : y = lease.exp /\ y.wall > 0
    BY <1>1
  <2> QED BY <1>2, <2>1, WallPrevFacts
<1>6. /\ LessEq(assigned.closed, WallPrev(lease.exp)) /\ LessEq(applied.closed, WallPrev(lease.exp))
  BY <1>1 DEF BoundsHold
<1>7. CASE mine
  <2>1. PICK c \in Timestamps, l \in Nat :
          /\ c = Forward(assigned.closed, applied.closed) /\ LessEq(applied.closed, c)
          /\ c \in {assigned.closed, applied.closed}
          /\ l = IF assigned.lai < applied.lai THEN applied.lai ELSE assigned.lai
          /\ applied.lai <= l
    <3>1. /\ Forward(assigned.closed, applied.closed) \in {assigned.closed, applied.closed}
          /\ LessEq(applied.closed, Forward(assigned.closed, applied.closed))
      BY <1>1, ForwardFacts
    <3> QED BY <1>1, <3>1
  <2>2. assigned' = [lai |-> l, closed |-> c]
    BY <1>7, <2>1 DEF NewLease
  <2>3. LessEq(c, WallPrev(lease.exp))
    BY <1>6, <2>1
  <2> QED BY <1>2, <1>4, <1>5, <2>1, <2>2, <2>3
<1>8. CASE ~mine
  <2>1. PICK c \in Timestamps : c = EmptyTS /\ LessEq(c, WallPrev(lease.exp))
    BY <1>5, EmptyFacts
  <2>2. assigned' = [lai |-> 0, closed |-> c]
    BY <1>8, <2>1 DEF NewLease
  <2> QED BY <1>2, <1>4, <1>5, <1>8, <2>1, <2>2
<1> QED BY <1>7, <1>8

LEMMA NewLeaseKeeps ==
  ASSUME Inv, NEW mine \in BOOLEAN, NewLease(mine),
         Types', SlotsHold', SlotsAreServed',
         UNCHANGED <<applied, published, flush>>, Range(wire') \subseteq Range(wire),
         \A r \in Requests : /\ KeepsCommand(r) /\ TokenHolds(r)' /\ applications'[r] <= 1
                             /\ prop'[r].pc # "retry"
  PROVE  Inv'
<1>1. /\ lease'.seq = lease.seq + 1 /\ lease'.mine = mine /\ lease'.start = lease.exp
      /\ LessEq(lease.exp, lease'.exp) /\ lease'.exp \in Timestamps /\ lease.exp \in Timestamps
      /\ LessEq(WallPrev(lease.exp), WallPrev(lease'.exp))
      /\ WallPrev(lease.exp) \in Timestamps /\ WallPrev(lease'.exp) \in Timestamps
      /\ Less(WallPrev(lease.exp), lease.exp)
      /\ assigned'.closed \in Timestamps
      /\ LessEq(assigned'.closed, WallPrev(lease.exp))
      /\ mine => LessEq(applied.closed, assigned'.closed) /\ applied.lai <= assigned'.lai
      /\ lease.seq \in Nat
  <2>1. lease.exp \in Timestamps /\ lease.seq \in Nat
    BY DEF Inv, Types, LeaseTypes
  <2> QED BY <2>1, NewLeaseFacts
<1>2. /\ Types /\ BoundsHold /\ EntriesHold /\ ValidConstants
      /\ applied.closed \in Timestamps /\ published \in Timestamps
  BY DEF Inv, Types, LeaseTypes
<1>3. ASSUME NEW r \in Requests
      PROVE  /\ RequestHolds(r) /\ KeepsCommand(r) /\ prop[r].seq \in Nat
             /\ prop'[r].seq < lease'.seq /\ prop'[r].seq # lease'.seq /\ prop'[r].seq <= lease'.seq
  <2>1. RequestHolds(r) /\ KeepsCommand(r) /\ prop[r].seq \in Nat /\ prop'[r].seq = prop[r].seq
    BY <1>2, RequestTypes DEF Inv, KeepsCommand
  <2>2. prop[r].seq <= lease.seq
    BY <2>1 DEF RequestHolds, LeaseHolds
  <2> QED BY <1>1, <2>1, <2>2
<1>4. \A r \in Requests : ~Sequenced(r)'
  BY <1>3 DEF Sequenced
<1>5. ASSUME NEW r \in Requests PROVE RequestHolds(r)'
  <2>1. TokenHolds(r)' /\ RetryHolds(r)'
    BY <1>4 DEF RetryHolds
  <2>2. AppliedHolds(r)'
    BY <1>3 DEF AppliedHolds
  <2>3. LeaseHolds(r)'
    <3>1. prop'[r].pc # "idle" => prop[r].pc # "idle"
      BY <1>3 DEF KeepsCommand
    <3>2. prop[r].exp \in Timestamps /\ prop'[r].exp = prop[r].exp
      BY <1>2, <1>3, FieldTypes DEF KeepsCommand
    <3>3. prop[r].pc # "idle" => prop[r].exp.wall > 0 /\ LessEq(prop[r].exp, lease'.exp)
      BY <1>1, <1>3, <3>2, OrderFacts DEF RequestHolds, LeaseHolds
    <3> QED BY <1>3, <3>1, <3>2, <3>3 DEF LeaseHolds
  <2>4. TrackedHolds(r)' /\ SequencedHolds(r)'
    BY <1>3, <1>4 DEF TrackedHolds, SequencedHolds, LiveWrite
  <2> QED BY <2>1, <2>2, <2>3, <2>4 DEF RequestHolds
<1>6. OrderHolds'
  BY <1>4 DEF OrderHolds
<1>7. EntriesHold'
  <2> SUFFICES ASSUME NEW e \in Range(wire) \cup Range(flush.ents)
               PROVE  EntryHolds(e)'
    BY DEF EntriesHold
  <2>1. EntryHolds(e) /\ e \in Entries
    BY <1>2, EntriesAreTyped DEF EntriesHold
  <2>2. PICK r \in Requests : r = e.r
    BY <2>1 DEF Entries
  <2>3. Dead(e)'
    BY <1>3, <2>1, <2>2 DEF Dead, EntryHolds, KeepsCommand
  <2> QED BY <1>3, <2>1, <2>2, <2>3 DEF EntryHolds, KeepsCommand, Entry
<1>8. BoundsHold'
  <2>1. LessEq(applied.closed, WallPrev(lease'.exp)) /\ LessEq(published, WallPrev(lease'.exp))
    BY <1>1, <1>2, OrderFacts DEF BoundsHold
  <2>2. LessEq(assigned'.closed, WallPrev(lease'.exp))
    BY <1>1, OrderFacts
  <2>3. LessEq(published, lease'.start)
    BY <1>1, <1>2, OrderFacts DEF BoundsHold
  <2> QED BY <1>1, <2>1, <2>2, <2>3 DEF BoundsHold
<1>9. ValidConstants'
  BY <1>2 DEF ValidConstants
<1> QED BY <1>5, <1>6, <1>7, <1>8, <1>9 DEF Inv

LEMMA OtherAcquiresLeaseKeeps ==
  ASSUME Inv, OtherAcquiresLease
  PROVE  Inv'
<1>1. /\ Types /\ SlotsHold /\ SlotsAreServed /\ NewLease(FALSE)
      /\ applying = Nobody /\ ValidConstants
      /\ UNCHANGED <<applied, published, prop, tracked, arr, proposals, updateCheck, raftVars, lockVars>>
  BY DEF Inv, OtherAcquiresLease
<1>2. Types'
  <2>1. LeaseTypes'
    BY <1>1, NewLeaseFacts DEF Types, LeaseTypes
  <2> QED BY <1>1, <2>1 DEF Types, BufferTypes, RaftTypes, LockTypes, raftVars, lockVars
<1>3. SlotsHold'
  BY <1>1, RequestsUntouched, SlotsKept DEF lockVars
<1>4. SlotsAreServed'
  BY <1>1, ServedKept DEF lockVars, raftVars
<1>5. ASSUME NEW r \in Requests
      PROVE  /\ KeepsCommand(r) /\ TokenHolds(r)' /\ applications'[r] <= 1 /\ prop'[r].pc # "retry"
  <2>1. RequestHolds(r)
    BY DEF Inv
  <2>2. KeepsCommand(r) /\ applications'[r] <= 1
    BY <1>1, <2>1 DEF KeepsCommand, RequestHolds, AppliedHolds, raftVars
  <2>3. TokenHolds(r)'
    BY <1>1, <2>1 DEF RequestHolds, TokenHolds, raftVars
  <2>4. prop'[r].pc # "retry"
    BY <1>1, <2>1 DEF RequestHolds, RetryHolds, ValidConstants
  <2> QED BY <2>2, <2>3, <2>4
<1>6. UNCHANGED <<applied, published, flush>> /\ Range(wire') \subseteq Range(wire)
  BY <1>1 DEF raftVars, lockVars
<1> QED BY <1>1, <1>2, <1>3, <1>4, <1>5, <1>6, NewLeaseKeeps

(* A step that finds nothing sequenced, and leaves the requests alone. *)
LEMMA NothingSequencedKeeps ==
  ASSUME Inv, Types', UNCHANGED <<lease, prop, tracked, arr, proposals, updateCheck, raftVars, lockVars>>,
         applied.lai <= applied'.lai, BoundsHold',
         \A r \in Requests : ~Sequenced(r) /\ ~Sequenced(r)' /\ TrackedHolds(r)'
  PROVE  Inv'
<1>1. Types /\ SlotsHold /\ SlotsAreServed /\ EntriesHold /\ ValidConstants
  BY DEF Inv
<1>2. SlotsHold'
  BY <1>1, RequestsUntouched, SlotsKept DEF lockVars
<1>3. SlotsAreServed'
  BY <1>1, ServedKept DEF lockVars, raftVars
<1>4. ASSUME NEW r \in Requests PROVE RequestHolds(r)'
  <2>1. RequestHolds(r) /\ ~Sequenced(r)'
    BY DEF Inv
  <2>2. TokenHolds(r)'
    BY <2>1 DEF RequestHolds, TokenHolds, raftVars
  <2>3. RetryHolds(r)'
    BY <2>1 DEF RequestHolds, RetryHolds, raftVars
  <2>4. AppliedHolds(r)'
    BY <2>1 DEF RequestHolds, AppliedHolds, raftVars
  <2>5. LeaseHolds(r)'
    BY <2>1 DEF RequestHolds, LeaseHolds
  <2>6. SequencedHolds(r)'
    BY <2>1 DEF SequencedHolds
  <2> QED BY <2>2, <2>3, <2>4, <2>5, <2>6 DEF RequestHolds
<1>5. OrderHolds'
  BY DEF OrderHolds
<1>6. EntriesHold'
  <2> SUFFICES ASSUME NEW e \in Range(wire) \cup Range(flush.ents)
               PROVE  EntryHolds(e)'
    BY DEF EntriesHold, raftVars, lockVars
  <2>1. EntryHolds(e) /\ e \in Entries /\ e.lai \in Nat
    BY <1>1, EntriesAreTyped DEF EntriesHold, Entries
  <2>2. applied.lai \in Nat /\ applied'.lai \in Nat
    BY <1>1 DEF Types, LeaseTypes
  <2>3. Dead(e) => Dead(e)'
    BY <2>1, <2>2 DEF Dead
  <2> QED BY <2>1, <2>3 DEF EntryHolds
<1>7. ValidConstants'
  BY <1>1 DEF ValidConstants
<1> QED BY <1>2, <1>3, <1>4, <1>5, <1>6, <1>7 DEF Inv

LEMMA OtherAppliesKeeps ==
  ASSUME Inv, OtherApplies
  PROVE  Inv'
<1>1. /\ Types /\ BoundsHold /\ ~lease.mine /\ ValidConstants
      /\ UNCHANGED <<lease, published, bufVars, raftVars, lockVars>>
      /\ applied.lai \in Nat /\ applied.closed \in Timestamps
  BY DEF Inv, OtherApplies, Types, LeaseTypes
<1>2. PICK closed \in Targets :
        /\ LessEq(closed, WallPrev(lease.exp))
        /\ applied' = [lai |-> applied.lai + 1, closed |-> Forward(applied.closed, closed)]
  BY DEF OtherApplies
<1>3. PICK c \in Timestamps, n \in Nat :
        /\ c = Forward(applied.closed, closed) /\ c \in {applied.closed, closed} /\ n = applied.lai + 1
  <2>1. closed \in Timestamps
    BY <1>1 DEF ValidConstants
  <2>2. Forward(applied.closed, closed) \in {applied.closed, closed}
    BY <1>1, <2>1, ForwardFacts
  <2>3. applied.lai + 1 \in Nat
    BY <1>1
  <2> QED BY <1>1, <2>1, <2>2, <2>3
<1>4. applied' = [lai |-> n, closed |-> c] /\ applied.lai <= n
  BY <1>1, <1>2, <1>3
<1>5. Types'
  <2>1. LeaseTypes'
    BY <1>1, <1>4 DEF Types, LeaseTypes, bufVars
  <2> QED BY <1>1, <2>1 DEF Types, BufferTypes, RaftTypes, LockTypes, bufVars, raftVars, lockVars
<1>6. BoundsHold'
  <2>1. LessEq(c, WallPrev(lease.exp))
    BY <1>1, <1>2, <1>3 DEF BoundsHold
  <2> QED BY <1>1, <1>4, <2>1 DEF BoundsHold, bufVars
<1>7. ASSUME NEW r \in Requests PROVE ~Sequenced(r) /\ ~Sequenced(r)' /\ TrackedHolds(r)'
  <2>1. RequestHolds(r) /\ prop[r].lai \in Nat /\ prop' = prop /\ tracked' = tracked /\ assigned' = assigned
    BY <1>1, RequestTypes DEF Inv, bufVars
  <2>2. prop[r].kind # "lease" /\ prop[r].seq = lease.seq => prop[r].pc = "idle" /\ prop[r].lai = 0
    <3>1. prop[r].kind # "lease" /\ prop[r].seq = lease.seq => prop[r].pc = "idle"
      BY <1>1, <2>1 DEF RequestHolds, LeaseHolds
    <3>2. prop[r].pc = "idle" => prop[r].lai = 0
      BY <2>1 DEF RequestHolds, TokenHolds, NewRequest
    <3> QED BY <3>1, <3>2
  <2>3. ~Sequenced(r) /\ ~Sequenced(r)'
    BY <1>1, <1>4, <2>1, <2>2 DEF Sequenced
  <2>4. TrackedHolds(r)'
    BY <1>1, <2>1 DEF RequestHolds, TrackedHolds, LiveWrite
  <2> QED BY <2>3, <2>4
<1> QED BY <1>1, <1>4, <1>5, <1>6, <1>7, NothingSequencedKeeps DEF bufVars

LEMMA BumpKeeps ==
  ASSUME Inv, BumpSideTransportClosed
  PROVE  Inv'
<1>1. /\ Types /\ BoundsHold /\ lease.mine /\ ~destroyed /\ proposals = {} /\ ValidConstants
      /\ UNCHANGED <<lease, applied, prop, tracked, arr, proposals, updateCheck, raftVars, lockVars>>
      /\ assigned \in [lai : Nat, closed : Timestamps] /\ published \in Timestamps
      /\ applied.closed \in Timestamps /\ applied.lai \in Nat
      /\ lease.exp \in Timestamps /\ lease.exp.wall > 0 /\ lease.start \in Timestamps
  BY DEF Inv, BumpSideTransportClosed, NothingInFlight, Types, LeaseTypes
<1>2. PICK target \in Targets, lb \in LowerBounds(tracked) :
        /\ ~Less(WallPrev(lease.exp), target)
        /\ lb = EmptyTS \/ Less(target, lb)
        /\ Less(assigned.closed, target)
        /\ assigned' = [assigned EXCEPT !.closed = target]
        /\ published' = Forward(published, target)
  BY DEF BumpSideTransportClosed
<1>3. /\ target \in Timestamps /\ WallPrev(lease.exp) \in Timestamps
      /\ LessEq(target, WallPrev(lease.exp))
      /\ published' \in {published, target} /\ published' \in Timestamps
      /\ assigned' \in [lai : Nat, closed : Timestamps]
      /\ assigned'.closed = target /\ assigned'.lai = assigned.lai
  <2>1. target \in Timestamps
    BY <1>1 DEF ValidConstants
  <2>2. WallPrev(lease.exp) \in Timestamps
    BY <1>1, WallPrevFacts
  <2>3. LessEq(target, WallPrev(lease.exp))
    BY <1>2, <2>1, <2>2, OrderFacts
  <2>4. published' \in {published, target}
    BY <1>1, <1>2, <2>1, ForwardFacts
  <2>5. /\ assigned' \in [lai : Nat, closed : Timestamps]
        /\ assigned'.closed = target /\ assigned'.lai = assigned.lai
    BY <1>1, <1>2, <2>1
  <2> QED BY <1>1, <2>1, <2>2, <2>3, <2>4, <2>5
<1>4. Types'
  <2>1. LeaseTypes'
    BY <1>1, <1>3 DEF Types, LeaseTypes
  <2> QED BY <1>1, <2>1 DEF Types, BufferTypes, RaftTypes, LockTypes, raftVars, lockVars
<1>5. BoundsHold'
  <2>1. LessEq(published', WallPrev(lease.exp))
    BY <1>1, <1>3 DEF BoundsHold
  <2>2. LessEq(applied.closed, target)
    BY <1>1, <1>2, <1>3, OrderFacts DEF BoundsHold
  <2>3. LessEq(published', lease.start) \/ LessEq(published', target)
    BY <1>1, <1>2, <1>3, OrderFacts DEF BoundsHold
  <2> QED BY <1>1, <1>3, <2>1, <2>2, <2>3 DEF BoundsHold
<1>6. ASSUME NEW r \in Requests PROVE ~Sequenced(r) /\ ~Sequenced(r)' /\ TrackedHolds(r)'
  <2>1. RequestHolds(r)
    BY DEF Inv
  <2>2. ~Sequenced(r)
    BY <1>1, <2>1 DEF RequestHolds, RetryHolds, TokenHolds
  <2>3. ~Sequenced(r)'
    BY <1>1, <2>2 DEF Sequenced
  <2>4. TrackedHolds(r)'
    <3>1. tracked[r] # Untracked => Less(target, tracked[r])
      <4> SUFFICES ASSUME tracked[r] # Untracked PROVE Less(target, tracked[r])
        OBVIOUS
      <4>1. lb \in Timestamps /\ lb # EmptyTS /\ LessEq(lb, tracked[r])
        BY <1>1, LowerBoundFacts
      <4>2. tracked[r] \in Timestamps
        BY <1>1, FieldTypes
      <4> QED BY <1>2, <1>3, <4>1, <4>2, OrderFacts
    <3> QED BY <1>1, <1>3, <2>1, <3>1 DEF RequestHolds, TrackedHolds, LiveWrite
  <2> QED BY <2>2, <2>3, <2>4
<1>7. applied.lai <= applied'.lai
  BY <1>1
<1> QED BY <1>1, <1>4, <1>5, <1>6, <1>7, NothingSequencedKeeps

(* What an entry that comes up does to requests: the proposal it is for,   *)
(* if it is one of this replica's, leaves the map, as applied, rejected or *)
(* to be tried again.                                                      *)
Answered(e, r) ==
  /\ e \in Range(wire) /\ e \in Entries /\ r = e.r
  /\ wire' \in Seq(Entries) /\ Range(wire') \subseteq Range(wire)
  /\ lock = "free" /\ applying = Nobody /\ ~destroyed
  /\ UNCHANGED <<published, tracked, arr, updateCheck, destroyed, lockVars>>
  /\ \/ ~Local(e) /\ UNCHANGED <<proposals, prop, applying>>
     \/ /\ Local(e) /\ proposals' = proposals \ {r}
        /\ \E x \in {"retry", "done"} :
             /\ x = "retry" <=> (e.seq = lease.seq /\ ~CanApply(e))
             /\ prop' = [prop EXCEPT ![r].seen = TRUE, ![r].pc = x]
             /\ applying' = IF x = "retry" THEN r ELSE Nobody

LEMMA ApplyShape ==
  ASSUME Inv, Apply
  PROVE  \E e \in Entries, r \in Requests :
           /\ Answered(e, r)
           /\ IF CanApply(e)
                THEN applications' = [applications EXCEPT ![r] = @ + 1]
                ELSE UNCHANGED applications
           /\ IF CanApply(e) /\ e.kind # "lease"
                THEN applied' = [lai |-> e.lai, closed |-> IF e.closed # EmptyTS THEN e.closed
                                                                               ELSE applied.closed]
                ELSE UNCHANGED applied
           /\ IF CanApply(e) /\ e.kind = "lease"
                THEN NewLease(TRUE)
                ELSE UNCHANGED <<lease, assigned>>
<1>1. wire \in Seq(Entries)
  BY DEF Inv, Types, RaftTypes
<1>2. PICK i \in DOMAIN wire :
        LET e == wire[i]
            retry == Local(e) /\ e.seq = lease.seq /\ ~CanApply(e)
        IN /\ lock = "free" /\ applying = Nobody /\ ~destroyed
           /\ wire' = RemoveAt(wire, i)
           /\ IF Local(e)
                THEN /\ proposals' = proposals \ {e.r}
                     /\ prop' = [prop EXCEPT ![e.r].seen = TRUE,
                                             ![e.r].pc = IF retry THEN "retry" ELSE "done"]
                     /\ applying' = IF retry THEN e.r ELSE Nobody
                ELSE UNCHANGED <<proposals, prop, applying>>
           /\ IF CanApply(e)
                THEN applications' = [applications EXCEPT ![e.r] = @ + 1]
                ELSE UNCHANGED applications
           /\ IF CanApply(e) /\ e.kind # "lease"
                THEN applied' = [lai |-> e.lai, closed |-> IF e.closed # EmptyTS THEN e.closed
                                                                               ELSE applied.closed]
                ELSE UNCHANGED applied
           /\ IF CanApply(e) /\ e.kind = "lease"
                THEN NewLease(TRUE)
                ELSE UNCHANGED <<lease, assigned>>
           /\ UNCHANGED <<published, tracked, arr, updateCheck, destroyed, lockVars>>
  BY DEF Apply
<1>3. PICK e \in Entries : e = wire[i] /\ e \in Range(wire)
  BY <1>1 DEF Range
<1>4. PICK r \in Requests : r = e.r
  BY DEF Entries
<1>5. wire' \in Seq(Entries) /\ Range(wire') \subseteq Range(wire)
  BY <1>1, <1>2, RemoveAtFacts
<1>6. Answered(e, r)
  <2>1. CASE Local(e)
    <3>1. PICK x \in {"retry", "done"} :
            /\ x = IF e.seq = lease.seq /\ ~CanApply(e) THEN "retry" ELSE "done"
            /\ x = "retry" <=> (e.seq = lease.seq /\ ~CanApply(e))
      OBVIOUS
    <3>2. /\ proposals' = proposals \ {r}
          /\ prop' = [prop EXCEPT ![r].seen = TRUE, ![r].pc = x]
          /\ applying' = IF x = "retry" THEN r ELSE Nobody
      BY <1>2, <1>3, <1>4, <2>1, <3>1
    <3> QED BY <1>2, <1>3, <1>4, <1>5, <2>1, <3>1, <3>2 DEF Answered
  <2>2. CASE ~Local(e)
    BY <1>2, <1>3, <1>4, <1>5, <2>2 DEF Answered
  <2> QED BY <2>1, <2>2
<1> QED BY <1>2, <1>3, <1>4, <1>6

LEMMA AnsweredFacts ==
  ASSUME Inv, NEW e \in Entries, NEW r \in Requests, Answered(e, r)
  PROVE  /\ BufferTypes' /\ LockTypes' /\ applying' \in Requests \cup {Nobody}
         /\ wire' \in Seq(Entries) /\ Range(wire') \subseteq Range(wire)
         /\ SlotsHold' /\ SlotsAreServed'
         /\ \A q \in Requests : KeepsCommand(q) /\ (q # r => Stays(q) /\ prop'[q] = prop[q])
         /\ \A q \in Requests :
              (prop'[q].pc = "idle" => applications'[q] = applications[q]) => TokenHolds(q)'
         /\ ~Local(e) => prop'[r] = prop[r] /\ Stays(r)
         /\ Local(e) => /\ e = Entry(r, prop[r]) /\ ~prop[r].tok /\ prop[r].pc = "registered"
                        /\ prop'[r].seen /\ prop'[r].pc \in {"retry", "done"}
                        /\ prop'[r].pc = "retry" <=> (e.seq = lease.seq /\ ~CanApply(e))
                        /\ prop'[r].pc = "retry" => applying' = r
<1>1. /\ Types /\ SlotsHold /\ SlotsAreServed /\ EntriesHold /\ ValidConstants
      /\ prop \in [Requests -> RequestStates] /\ RequestHolds(r)
  BY DEF Inv, Types, BufferTypes
<1>2. /\ e \in Range(wire) /\ r = e.r /\ applying = Nobody /\ lock = "free"
      /\ wire' \in Seq(Entries) /\ Range(wire') \subseteq Range(wire)
      /\ UNCHANGED <<published, tracked, arr, updateCheck, destroyed, lockVars>>
  BY DEF Answered
<1>3. EntryHolds(e) /\ refresh' = <<>>
  BY <1>1, <1>2 DEF EntriesHold, Types, LockTypes, lockVars
<1>4. \A q \in Requests : prop[q].pc # "retry"
  BY <1>1, <1>2 DEF Inv, RequestHolds, RetryHolds, ValidConstants
<1>5. LockTypes'
  BY <1>1, <1>2 DEF Types, LockTypes, lockVars
<1>6. CASE ~Local(e)
  <2>1. UNCHANGED <<proposals, prop, applying>>
    BY <1>6 DEF Answered
  <2>2. BufferTypes' /\ applying' \in Requests \cup {Nobody}
    BY <1>1, <1>2, <2>1 DEF Types, BufferTypes, RaftTypes
  <2>3. SlotsHold'
    BY <1>1, <1>2, <2>1, RequestsUntouched, SlotsKept DEF lockVars
  <2>4. SlotsAreServed'
    BY <1>1, <1>2, <2>1, ServedKept DEF lockVars
  <2>5. \A q \in Requests : KeepsCommand(q) /\ Stays(q) /\ prop'[q] = prop[q]
    BY <1>2, <2>1 DEF KeepsCommand, Stays
  <2>6. ASSUME NEW q \in Requests, prop'[q].pc = "idle" => applications'[q] = applications[q]
        PROVE  TokenHolds(q)'
    <3>1. RequestHolds(q)
      BY DEF Inv
    <3> QED BY <1>2, <2>1, <2>6, <3>1 DEF RequestHolds, TokenHolds
  <2> QED BY <1>2, <1>5, <1>6, <2>2, <2>3, <2>4, <2>5, <2>6
<1>7. CASE Local(e)
  <2>1. PICK x \in {"retry", "done"} :
          /\ proposals' = proposals \ {r}
          /\ x = "retry" <=> (e.seq = lease.seq /\ ~CanApply(e))
          /\ prop' = [prop EXCEPT ![r].seen = TRUE, ![r].pc = x]
          /\ applying' = IF x = "retry" THEN r ELSE Nobody
    BY <1>7 DEF Answered
  <2>2. r \in proposals /\ e.gen = prop[r].gen /\ prop[r].pc = "registered"
    BY <1>1, <1>2, <1>7 DEF Local, RequestHolds, TokenHolds
  <2>3. e = Entry(r, prop[r]) /\ ~prop[r].tok
    BY <1>2, <1>3, <2>2 DEF EntryHolds
  <2>4. prop' = [prop EXCEPT ![r] = [prop[r] EXCEPT !.seen = TRUE, !.pc = x]]
    BY <1>1, <2>1
  <2>5. PICK p \in RequestStates :
          /\ prop' = [prop EXCEPT ![r] = p] /\ p.seen /\ p.pc = x
          /\ p.kind = prop[r].kind /\ p.seq = prop[r].seq /\ p.exp = prop[r].exp
          /\ p.gen = prop[r].gen /\ p.lai = prop[r].lai /\ p.tok = prop[r].tok
          /\ p.closed = prop[r].closed /\ p.wts = prop[r].wts
    <3>1. prop[r] \in RequestStates
      BY <1>1
    <3>2. [prop[r] EXCEPT !.seen = TRUE, !.pc = x] \in RequestStates
      BY <3>1 DEF RequestStates
    <3> QED BY <2>4, <3>1, <3>2 DEF RequestStates
  <2>6. prop'[r] = p /\ \A q \in Requests : q # r => prop'[q] = prop[q]
    BY <1>1, <2>5
  <2>7. \A q \in Requests : q # r => Stays(q)
    BY <1>2, <1>4, <2>1, <2>6 DEF Stays
  <2>8. \A q \in Requests : KeepsCommand(q)
    <3>1. KeepsCommand(r)
      BY <2>2, <2>5, <2>6 DEF KeepsCommand
    <3> QED BY <2>6, <3>1 DEF KeepsCommand
  <2>9. BufferTypes' /\ applying' \in Requests \cup {Nobody}
    <3>1. IsFiniteSet(proposals') /\ proposals' \in SUBSET Requests
      BY <1>1, <2>1, FS_Subset DEF Types, BufferTypes
    <3>2. BufferTypes'
      BY <1>1, <1>2, <2>5, <3>1 DEF Types, BufferTypes
    <3> QED BY <2>1, <3>2
  <2>10. SlotsHold'
    <3>1. KeepsSlots(r)
      BY <1>3, <2>5, <2>6 DEF KeepsSlots
    <3>2. \A q \in Requests : KeepsSlots(q)
      BY <2>6, <3>1 DEF KeepsSlots
    <3> QED BY <1>1, <1>2, <3>2, SlotsKept DEF lockVars
  <2>11. SlotsAreServed'
    BY <1>1, <1>2, <2>2, <2>5, <2>6, ServedKept DEF lockVars
  <2>12. ASSUME NEW q \in Requests, prop'[q].pc = "idle" => applications'[q] = applications[q]
         PROVE  TokenHolds(q)'
    <3>1. RequestHolds(q)
      BY DEF Inv
    <3>2. CASE q # r
      BY <1>2, <2>1, <2>6, <2>12, <3>1, <3>2 DEF RequestHolds, TokenHolds
    <3>3. CASE q = r
      BY <1>2, <2>1, <2>2, <2>3, <2>5, <2>6, <3>1, <3>3 DEF RequestHolds, TokenHolds, Inserting
    <3> QED BY <3>2, <3>3
  <2> QED BY <1>2, <1>5, <1>7, <2>1, <2>3, <2>2, <2>5, <2>6, <2>7, <2>8, <2>9, <2>10, <2>11, <2>12
<1> QED BY <1>6, <1>7

LEMMA RejectedKeeps ==
  ASSUME Inv, NEW e \in Entries, NEW r \in Requests, Answered(e, r), ~CanApply(e),
         UNCHANGED <<lease, applied, assigned, applications>>
  PROVE  Inv'
<1>1. /\ Types /\ RequestHolds(r) /\ lease.seq \in Nat /\ applied.lai \in Nat /\ prop[r].lai \in Nat
      /\ UNCHANGED <<published, tracked, arr, updateCheck, destroyed, lockVars>>
  BY RequestTypes DEF Inv, Answered
<1>2. Types'
  <2>1. LeaseTypes'
    BY <1>1 DEF Types, LeaseTypes
  <2>2. RaftTypes'
    BY <1>1, AnsweredFacts DEF Types, RaftTypes
  <2> QED BY <2>1, <2>2, AnsweredFacts DEF Types
<1>3. Frame
  BY <1>1, AnsweredFacts DEF Frame, lockVars
<1>4. \A q \in Requests : q # r => Stays(q)
  BY AnsweredFacts
<1>5. ~Local(e) => Stays(r)
  BY AnsweredFacts
<1>6. ASSUME Local(e) PROVE Moves(r)
  <2>1. /\ e = Entry(r, prop[r]) /\ ~prop[r].tok /\ prop[r].pc = "registered"
        /\ prop'[r].seen /\ prop'[r].pc \in {"retry", "done"}
        /\ prop'[r].pc = "retry" <=> (e.seq = lease.seq /\ ~CanApply(e))
        /\ prop'[r].pc = "retry" => applying' = r
        /\ KeepsCommand(r)
    BY <1>6, AnsweredFacts
  <2>2. TokenHolds(r)'
    BY AnsweredFacts
  <2>3. ~Sequenced(r) /\ (prop'[r].pc = "retry" => prop[r].kind # "lease")
    BY <2>1 DEF CanApply, Entry, Sequenced
  <2>4. TrackedHolds(r)'
    BY <1>1, <2>1 DEF RequestHolds, TrackedHolds, LiveWrite, KeepsCommand, Inserting
  <2> QED BY <2>1, <2>2, <2>3, <2>4 DEF Moves, KeepsCommand
<1>7. SlotsAreServed' /\ SlotsHold'
  BY AnsweredFacts
<1> QED BY <1>2, <1>3, <1>4, <1>5, <1>6, <1>7, RequestsKept

(* What applies is the latest of its request, sequenced under the lease    *)
(* that is in force, and this replica's own.                               *)
LEMMA AppliesFacts ==
  ASSUME Inv, NEW e \in Range(wire), CanApply(e)
  PROVE  \E r \in Requests :
           /\ r = e.r /\ e = Entry(r, prop[r]) /\ ~prop[r].tok /\ e.gen = prop[r].gen
           /\ e.kind # "lease" => Sequenced(r) /\ ~Dead(e)
<1>1. Types /\ EntriesHold /\ e \in Entries
  BY EntriesAreTyped DEF Inv
<1>2. PICK r \in Requests : r = e.r
  BY <1>1 DEF Entries
<1>3. EntryHolds(e) /\ RequestHolds(r)
  BY <1>1, <1>2 DEF EntriesHold, Inv
<1>4. /\ prop[r].gen \in Nat /\ e.gen \in Nat /\ lease.seq \in Nat /\ applied.lai \in Nat
      /\ e.lai \in Nat
  BY <1>1, <1>2, RequestTypes DEF Entries
<1>5. ~Dead(e)
  BY <1>4 DEF CanApply, Dead
<1>6. e.gen = prop[r].gen
  BY <1>2, <1>3, <1>4, <1>5 DEF EntryHolds
<1>7. e = Entry(r, prop[r]) /\ ~prop[r].tok
  BY <1>2, <1>3, <1>6 DEF EntryHolds
<1>8. e.kind # "lease" => Sequenced(r)
  BY <1>7 DEF CanApply, Entry, Sequenced
<1> QED BY <1>2, <1>5, <1>6, <1>7, <1>8

LEMMA AppliedKeeps ==
  ASSUME Inv, NEW e \in Entries, NEW r \in Requests, Answered(e, r), CanApply(e), e.kind # "lease",
         applications' = [applications EXCEPT ![r] = @ + 1],
         applied' = [lai |-> e.lai, closed |-> IF e.closed # EmptyTS THEN e.closed ELSE applied.closed],
         UNCHANGED <<lease, assigned>>
  PROVE  Inv'
<1>1. /\ Types /\ RequestHolds(r) /\ EntriesHold /\ OrderHolds /\ BoundsHold /\ ValidConstants
      /\ e \in Range(wire) /\ applying = Nobody /\ ~destroyed /\ r = e.r
      /\ UNCHANGED <<published, tracked, arr, updateCheck, destroyed, lockVars>>
  BY DEF Inv, Answered
<1>2. /\ e = Entry(r, prop[r]) /\ e.gen = prop[r].gen /\ Sequenced(r)
      /\ e.lai = prop[r].lai /\ e.closed = prop[r].closed
  BY <1>1, AppliesFacts DEF Entry
<1>3. /\ prop[r].pc = "registered" /\ Local(e)
  BY <1>1, <1>2 DEF RequestHolds, RetryHolds, TokenHolds, Local
<1>4. /\ prop'[r].pc = "done" /\ prop'[r].seen
      /\ \A q \in Requests : KeepsCommand(q) /\ (q # r => Stays(q) /\ prop'[q] = prop[q])
  BY <1>3, AnsweredFacts
<1>5. /\ SlotsHold' /\ SlotsAreServed' /\ BufferTypes' /\ LockTypes'
      /\ applying' \in Requests \cup {Nobody} /\ wire' \in Seq(Entries) /\ Range(wire') \subseteq Range(wire)
  BY AnsweredFacts
<1>6. PICK n \in Nat, c \in Timestamps :
        /\ n = prop[r].lai /\ c = prop[r].closed /\ applied' = [lai |-> n, closed |-> c]
        /\ applied.lai < n /\ LessEq(applied.closed, c) /\ LessEq(c, assigned.closed) /\ n <= assigned.lai
  <2>1. /\ prop[r].lai \in Nat /\ prop[r].closed \in Timestamps /\ applied.closed \in Timestamps
    BY <1>1, RequestTypes, FieldTypes
  <2>2. /\ prop[r].lai <= assigned.lai /\ LessEq(applied.closed, prop[r].closed)
        /\ LessEq(prop[r].closed, assigned.closed) /\ applied.lai < prop[r].lai
    BY <1>1, <1>2 DEF RequestHolds, SequencedHolds, Sequenced
  <2>3. e.closed = EmptyTS => applied.closed = e.closed
    BY <1>2, <2>1, <2>2, EmptyFacts
  <2> QED BY <1>2, <2>1, <2>2, <2>3
<1>7. applied'.lai = n /\ applied'.closed = c /\ applied' \in [lai : Nat, closed : Timestamps]
  BY <1>6
<1>8. /\ applications'[r] = 1 /\ applications' \in [Requests -> Nat]
      /\ \A q \in Requests : q # r => applications'[q] = applications[q]
  <2>1. applications \in [Requests -> Nat] /\ applications[r] <= 1 /\ applications[r] # 1
    BY <1>1, <1>2, <1>3, RequestTypes DEF RequestHolds, AppliedHolds, Types, RaftTypes, Sequenced
  <2>2. applications[r] = 0
    BY <2>1
  <2> QED BY <2>1, <2>2
<1>9. Types'
  <2>1. LeaseTypes'
    BY <1>1, <1>7 DEF Types, LeaseTypes
  <2>2. RaftTypes'
    BY <1>1, <1>5, <1>8 DEF Types, RaftTypes
  <2> QED BY <1>5, <2>1, <2>2 DEF Types
<1>10. ASSUME NEW q \in Requests, Sequenced(q)'
       PROVE  q # r /\ Sequenced(q) /\ prop'[q] = prop[q] /\ n < prop[q].lai
  <2>1. /\ prop'[q].kind = prop[q].kind /\ prop'[q].seq = prop[q].seq /\ prop'[q].lai = prop[q].lai
        /\ prop'[q].tok = prop[q].tok
    BY <1>4 DEF KeepsCommand
  <2>2. /\ prop[q].kind # "lease" /\ prop[q].seq = lease.seq /\ ~prop[q].tok /\ n < prop[q].lai
    BY <1>7, <1>10, <2>1 DEF Sequenced
  <2>3. applied.lai \in Nat /\ prop[q].lai \in Nat
    BY <1>1, RequestTypes
  <2>4. applied.lai < prop[q].lai /\ q # r
    BY <1>6, <2>2, <2>3
  <2> QED BY <1>4, <2>2, <2>4 DEF Sequenced
<1>11. ASSUME NEW q \in Requests PROVE RequestHolds(q)'
  <2>1. RequestHolds(q) /\ KeepsCommand(q)
    BY <1>4 DEF Inv
  <2>2. TokenHolds(q)'
    <3>1. prop'[q].pc = "idle" => applications'[q] = applications[q]
      BY <1>4, <1>8
    <3> QED BY <3>1, AnsweredFacts
  <2>3. RetryHolds(q)'
    <3>1. prop'[q].pc # "retry"
      BY <1>1, <1>4, <2>1 DEF RequestHolds, RetryHolds, ValidConstants
    <3>2. Sequenced(q)' => prop'[q].pc = "registered"
      BY <1>1, <1>10, <2>1 DEF RequestHolds, RetryHolds
    <3> QED BY <3>1, <3>2 DEF RetryHolds
  <2>4. AppliedHolds(q)'
    <3>1. CASE q = r
      <4>1. ~Sequenced(r)' /\ prop'[r].kind # "lease"
        BY <1>2, <1>4, <1>10 DEF Sequenced, KeepsCommand
      <4> QED BY <1>4, <1>8, <3>1, <4>1 DEF AppliedHolds
    <3>2. CASE q # r
      BY <1>4, <1>8, <1>10, <2>1, <3>2 DEF RequestHolds, AppliedHolds
    <3> QED BY <3>1, <3>2
  <2>5. LeaseHolds(q)'
    <3>1. prop'[q].pc # "idle" => prop[q].pc # "idle"
      BY <2>1 DEF KeepsCommand
    <3> QED BY <2>1, <3>1 DEF RequestHolds, LeaseHolds, KeepsCommand
  <2>6. TrackedHolds(q)'
    <3>1. CASE q = r
      BY <1>4, <3>1 DEF TrackedHolds, Inserting
    <3>2. CASE q # r
      BY <1>1, <1>4, <2>1, <3>2 DEF RequestHolds, TrackedHolds, LiveWrite
    <3> QED BY <3>1, <3>2
  <2>7. SequencedHolds(q)'
    <3> SUFFICES ASSUME Sequenced(q)' PROVE SequencedHolds(q)'
      BY DEF SequencedHolds
    <3>1. q # r /\ Sequenced(q) /\ prop'[q] = prop[q] /\ n < prop[q].lai
      BY <1>10
    <3>2. InOrder(r, q)
      BY <1>1, <1>2, <3>1 DEF OrderHolds
    <3>3. /\ LessEq(c, prop[q].closed)
          /\ prop[q].kind = "write" => Less(c, prop[q].wts)
      BY <1>6, <3>1, <3>2 DEF InOrder
    <3> QED BY <1>1, <1>7, <2>1, <3>1, <3>3 DEF RequestHolds, SequencedHolds
  <2> QED BY <2>2, <2>3, <2>4, <2>5, <2>6, <2>7 DEF RequestHolds
<1>12. OrderHolds'
  BY <1>1, <1>10 DEF OrderHolds, InOrder
<1>13. EntriesHold'
  <2> SUFFICES ASSUME NEW f \in Range(wire) \cup Range(flush.ents)
               PROVE  EntryHolds(f)'
    BY <1>1, <1>5 DEF EntriesHold, lockVars
  <2>1. EntryHolds(f) /\ f \in Entries /\ f.lai \in Nat
    BY <1>1, EntriesAreTyped DEF EntriesHold, Entries
  <2>2. PICK q \in Requests : q = f.r
    BY <2>1 DEF Entries
  <2>3. applied.lai \in Nat
    BY <1>1, RequestTypes
  <2>4. Dead(f) => Dead(f)'
    BY <1>6, <1>7, <2>1, <2>3 DEF Dead
  <2>5. KeepsCommand(q)
    BY <1>4
  <2> QED BY <2>1, <2>2, <2>4, <2>5 DEF EntryHolds, KeepsCommand, Entry
<1>14. BoundsHold'
  <2>1. /\ assigned.closed \in Timestamps /\ lease.exp \in Timestamps /\ lease.exp.wall > 0
    BY <1>1 DEF Types, LeaseTypes
  <2>2. WallPrev(lease.exp) \in Timestamps
    BY <2>1, WallPrevFacts
  <2>3. LessEq(c, WallPrev(lease.exp))
    BY <1>1, <1>6, <2>1, <2>2, OrderFacts DEF BoundsHold
  <2> QED BY <1>1, <1>6, <1>7, <2>3 DEF BoundsHold
<1>15. ValidConstants'
  BY <1>1 DEF ValidConstants
<1> QED BY <1>5, <1>9, <1>11, <1>12, <1>13, <1>14, <1>15 DEF Inv

LEMMA LeaseAppliedKeeps ==
  ASSUME Inv, NEW e \in Entries, NEW r \in Requests, Answered(e, r), CanApply(e), e.kind = "lease",
         applications' = [applications EXCEPT ![r] = @ + 1],
         UNCHANGED applied, NewLease(TRUE)
  PROVE  Inv'
<1>1. /\ Types /\ RequestHolds(r) /\ ValidConstants /\ e \in Range(wire) /\ applying = Nobody /\ r = e.r
      /\ UNCHANGED <<published, tracked, arr, updateCheck, destroyed, lockVars>>
  BY DEF Inv, Answered
<1>2. e = Entry(r, prop[r]) /\ e.gen = prop[r].gen /\ prop[r].kind = "lease" /\ prop[r].seq = lease.seq
  BY <1>1, AppliesFacts DEF Entry, CanApply
<1>3. prop[r].pc # "idle"
  BY <1>1 DEF EntryHolds, Inv, EntriesHold
<1>4. /\ SlotsHold' /\ SlotsAreServed' /\ BufferTypes' /\ LockTypes'
      /\ applying' \in Requests \cup {Nobody} /\ wire' \in Seq(Entries) /\ Range(wire') \subseteq Range(wire)
      /\ \A q \in Requests : KeepsCommand(q) /\ (q # r => prop'[q] = prop[q])
  BY AnsweredFacts
<1>5. /\ applications'[r] = 1 /\ applications' \in [Requests -> Nat]
      /\ \A q \in Requests : q # r => applications'[q] = applications[q]
  <2>1. lease.seq \in Nat
    BY <1>1, RequestTypes
  <2>2. applications \in [Requests -> Nat] /\ applications[r] <= 1 /\ applications[r] # 1
    BY <1>1, <1>2, <2>1 DEF RequestHolds, AppliedHolds, Types, RaftTypes
  <2>3. applications[r] = 0
    BY <2>2
  <2> QED BY <2>2, <2>3
<1>6. Types'
  <2>1. LeaseTypes'
    BY <1>1, NewLeaseFacts DEF Types, LeaseTypes
  <2>2. RaftTypes'
    BY <1>1, <1>4, <1>5 DEF Types, RaftTypes
  <2> QED BY <1>4, <2>1, <2>2 DEF Types
<1>7. ASSUME NEW q \in Requests
      PROVE  KeepsCommand(q) /\ TokenHolds(q)' /\ applications'[q] <= 1 /\ prop'[q].pc # "retry"
  <2>1. RequestHolds(q) /\ KeepsCommand(q) /\ prop[q].pc # "retry"
    BY <1>1, <1>4 DEF Inv, RequestHolds, RetryHolds, ValidConstants
  <2>2. applications'[q] <= 1
    BY <1>5, <2>1 DEF RequestHolds, AppliedHolds
  <2>3. TokenHolds(q)'
    <3>1. prop'[q].pc = "idle" => applications'[q] = applications[q]
      BY <1>3, <1>4, <1>5 DEF KeepsCommand
    <3> QED BY <3>1, AnsweredFacts
  <2>4. prop'[q].pc # "retry"
    BY <1>4, <2>1, AnsweredFacts
  <2> QED BY <2>1, <2>2, <2>3, <2>4
<1>8. UNCHANGED <<applied, published, flush>>
  BY <1>1 DEF lockVars
<1> QED BY <1>4, <1>6, <1>7, <1>8, NewLeaseKeeps

LEMMA ApplyKeeps ==
  ASSUME Inv, Apply
  PROVE  Inv'
<1>1. PICK e \in Entries, r \in Requests :
        /\ Answered(e, r)
        /\ IF CanApply(e)
             THEN applications' = [applications EXCEPT ![r] = @ + 1]
             ELSE UNCHANGED applications
        /\ IF CanApply(e) /\ e.kind # "lease"
             THEN applied' = [lai |-> e.lai, closed |-> IF e.closed # EmptyTS THEN e.closed
                                                                            ELSE applied.closed]
             ELSE UNCHANGED applied
        /\ IF CanApply(e) /\ e.kind = "lease"
             THEN NewLease(TRUE)
             ELSE UNCHANGED <<lease, assigned>>
  BY ApplyShape
<1>2. CASE ~CanApply(e)
  BY <1>1, <1>2, RejectedKeeps
<1>3. CASE CanApply(e) /\ e.kind # "lease"
  BY <1>1, <1>3, AppliedKeeps
<1>4. CASE CanApply(e) /\ e.kind = "lease"
  BY <1>1, <1>4, LeaseAppliedKeeps
<1> QED BY <1>2, <1>3, <1>4

-----------------------------------------------------------------------------
(* The theorems. *)

LEMMA Stutters == Inv /\ UNCHANGED vars => Inv'
<1> SUFFICES ASSUME Inv, UNCHANGED vars PROVE Inv'
  OBVIOUS
<1>1. Types /\ SlotsAreServed /\ SlotsHold
  BY DEF Inv
<1>2. UNCHANGED <<leaseVars, assigned, prop, tracked, arr, proposals, updateCheck, raftVars, lockVars>>
  BY DEF vars, bufVars
<1>3. Types'
  BY <1>1, <1>2 DEF Types, LeaseTypes, BufferTypes, RaftTypes, LockTypes, leaseVars, raftVars, lockVars
<1>4. SlotsHold'
  BY <1>1, <1>2, RequestsUntouched, SlotsKept DEF lockVars
<1>5. SlotsAreServed'
  BY <1>1, <1>2, ServedKept DEF lockVars, raftVars
<1> QED BY <1>2, <1>3, <1>4, <1>5, AllStay DEF raftVars, lockVars

LEMMA NextInv == Inv /\ [Next]_vars => Inv'
<1> SUFFICES ASSUME Inv, Next PROVE Inv'
  BY Stutters
<1>1. CASE HandleRaftReady
  BY <1>1, HandleRaftReadyKeeps
<1>2. CASE FlushRejects
  BY <1>2, FlushRejectsKeeps
<1>3. CASE FlushProposes
  BY <1>3, FlushProposesKeeps
<1>4. CASE EndFlush
  BY <1>4, EndFlushKeeps
<1>5. CASE Lose
  BY <1>5, LoseKeeps
<1>6. CASE RefreshProposals
  BY <1>6, RefreshKeeps
<1>7. CASE ReinsertLocked
  BY <1>7, ReinsertKeeps
<1>8. CASE Apply
  BY <1>8, ApplyKeeps
<1>9. CASE OtherAcquiresLease
  BY <1>9, OtherAcquiresLeaseKeeps
<1>10. CASE OtherApplies
  BY <1>10, OtherAppliesKeeps
<1>11. CASE BumpSideTransportClosed
  BY <1>11, BumpKeeps
<1>12. CASE Destroy
  BY <1>12, DestroyKeeps
<1>13. CASE Disconnect
  BY <1>13, DisconnectKeeps
<1>14. ASSUME NEW r \in Requests,
              \/ CheckExecution(r) \/ TrackEvaluatingRequest(r) \/ Evaluate(r) \/ DoneIfNotMoved(r)
              \/ Insert(r) \/ FlushRLocked(r) \/ TryRepropose(r)
       PROVE  Inv'
  <2>1. CASE CheckExecution(r)
    BY <2>1, CheckExecutionKeeps
  <2>2. CASE TrackEvaluatingRequest(r)
    BY <2>2, TrackKeeps
  <2>3. CASE Evaluate(r)
    BY <2>3, EvaluateKeeps
  <2>4. CASE DoneIfNotMoved(r)
    BY <2>4, DoneKeeps
  <2>5. CASE Insert(r)
    BY <2>5, InsertKeeps
  <2>6. CASE FlushRLocked(r)
    BY <2>6, FlushRLockedKeeps
  <2>7. CASE TryRepropose(r)
    BY <2>7, TryReproposeKeeps
  <2> QED BY <1>14, <2>1, <2>2, <2>3, <2>4, <2>5, <2>6, <2>7
<1> QED BY <1>1, <1>2, <1>3, <1>4, <1>5, <1>6, <1>7, <1>8, <1>9, <1>10, <1>11, <1>12, <1>13, <1>14
        DEF Next

LEMMA Invariance == Spec => []Inv
<1>1. Init => Inv
  BY InitInv
<1>2. Inv /\ [Next]_vars => Inv'
  BY NextInv
<1> QED BY <1>1, <1>2, PTL DEF Spec

(* replica_app_batch.go's two assertions never fail, whatever raft loses   *)
(* or delivers late and however often proposals are reproposed: a command  *)
(* that is about to apply writes above all that was closed, by earlier     *)
(* commands and by the side transport, and closes no less than they did.   *)
THEOREM NoWriteBelowClosed == Spec => []ClosedTimestampsHold
<1>1. Inv => ClosedTimestampsHold
  <2> SUFFICES ASSUME Inv, NEW e \in Range(wire), CanApply(e), e.kind # "lease"
               PROVE  /\ e.kind = "write" => Less(applied.closed, e.wts) /\ Less(published, e.wts)
                      /\ LessEq(applied.closed, e.closed)
    BY DEF ClosedTimestampsHold
  <2>1. PICK r \in Requests : e = Entry(r, prop[r]) /\ Sequenced(r)
    BY AppliesFacts
  <2>2. SequencedHolds(r)
    BY DEF Inv, RequestHolds
  <2>3. e.kind = prop[r].kind /\ e.wts = prop[r].wts /\ e.closed = prop[r].closed
    BY <2>1 DEF Entry
  <2> QED BY <2>1, <2>2, <2>3 DEF SequencedHolds
<1> QED BY <1>1, Invariance, PTL

(* The command of a request applies at most once, although refreshes       *)
(* propose it again under its lease index and tryReproposeWithNewLeaseIndex *)
(* under another.                                                          *)
THEOREM CommandsApplyOnce == Spec => []AppliesAtMostOnce
<1>1. Inv => AppliesAtMostOnce
  BY DEF Inv, RequestHolds, AppliedHolds, AppliesAtMostOnce
<1> QED BY <1>1, Invariance, PTL

(* A proposal that was registered, and a request that is finished, whoever *)
(* finished it, no longer holds back the closed timestamp.                 *)
THEOREM TokensAreReturned == Spec => []NoLeakedTokens
<1>1. Inv => NoLeakedTokens
  BY DEF Inv, RequestHolds, TokenHolds, NoLeakedTokens
<1> QED BY <1>1, Invariance, PTL

(* Who waits in allocateIndex for a slot waits for a flush that will wake  *)
(* it, and what is in a slot finds an update check scheduled.              *)
THEOREM SlotsAreFlushed == Spec => []BufferIsServed
<1>1. Inv => BufferIsServed
  BY DEF Inv, SlotsAreServed, BufferIsServed, BufferWillBeFlushed
<1> QED BY <1>1, Invariance, PTL
=============================================================================
