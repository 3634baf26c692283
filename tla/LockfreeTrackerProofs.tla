------------------------ MODULE LockfreeTrackerProofs ------------------------
(***************************************************************************)
(* The invariants of the lock-free tracker, and that it implements the     *)
(* Tracker interface, for any number of requests and any timestamps.       *)
(***************************************************************************)
EXTENDS LockfreeTracker, FiniteSetTheorems, TLAPS

(* The requests in bucket b. *)
In(b) == {r \in Clients : call[r].pc = "tracked" /\ call[r].b = b}

LEMMA InFinite ==
  ASSUME NEW b
  PROVE  IsFiniteSet(In(b))
  BY TrackerAssumption, FS_Subset DEF In

(* A reference count is positive exactly when somebody is in the bucket. *)
LEMMA CountPositive ==
  ASSUME CountsAreRequests, NEW b \in 1 .. 2
  PROVE  /\ bucket[b].refcnt \in Nat
         /\ bucket[b].refcnt = 0 <=> In(b) = {}
  <1>1. bucket[b].refcnt = Cardinality(In(b))
    BY DEF CountsAreRequests, In
  <1>2. Cardinality(In(b)) \in Nat
    BY InFinite, FS_CardinalityType
  <1>3. Cardinality(In(b)) = 0 <=> In(b) = {}
    BY InFinite, FS_EmptySet
  <1> QED
    BY <1>1, <1>2, <1>3

LEMMA InvInit == TrackerInit => Inv
  <1> SUFFICES ASSUME TrackerInit PROVE Inv
    OBVIOUS
  <1>1. EmptyTS \in Timestamps
    BY TimestampAssumption DEF EmptyTS, Timestamps
  <1>2. TypeOK
    BY <1>1 DEF TrackerInit, TypeOK, Uninitialized, NoCall
  <1>3. CountsAreRequests
    <2>1. ASSUME NEW b \in 1 .. 2
          PROVE  bucket[b].refcnt = Cardinality({r \in Clients : call[r].pc = "tracked" /\ call[r].b = b})
      <3>1. {r \in Clients : call[r].pc = "tracked" /\ call[r].b = b} = {}
        BY DEF TrackerInit, NoCall
      <3> QED
        BY <3>1, FS_EmptySet DEF TrackerInit, Uninitialized
    <2> QED
      BY <2>1 DEF CountsAreRequests
  <1>4. BucketsInOrder
    BY DEF TrackerInit, BucketsInOrder, Uninitialized, b2
  <1>5. BucketsBoundTheirRequests /\ InFlightChoice
    BY DEF TrackerInit, BucketsBoundTheirRequests, InFlightChoice, InTrack, NoCall
  <1>6. EmptyBucketsAreJoined
    BY DEF TrackerInit, EmptyBucketsAreJoined, Uninitialized
  <1> QED
    BY <1>2, <1>3, <1>4, <1>5, <1>6 DEF Inv

(* A step of Track that moves no request into or out of a bucket keeps the *)
(* counts.                                                                 *)
LEMMA CountsKept ==
  ASSUME CountsAreRequests,
         \A b \in 1 .. 2 : bucket'[b].refcnt = bucket[b].refcnt,
         \A b \in 1 .. 2 : In(b)' = In(b)
  PROVE  CountsAreRequests'
  <1>1. \A b \in 1 .. 2 : bucket[b].refcnt = Cardinality(In(b))
    BY DEF CountsAreRequests, In
  <1>2. \A b \in 1 .. 2 : bucket'[b].refcnt = Cardinality(In(b)')
    BY <1>1
  <1> QED
    BY <1>2 DEF CountsAreRequests, In

LEMMA TrackStep ==
  ASSUME Inv, NEW r \in Clients, NEW ts \in ClientTimestamps, Track(r, ts)
  PROVE  Inv'
  <1> USE DEF Inv
  <1>0. ts \in Timestamps /\ ts.wall \in Nat /\ ts.wall > 0 /\ EmptyTS \in Timestamps
    BY TrackerAssumption, TimestampAssumption DEF Timestamps, EmptyTS
  <1>1. Bucket(ts.wall, bucket[b1].ts) \in 1 .. 2
    BY DEF Bucket, b2, TypeOK
  <1>2. call'[r] = [pc |-> "load", ts |-> ts, b |-> Bucket(ts.wall, bucket[b1].ts), t |-> 0]
    BY DEF Track, TypeOK
  <1>3. \A q \in Clients \ {r} : call'[q] = call[q]
    BY DEF Track, TypeOK
  <1>4. TypeOK'
    BY <1>0, <1>1, <1>2, <1>3 DEF Track, TypeOK
  <1>5. BucketsInOrder'
    BY DEF Track, BucketsInOrder, b2
  <1>6. BucketsBoundTheirRequests'
    BY <1>2, <1>3 DEF Track, BucketsBoundTheirRequests
  <1>7. InFlightChoice'
    <2>1. call'[r].b = b2 => bucket[b1].ts # 0 /\ bucket[b1].ts < ts.wall
      BY <1>0, <1>2 DEF Bucket, b2, TypeOK
    <2> QED
      BY <2>1, <1>2, <1>3 DEF Track, InFlightChoice, InTrack, b2
  <1>8. CountsAreRequests'
    <2>1. \A b \in 1 .. 2 : In(b)' = In(b)
      BY <1>2, <1>3 DEF Track, In
    <2> QED
      BY <2>1, CountsKept DEF Track
  <1>9. EmptyBucketsAreJoined'
    BY <1>2, <1>3 DEF Track, EmptyBucketsAreJoined
  <1> QED
    BY <1>4, <1>5, <1>6, <1>7, <1>8, <1>9

LEMMA LoadStep ==
  ASSUME Inv, NEW r \in Clients, LoadBucket(r)
  PROVE  Inv'
  <1> USE DEF Inv
  <1> DEFINE t == bucket[call[r].b].ts
  <1>0. t \in Nat /\ call[r].ts.wall \in Nat
    BY DEF TypeOK, Timestamps
  <1>1. /\ call'[r].ts = call[r].ts /\ call'[r].b = call[r].b
        /\ \/ call'[r].pc = "join" /\ t # 0 /\ t <= call[r].ts.wall /\ call'[r].t = call[r].t
           \/ call'[r].pc = "swap" /\ (t = 0 \/ call[r].ts.wall < t) /\ call'[r].t = t
    BY <1>0 DEF LoadBucket, TypeOK
  <1>3. \A q \in Clients \ {r} : call'[q] = call[q]
    BY DEF LoadBucket, TypeOK
  <1>4. TypeOK'
    BY <1>0, <1>3 DEF LoadBucket, TypeOK
  <1>5. BucketsInOrder'
    BY DEF LoadBucket, BucketsInOrder, b2
  <1>6. BucketsBoundTheirRequests'
    BY <1>1, <1>3 DEF LoadBucket, BucketsBoundTheirRequests
  <1>7. InFlightChoice'
    BY <1>1, <1>3 DEF LoadBucket, InFlightChoice, InTrack, b2
  <1>8. CountsAreRequests'
    <2>1. \A b \in 1 .. 2 : In(b)' = In(b)
      BY <1>1, <1>3 DEF LoadBucket, In
    <2> QED
      BY <2>1, CountsKept DEF LoadBucket
  <1>9. EmptyBucketsAreJoined'
    BY <1>1, <1>3 DEF LoadBucket, EmptyBucketsAreJoined
  <1> QED
    BY <1>4, <1>5, <1>6, <1>7, <1>8, <1>9

LEMMA SwapStep ==
  ASSUME Inv, NEW r \in Clients, CompareAndSwap(r)
  PROVE  Inv'
  <1> USE DEF Inv
  <1> DEFINE b == call[r].b
             w == call[r].ts.wall
  <1>0. b \in 1 .. 2 /\ w \in Nat /\ w > 0 /\ bucket[b].ts \in Nat /\ call[r].pc = "swap"
    BY DEF CompareAndSwap, TypeOK, Timestamps
  <1>1. /\ call'[r].ts = call[r].ts /\ call'[r].b = b /\ call'[r].t = 0
        /\ call'[r].pc \in {"join", "load"}
    BY DEF CompareAndSwap, TypeOK
  <1>2. \A q \in Clients \ {r} : call'[q] = call[q]
    BY DEF CompareAndSwap, TypeOK
  <1>3. /\ \A c \in 1 .. 2 : bucket'[c].refcnt = bucket[c].refcnt
        /\ \A c \in (1 .. 2) \ {b} : bucket'[c] = bucket[c]
        /\ b1' = b1 /\ b2' = b2
    BY <1>0 DEF CompareAndSwap, TypeOK, b2
  <1>4. \/ /\ call'[r].pc = "join"
           /\ bucket'[b].ts = w
           /\ bucket[b].ts = 0 \/ w < bucket[b].ts
        \/ call'[r].pc = "load" /\ bucket' = bucket
    BY <1>0 DEF CompareAndSwap, TypeOK, InFlightChoice
  <1>5. TypeOK'
    <2>1. call' \in [Clients -> [pc : {"idle", "load", "swap", "join", "tracked"},
                                  ts : Timestamps, b : 1 .. 2, t : Nat]]
      BY DEF CompareAndSwap, TypeOK
    <2>2. bucket' \in [1 .. 2 -> [ts : Nat, refcnt : Nat]]
      BY <1>0 DEF CompareAndSwap, TypeOK
    <2>3. \A q \in Clients : call'[q].pc # "idle" => call'[q].ts.wall > 0
      BY <1>0, <1>1, <1>2 DEF TypeOK
    <2> QED
      BY <2>1, <2>2, <2>3 DEF CompareAndSwap, TypeOK
  <1>6. b = b1 \/ b = b2
    BY <1>0 DEF TypeOK, b2
  <1>61. b1 \in 1 .. 2 /\ b2 \in 1 .. 2 /\ b1 # b2 /\ \A c \in 1 .. 2 : bucket[c].ts \in Nat
    BY DEF TypeOK, b2
  <1>62. InTrack(r)
    BY <1>0 DEF InTrack
  <1>7. BucketsInOrder'
    <2>1. CASE bucket' = bucket
      BY <2>1, <1>3 DEF BucketsInOrder
    <2>2. CASE bucket'[b].ts = w /\ (bucket[b].ts = 0 \/ w < bucket[b].ts) /\ b = b1
      <3>1. bucket'[b2] = bucket[b2]
        BY <2>2, <1>3, <1>61
      <3> QED
        BY <2>2, <3>1, <1>0, <1>3, <1>61 DEF BucketsInOrder
    <2>3. CASE bucket'[b].ts = w /\ (bucket[b].ts = 0 \/ w < bucket[b].ts) /\ b = b2
      <3>1. bucket'[b1] = bucket[b1]
        BY <2>3, <1>3, <1>61
      <3>2. bucket[b1].ts # 0 /\ bucket[b1].ts < w
        BY <2>3, <1>62 DEF InFlightChoice
      <3> QED
        BY <2>3, <3>1, <3>2, <1>0, <1>3, <1>61 DEF BucketsInOrder
    <2> QED
      BY <2>1, <2>2, <2>3, <1>4, <1>6
  <1>8. \A c \in 1 .. 2 : bucket[c].ts # 0 => bucket'[c].ts # 0 /\ bucket'[c].ts <= bucket[c].ts
    BY <1>0, <1>3, <1>4, <1>61
  <1>81. \A c \in 1 .. 2 : bucket'[c].ts \in Nat
    BY <1>5 DEF TypeOK
  <1>9. BucketsBoundTheirRequests'
    <2>1. ASSUME NEW q \in Clients, call'[q].pc \in {"join", "tracked"}
          PROVE  bucket'[call'[q].b].ts # 0 /\ bucket'[call'[q].b].ts <= call'[q].ts.wall
      <3>1. CASE q = r
        BY <3>1, <2>1, <1>0, <1>1, <1>4
      <3>2. CASE q # r
        <4>1. call[q].b \in 1 .. 2 /\ call[q].ts.wall \in Nat
          BY DEF TypeOK, Timestamps
        <4>2. bucket[call[q].b].ts # 0 /\ bucket[call[q].b].ts <= call[q].ts.wall
          BY <3>2, <2>1, <1>2 DEF BucketsBoundTheirRequests
        <4> QED
          BY <4>1, <4>2, <3>2, <1>2, <1>8, <1>61, <1>81
      <3> QED
        BY <3>1, <3>2
    <2> QED
      BY <2>1 DEF BucketsBoundTheirRequests
  <1>10. InFlightChoice'
    <2>1. ASSUME NEW q \in Clients, InTrack(q)', call'[q].b = b2
          PROVE  bucket'[b1].ts # 0 /\ bucket'[b1].ts < call'[q].ts.wall
      <3>1. InTrack(q) /\ call[q].b = b2 /\ call'[q].ts = call[q].ts
        BY <2>1, <1>0, <1>1, <1>2 DEF InTrack
      <3>2. bucket[b1].ts # 0 /\ bucket[b1].ts < call[q].ts.wall /\ call[q].ts.wall \in Nat
        BY <3>1 DEF InFlightChoice, TypeOK, Timestamps
      <3> QED
        BY <3>1, <3>2, <1>8, <1>61, <1>81
    <2>2. \A q \in Clients : call'[q].pc = "swap" => call'[q].t = 0 \/ call'[q].ts.wall < call'[q].t
      BY <1>1, <1>2 DEF InFlightChoice
    <2> QED
      BY <2>1, <2>2, <1>3 DEF InFlightChoice
  <1>11. CountsAreRequests'
    <2>1. \A c \in 1 .. 2 : In(c)' = In(c)
      BY <1>0, <1>1, <1>2 DEF In
    <2> QED
      BY <2>1, <1>3, CountsKept
  <1>12. EmptyBucketsAreJoined'
    <2>1. ASSUME NEW c \in 1 .. 2, bucket'[c].ts # 0
          PROVE  \E q \in Clients : call'[q].pc \in {"join", "tracked"} /\ call'[q].b = c
      <3>1. CASE call'[r].pc = "join" /\ c = b
        BY <3>1, <1>1
      <3>2. CASE ~(call'[r].pc = "join" /\ c = b)
        <4>1. bucket[c].ts # 0
          BY <3>2, <2>1, <1>3, <1>4, <1>0
        <4>2. PICK q \in Clients : call[q].pc \in {"join", "tracked"} /\ call[q].b = c
          BY <4>1 DEF EmptyBucketsAreJoined
        <4> QED
          BY <4>2, <1>0, <1>2
      <3> QED
        BY <3>1, <3>2
    <2> QED
      BY <2>1 DEF EmptyBucketsAreJoined
  <1> QED
    BY <1>5, <1>7, <1>9, <1>10, <1>11, <1>12

LEMMA JoinStep ==
  ASSUME Inv, NEW r \in Clients, Join(r)
  PROVE  Inv'
  <1> USE DEF Inv
  <1> PICK b \in 1 .. 2 : b = call[r].b
    BY DEF TypeOK
  <1>0. b \in 1 .. 2 /\ call[r].pc = "join" /\ call[r].b = b
    BY DEF Join
  <1>1. /\ call'[r].ts = call[r].ts /\ call'[r].b = b /\ call'[r].t = call[r].t
        /\ call'[r].pc = "tracked"
    BY DEF Join, TypeOK
  <1>2. \A q \in Clients \ {r} : call'[q] = call[q]
    BY DEF Join, TypeOK
  <1>3. /\ \A c \in 1 .. 2 : bucket'[c].ts = bucket[c].ts
        /\ bucket'[b].refcnt = bucket[b].refcnt + 1
        /\ \A c \in (1 .. 2) \ {b} : bucket'[c].refcnt = bucket[c].refcnt
        /\ b1' = b1 /\ b2' = b2
    BY <1>0 DEF Join, TypeOK, b2
  <1>4. b1 \in 1 .. 2 /\ b2 \in 1 .. 2
    BY DEF TypeOK, b2
  <1>5. TypeOK'
    BY <1>0, <1>2 DEF Join, TypeOK
  <1>6. BucketsInOrder'
    BY <1>3, <1>4 DEF BucketsInOrder
  <1>7. BucketsBoundTheirRequests'
    <2>1. \A q \in Clients : call'[q].b \in 1 .. 2
      BY <1>5 DEF TypeOK
    <2> QED
      BY <2>1, <1>0, <1>1, <1>2, <1>3 DEF BucketsBoundTheirRequests
  <1>8. InFlightChoice'
    BY <1>1, <1>2, <1>3, <1>4 DEF InFlightChoice, InTrack
  <1>9. CountsAreRequests'
    <2>1. In(b)' = In(b) \cup {r} /\ r \notin In(b)
      BY <1>0, <1>1, <1>2 DEF In
    <2>2. \A c \in (1 .. 2) \ {b} : In(c)' = In(c)
      BY <1>0, <1>1, <1>2 DEF In
    <2>3. \A c \in 1 .. 2 : bucket[c].refcnt = Cardinality(In(c))
      BY DEF CountsAreRequests, In
    <2>4. Cardinality(In(b)') = Cardinality(In(b)) + 1
      BY <2>1, InFinite, FS_AddElement
    <2>5. \A c \in 1 .. 2 : bucket'[c].refcnt = Cardinality(In(c)')
      BY <2>2, <2>3, <2>4, <1>0, <1>3
    <2> QED
      BY <2>5 DEF CountsAreRequests, In
  <1>10. EmptyBucketsAreJoined'
    <2>1. ASSUME NEW c \in 1 .. 2, bucket'[c].ts # 0
          PROVE  \E q \in Clients : call'[q].pc \in {"join", "tracked"} /\ call'[q].b = c
      <3>1. PICK q \in Clients : call[q].pc \in {"join", "tracked"} /\ call[q].b = c
        BY <2>1, <1>3 DEF EmptyBucketsAreJoined
      <3> QED
        BY <3>1, <1>1, <1>2
    <2> QED
      BY <2>1 DEF EmptyBucketsAreJoined
  <1> QED
    BY <1>5, <1>6, <1>7, <1>8, <1>9, <1>10

LEMMA UntrackStep ==
  ASSUME Inv, NEW r \in Clients, Untrack(r)
  PROVE  Inv'
  <1> USE DEF Inv
  <1> PICK b \in 1 .. 2 : b = call[r].b
    BY DEF TypeOK
  <1> PICK n \in Nat : n = bucket[b].refcnt
    BY DEF TypeOK
  <1>0. /\ b \in 1 .. 2 /\ b = call[r].b /\ n \in Nat /\ n = bucket[b].refcnt
        /\ call[r].pc = "tracked" /\ NoTrackInFlight
    BY DEF Untrack
  <1>1. call'[r] = NoCall
    BY DEF Untrack, TypeOK
  <1>2. \A q \in Clients \ {r} : call'[q] = call[q]
    BY DEF Untrack, TypeOK
  <1>3. /\ bucket'[b] = [ts |-> IF n - 1 = 0 THEN 0 ELSE bucket[b].ts, refcnt |-> n - 1]
        /\ n - 1 = 0 => bucket'[b].ts = 0
        /\ \A c \in (1 .. 2) \ {b} : bucket'[c] = bucket[c]
        /\ b1' = IF n - 1 = 0 /\ b = b1 THEN b2 ELSE b1
    BY <1>0 DEF Untrack, TypeOK
  <1>4. b1 \in 1 .. 2 /\ b2 \in 1 .. 2 /\ b1 # b2 /\ b2' = 3 - b1' /\ b1 = 3 - b2
    BY DEF TypeOK, b2
  <1>5. In(b)' = In(b) \ {r} /\ r \in In(b) /\ \A c \in (1 .. 2) \ {b} : In(c)' = In(c)
    BY <1>0, <1>1, <1>2 DEF In, NoCall
  <1>6. \A c \in 1 .. 2 : bucket[c].refcnt = Cardinality(In(c))
    BY DEF CountsAreRequests, In
  <1>7. Cardinality(In(b)') = Cardinality(In(b)) - 1
    BY <1>5, InFinite, FS_RemoveElement
  <1>8. n > 0
    BY <1>0, <1>5, CountPositive
  <1>9. TypeOK'
    <2>1. EmptyTS \in Timestamps
      BY TimestampAssumption DEF EmptyTS, Timestamps
    <2>2. NoCall \in [pc : {"idle", "load", "swap", "join", "tracked"},
                      ts : Timestamps, b : 1 .. 2, t : Nat]
      BY <2>1 DEF NoCall
    <2>3. call' \in [Clients -> [pc : {"idle", "load", "swap", "join", "tracked"},
                                  ts : Timestamps, b : 1 .. 2, t : Nat]]
      BY <2>2 DEF Untrack, TypeOK
    <2>4. [ts |-> IF n - 1 = 0 THEN 0 ELSE bucket[b].ts, refcnt |-> n - 1] \in [ts : Nat, refcnt : Nat]
      BY <1>0, <1>8 DEF TypeOK
    <2>5. bucket' \in [1 .. 2 -> [ts : Nat, refcnt : Nat]]
      BY <2>4, <1>0 DEF Untrack, TypeOK
    <2>6. \A q \in Clients : call'[q].pc # "idle" => call'[q].ts.wall > 0
      BY <1>1, <1>2 DEF TypeOK, NoCall
    <2>7. b1' \in 1 .. 2 /\ answer' = answer
      BY <1>3, <1>4 DEF Untrack
    <2> QED
      BY <2>3, <2>5, <2>6, <2>7 DEF TypeOK
  <1>10. CountsAreRequests'
    <2>0. bucket'[b].refcnt = Cardinality(In(b)')
      BY <1>0, <1>3, <1>6, <1>7
    <2>1. ASSUME NEW c \in 1 .. 2
          PROVE  bucket'[c].refcnt = Cardinality(In(c)')
      <3>1. CASE c = b
        BY <3>1, <2>0
      <3>2. CASE c # b
        <4>1. In(c)' = In(c) /\ bucket'[c] = bucket[c]
          BY <3>2, <1>3, <1>5
        <4> QED
          BY <4>1, <1>6
      <3> QED
        BY <3>1, <3>2
    <2> QED
      BY <2>1 DEF CountsAreRequests, In
  <1>11. \A q \in Clients : call'[q].pc \in {"idle", "tracked"}
    BY <1>0, <1>1, <1>2 DEF NoTrackInFlight, InTrack, NoCall, TypeOK
  <1>12. InFlightChoice'
    BY <1>11 DEF InFlightChoice, InTrack
  (* Without a Track in flight an initialized bucket has a request in it. *)
  <1>13. \A c \in 1 .. 2 : bucket[c].ts # 0 => In(c) # {}
    BY <1>0 DEF EmptyBucketsAreJoined, NoTrackInFlight, InTrack, In
  <1>14. \A c \in 1 .. 2 : bucket[c].ts \in Nat
    BY DEF TypeOK
  <1>15. n - 1 = 0 <=> In(b)' = {}
    <2>1. IsFiniteSet(In(b)')
      BY <1>5, InFinite, FS_Subset
    <2>2. Cardinality(In(b)') = 0 <=> In(b)' = {}
      BY <2>1, FS_EmptySet
    <2> QED
      BY <2>2, <1>0, <1>6, <1>7
  <1>16. BucketsInOrder'
    <2>1. CASE n - 1 = 0 /\ b = b1
      <3>0. b1' = b2
        BY <2>1, <1>3
      <3>1. b2' = b /\ bucket'[b].ts = 0
        <4>1. b2' = b
          BY <3>0, <2>1, <1>4
        <4>2. bucket'[b].ts = 0
          BY <2>1, <1>3
        <4> QED
          BY <4>1, <4>2
      <3>2. bucket'[b2'].ts = 0
        BY <3>1
      <3> QED
        BY <3>2 DEF BucketsInOrder
    <2>2. CASE n - 1 = 0 /\ b # b1
      BY <2>2, <1>0, <1>3, <1>4 DEF BucketsInOrder
    <2>3. CASE n - 1 # 0
      <3>1. \A c \in 1 .. 2 : bucket'[c].ts = bucket[c].ts
        BY <2>3, <1>0, <1>3
      <3> QED
        BY <2>3, <3>1, <1>3, <1>4 DEF BucketsInOrder, b2
    <2> QED
      BY <2>1, <2>2, <2>3
  <1>17. BucketsBoundTheirRequests'
    <2>1. ASSUME NEW q \in Clients, call'[q].pc \in {"join", "tracked"}
          PROVE  bucket'[call'[q].b].ts # 0 /\ bucket'[call'[q].b].ts <= call'[q].ts.wall
      <3>1. q # r /\ call'[q] = call[q] /\ call[q].pc = "tracked"
        BY <2>1, <1>1, <1>2, <1>11 DEF NoCall
      <3>2. call[q].b = b => q \in In(b)'
        BY <3>1, <1>5 DEF In
      <3>3. call[q].b \in 1 .. 2
        BY DEF TypeOK
      <3>4. bucket'[call[q].b].ts = bucket[call[q].b].ts
        BY <3>2, <3>3, <1>3, <1>15
      <3> QED
        BY <3>1, <3>4 DEF BucketsBoundTheirRequests
    <2> QED
      BY <2>1 DEF BucketsBoundTheirRequests
  <1>18. EmptyBucketsAreJoined'
    <2>1. ASSUME NEW c \in 1 .. 2, bucket'[c].ts # 0
          PROVE  \E q \in Clients : call'[q].pc \in {"join", "tracked"} /\ call'[q].b = c
      <3>1. In(c)' # {}
        BY <2>1, <1>3, <1>5, <1>13, <1>15
      <3> QED
        BY <3>1 DEF In
    <2> QED
      BY <2>1 DEF EmptyBucketsAreJoined
  <1> QED
    BY <1>9, <1>10, <1>12, <1>16, <1>17, <1>18

LEMMA LowerBoundStep ==
  ASSUME Inv, LowerBound
  PROVE  Inv'
  <1>0. b1 \in 1 .. 2 /\ b2 \in 1 .. 2
    BY DEF Inv, TypeOK, b2
  <1>1. At(bucket[b1].ts, 0) \in Timestamps
    BY <1>0, TimestampAssumption DEF Inv, TypeOK, At, Timestamps
  <1>3. TypeOK'
    BY <1>1 DEF Inv, LowerBound, TypeOK
  <1>4. BucketsInOrder' /\ BucketsBoundTheirRequests' /\ InFlightChoice'
    BY DEF Inv, LowerBound, BucketsInOrder, BucketsBoundTheirRequests, InFlightChoice, InTrack, b2
  <1>5. CountsAreRequests' /\ EmptyBucketsAreJoined'
    BY DEF Inv, LowerBound, CountsAreRequests, EmptyBucketsAreJoined
  <1> QED
    BY <1>3, <1>4, <1>5 DEF Inv

LEMMA InvStep == Inv /\ [TrackerNext]_trackerVars => Inv'
  <1> SUFFICES ASSUME Inv, [TrackerNext]_trackerVars PROVE Inv'
    OBVIOUS
  <1>1. CASE TrackerNext
    BY <1>1, LowerBoundStep, TrackStep, LoadStep, SwapStep, JoinStep, UntrackStep DEF TrackerNext
  <1>2. CASE UNCHANGED trackerVars
    BY <1>2 DEF Inv, trackerVars, TypeOK, BucketsInOrder, BucketsBoundTheirRequests, InFlightChoice,
                InTrack, CountsAreRequests, EmptyBucketsAreJoined, b2
  <1> QED
    BY <1>1, <1>2

(* The inductive invariant holds in every behaviour of the tracker. *)
THEOREM Invariance == TrackerSpec => []Inv
  BY InvInit, InvStep, PTL DEF TrackerSpec

(* The types hold: in particular no reference count of a bucket becomes    *)
(* negative, whatever the interleaving of Track and Untrack.               *)
THEOREM TypeCorrect == TrackerSpec => []TypeOK
  <1>1. Inv => TypeOK
    BY DEF Inv
  <1> QED
    BY <1>1, Invariance, PTL

(* Implementation invariants 2 and 3 of lockfree_tracker.go: b1 is below   *)
(* b2, and it is b1 that is initialized when only one bucket is.           *)
THEOREM OrderedBuckets == TrackerSpec => []BucketsInOrder
  <1>1. Inv => BucketsInOrder
    BY DEF Inv
  <1> QED
    BY <1>1, Invariance, PTL

(* Implementation invariant 4: with no Track in flight the initialized     *)
(* buckets are those that requests are in.                                 *)
THEOREM NoEmptyInitializedBucket == TrackerSpec => []InitializedBucketsAreNotEmpty
  <1>1. ASSUME Inv PROVE InitializedBucketsAreNotEmpty
    <2> SUFFICES ASSUME NoTrackInFlight, NEW b \in 1 .. 2
                 PROVE  bucket[b].ts # 0 <=> bucket[b].refcnt > 0
      BY DEF InitializedBucketsAreNotEmpty
    <2>1. bucket[b].refcnt \in Nat /\ (bucket[b].refcnt = 0 <=> In(b) = {})
      BY <1>1, CountPositive DEF Inv
    <2>2. bucket[b].ts # 0 => In(b) # {}
      BY <1>1 DEF Inv, EmptyBucketsAreJoined, NoTrackInFlight, InTrack, In
    <2>3. In(b) # {} => bucket[b].ts # 0
      BY <1>1 DEF Inv, BucketsBoundTheirRequests, In
    <2> QED
      BY <2>1, <2>2, <2>3
  <1> QED
    BY <1>1, Invariance, PTL

-----------------------------------------------------------------------------
(* The refinement. *)

tracked == [r \in Clients |-> IF call[r].pc = "tracked" THEN call[r].ts ELSE NoToken]

LEMMA TrackedAre ==
  ASSUME Inv
  PROVE  Abstract!TrackedRequests(tracked) = {r \in Clients : call[r].pc = "tracked"}
  <1>1. \A r \in Clients : call[r].ts # NoToken
    BY TrackerAssumption DEF Inv, TypeOK
  <1> QED
    BY <1>1 DEF Abstract!TrackedRequests, tracked

(* The timestamp of b1 bounds what is tracked, in both buckets. *)
LEMMA BoundIsSound ==
  ASSUME Inv, NoTrackInFlight
  PROVE  Abstract!SoundBound(At(bucket[b1].ts, 0), tracked)
  <1> DEFINE all == {r \in Clients : call[r].pc = "tracked"}
             bound == At(bucket[b1].ts, 0)
  <1>0. Abstract!TrackedRequests(tracked) = all
    BY TrackedAre
  <1>1. b1 \in 1 .. 2 /\ b2 \in 1 .. 2 /\ b1 # b2
    BY DEF Inv, TypeOK, b2
  <1>11. \A b \in 1 .. 2 : bucket[b].ts \in Nat
    BY DEF Inv, TypeOK
  <1>2. CASE all = {}
    <2>1. bucket[b1].ts = 0
      BY <1>1, <1>2 DEF Inv, EmptyBucketsAreJoined, NoTrackInFlight, InTrack
    <2> QED
      BY <2>1, <1>2, <1>0 DEF Abstract!SoundBound, At, EmptyTS, Abstract!EmptyTS
  <1>3. CASE all # {}
    <2>1. ASSUME NEW r \in all
          PROVE  bucket[b1].ts # 0 /\ bucket[b1].ts <= call[r].ts.wall
      <3>1. call[r].b = b1 \/ call[r].b = b2
        BY DEF Inv, TypeOK, b2
      <3>2. bucket[call[r].b].ts # 0 /\ bucket[call[r].b].ts <= call[r].ts.wall
        BY DEF Inv, BucketsBoundTheirRequests
      <3>3. call[r].ts.wall \in Nat
        BY DEF Inv, TypeOK, Timestamps
      <3> QED
        BY <3>1, <3>2, <3>3, <1>1, <1>11 DEF Inv, BucketsInOrder
    <2>2. ASSUME NEW r \in all
          PROVE  LessEq(bound, tracked[r]) /\ bound # EmptyTS
      <3>1. tracked[r] = call[r].ts /\ call[r].ts \in Timestamps
        BY DEF tracked, Inv, TypeOK
      <3>2. PICK w \in Nat, l \in 0 .. MaxLogical : call[r].ts = [wall |-> w, logical |-> l]
        BY <3>1 DEF Timestamps
      <3>3. bucket[b1].ts # 0 /\ bucket[b1].ts <= w
        BY <2>1, <3>2
      <3>4. bound = [wall |-> bucket[b1].ts, logical |-> 0]
        BY DEF At
      <3>5. bound # EmptyTS
        BY <3>3, <3>4 DEF EmptyTS
      <3>6. LessEq(bound, call[r].ts)
        BY <3>2, <3>3, <3>4, <1>1, <1>11, TimestampAssumption DEF LessEq, Less
      <3> QED
        BY <3>1, <3>5, <3>6
    <2> QED
      BY <2>2, <1>0, <1>3 DEF Abstract!SoundBound, Abstract!LessEq, Abstract!Less, LessEq, Less,
                              EmptyTS, Abstract!EmptyTS
  <1> QED
    BY <1>2, <1>3

(* The two buckets implement the Tracker interface of tracker.go: every    *)
(* answer of LowerBound is the empty timestamp when nothing is tracked and *)
(* at or below every tracked timestamp otherwise, and Count is exact.      *)
THEOREM Refinement == TrackerSpec => ImplementsTracker
  <1>0. Abstract!Timestamps = Timestamps /\ Abstract!EmptyTS = EmptyTS
    BY DEF Timestamps, EmptyTS, Abstract!Timestamps, Abstract!EmptyTS
  <1>1. TrackerInit => Abstract!Init
    BY DEF TrackerInit, NoCall, Abstract!Init, EmptyTS, Abstract!EmptyTS
  <1>2. ASSUME Inv, [TrackerNext]_trackerVars
        PROVE  [Abstract!Next]_(Abstract!vars)
    <2>0. call \in [Clients -> [pc : {"idle", "load", "swap", "join", "tracked"},
                                 ts : Timestamps, b : 1 .. 2, t : Nat]]
      BY <1>2 DEF Inv, TypeOK
    <2>1. CASE UNCHANGED trackerVars
      BY <2>1 DEF trackerVars, Abstract!vars
    <2>2. CASE LowerBound
      <3>1. answer' \in Timestamps
        BY <1>2, LowerBoundStep, <2>2 DEF Inv, TypeOK
      <3>3. Abstract!SoundBound(answer', tracked)
        BY <1>2, <2>2, BoundIsSound DEF LowerBound
      <3>4. Abstract!LowerBound
        BY <3>1, <3>3, <2>2, <1>0 DEF Abstract!LowerBound, tracked, LowerBound
      <3> QED
        BY <3>4 DEF Abstract!Next
    <2>3. ASSUME NEW r \in Clients, \/ \E ts \in ClientTimestamps : Track(r, ts)
                                    \/ LoadBucket(r)
                                    \/ CompareAndSwap(r)
          PROVE  [Abstract!Next]_(Abstract!vars)
      <3>1. /\ \A q \in Clients \ {r} : call'[q] = call[q]
            /\ call[r].pc # "tracked" /\ call'[r].pc # "tracked"
            /\ answer' = answer
        <4>1. CASE \E ts \in ClientTimestamps : Track(r, ts)
          BY <4>1, <2>0 DEF Track
        <4>2. CASE LoadBucket(r)
          BY <4>2, <2>0 DEF LoadBucket
        <4>3. CASE CompareAndSwap(r)
          BY <4>3, <2>0 DEF CompareAndSwap
        <4> QED
          BY <2>3, <4>1, <4>2, <4>3
      <3>2. tracked' = tracked
        BY <3>1 DEF tracked
      <3> QED
        BY <3>1, <3>2 DEF Abstract!vars, tracked
    <2>4. ASSUME NEW r \in Clients, Join(r)
          PROVE  Abstract!Track(r)
      <3>1. tracked' = [tracked EXCEPT ![r] = call[r].ts] /\ tracked[r] = NoToken
        BY <2>0, <2>4 DEF Join, tracked
      <3>2. call[r].ts \in Timestamps \ {EmptyTS}
        BY <1>2, <2>4 DEF Join, Inv, TypeOK, EmptyTS
      <3>3. tracked'[r] = call[r].ts
        BY <2>0, <2>4 DEF Join, tracked
      <3> QED
        BY <3>1, <3>2, <3>3, <1>0, <2>4 DEF Abstract!Track, tracked, Join
    <2>5. ASSUME NEW r \in Clients, Untrack(r)
          PROVE  Abstract!Untrack(r)
      <3>1. tracked' = [tracked EXCEPT ![r] = NoToken]
        BY <2>0, <2>5 DEF Untrack, tracked, NoCall
      <3>2. tracked[r] # NoToken
        BY <2>0, <2>5, TrackerAssumption DEF Untrack, tracked
      <3> QED
        BY <3>1, <3>2, <2>5 DEF Abstract!Untrack, tracked, Untrack
    <2>6. ASSUME NEW r \in Clients, Join(r) \/ Untrack(r)
          PROVE  Abstract!Next
      BY <2>4, <2>5, <2>6 DEF Abstract!Next
    <2>7. CASE TrackerNext
      <3>1. LowerBound \/ \E r \in Clients :
              \/ \E ts \in ClientTimestamps : Track(r, ts)
              \/ LoadBucket(r)
              \/ CompareAndSwap(r)
              \/ Join(r) \/ Untrack(r)
        BY <2>7 DEF TrackerNext
      <3>2. CASE \E r \in Clients : Join(r) \/ Untrack(r)
        BY <2>6, <3>2
      <3> QED BY <2>2, <2>3, <3>1, <3>2
    <2> QED
      BY <1>2, <2>1, <2>7
  <1> QED
    BY <1>1, <1>2, Invariance, PTL DEF TrackerSpec, ImplementsTracker, Abstract!Spec
=============================================================================
