--------------------------- MODULE LockfreeTracker ---------------------------
(***************************************************************************)
(* closedts/tracker/lockfree_tracker.go: the tracked timestamps are        *)
(* summarised by two buckets, each a wall time and a reference count.      *)
(* Calls of Track run concurrently, one action per atomic operation;       *)
(* Untrack and LowerBound run under the exclusive lock of the caller, that *)
(* is, while no call of Track is in flight. Count only adds the counts up. *)
(*                                                                         *)
(* A bucket whose ts is 0 is uninitialized, so a timestamp with wall time  *)
(* 0 cannot be tracked: requests have later ones. The names differ from    *)
(* those of ProposalBuffer, so that both can be extended.                  *)
(***************************************************************************)
EXTENDS HlcTimestamp, Integers, FiniteSets

CONSTANTS
  Clients,             \* the requests that are tracked
  ClientTimestamps,    \* and at which timestamps
  NoToken

ASSUME TrackerAssumption ==
  /\ IsFiniteSet(Clients)
  /\ ClientTimestamps \subseteq {ts \in Timestamps : ts.wall > 0}
  /\ NoToken \notin Timestamps

VARIABLES
  bucket,        \* buckets: the wall time and the reference count of each
  b1,            \* which bucket the pointer b1 points at
  call,          \* per request, its Track call and then its token
  answer         \* what LowerBound returned last

trackerVars == <<bucket, b1, call, answer>>

b2 == 3 - b1

Uninitialized == [ts |-> 0, refcnt |-> 0]

NoCall == [pc |-> "idle", ts |-> EmptyTS, b |-> 1, t |-> 0]

(* NewLockfreeTracker *)
TrackerInit ==
  /\ bucket = [b \in 1 .. 2 |-> Uninitialized]
  /\ b1 = 1
  /\ call = [r \in Clients |-> NoCall]
  /\ answer = EmptyTS

InTrack(r) == call[r].pc \in {"load", "swap", "join"}

(* The caller's lock can be held in write mode. *)
NoTrackInFlight == \A r \in Clients : ~InTrack(r)

-----------------------------------------------------------------------------
(* The bucket that Track chooses, from the timestamp of b1. *)
Bucket(wall, t1) == IF t1 = 0 \/ wall <= t1 THEN b1 ELSE b2

(* Track: round the timestamp down to its wall time, read b1, choose. *)
Track(r, ts) ==
  /\ call[r].pc = "idle"
  /\ call' = [call EXCEPT ![r] =
       [pc |-> "load", ts |-> ts, b |-> Bucket(ts.wall, bucket[b1].ts), t |-> 0]]
  /\ UNCHANGED <<bucket, b1, answer>>

(* extendAndJoin, the load: the bucket is low enough, or to be lowered. *)
LoadBucket(r) ==
  LET t == bucket[call[r].b].ts
  IN /\ call[r].pc = "load"
     /\ call' = [call EXCEPT ![r] =
          IF t # 0 /\ t <= @.ts.wall
            THEN [@ EXCEPT !.pc = "join"]
            ELSE [@ EXCEPT !.pc = "swap", !.t = t]]
     /\ UNCHANGED <<bucket, b1, answer>>

(* Mutant: the timestamp is stored whatever happened since the load. *)
CompareAndSwap_Store(r) ==
  /\ call[r].pc = "swap"
  /\ bucket' = [bucket EXCEPT ![call[r].b].ts = call[r].ts.wall]
  /\ call' = [call EXCEPT ![r].pc = "join", ![r].t = 0]
  /\ UNCHANGED <<b1, answer>>

(* extendAndJoin, the compare and swap: again from the load if it fails. *)
CompareAndSwap(r) ==
  LET b == call[r].b
  IN /\ call[r].pc = "swap"
     /\ IF bucket[b].ts = call[r].t
          THEN /\ bucket' = [bucket EXCEPT ![b].ts = call[r].ts.wall]
               /\ call' = [call EXCEPT ![r].pc = "join", ![r].t = 0]
          ELSE /\ call' = [call EXCEPT ![r].pc = "load", ![r].t = 0]
               /\ UNCHANGED bucket
     /\ UNCHANGED <<b1, answer>>

Join(r) ==
  /\ call[r].pc = "join"
  /\ bucket' = [bucket EXCEPT ![call[r].b].refcnt = @ + 1]
  /\ call' = [call EXCEPT ![r].pc = "tracked"]
  /\ UNCHANGED <<b1, answer>>

(* An emptied bucket is reset; if it was b1 the pointers are swapped. *)
Untrack(r) ==
  LET b == call[r].b
      refcnt == bucket[b].refcnt - 1
  IN /\ call[r].pc = "tracked" /\ NoTrackInFlight
     /\ bucket' = [bucket EXCEPT ![b] =
          [ts |-> IF refcnt = 0 THEN 0 ELSE @.ts, refcnt |-> refcnt]]
     /\ b1' = IF refcnt = 0 /\ b = b1 THEN b2 ELSE b1
     /\ call' = [call EXCEPT ![r] = NoCall]
     /\ UNCHANGED answer

LowerBound ==
  /\ NoTrackInFlight
  /\ answer' = At(bucket[b1].ts, 0)
  /\ UNCHANGED <<bucket, b1, call>>

TrackerNext ==
  \/ LowerBound
  \/ \E r \in Clients :
       \/ \E ts \in ClientTimestamps : Track(r, ts)
       \/ LoadBucket(r)
       \/ CompareAndSwap(r)
       \/ Join(r)
       \/ Untrack(r)

TrackerSpec == TrackerInit /\ [][TrackerNext]_trackerVars

-----------------------------------------------------------------------------
(* Properties *)

(* The types; the counts are not negative, which Untrack checks with a     *)
(* log.Fatal.                                                              *)
TypeOK ==
  /\ bucket \in [1 .. 2 -> [ts : Nat, refcnt : Nat]]
  /\ b1 \in 1 .. 2
  /\ call \in [Clients -> [pc : {"idle", "load", "swap", "join", "tracked"},
                           ts : Timestamps, b : 1 .. 2, t : Nat]]
  /\ \A r \in Clients : call[r].pc # "idle" => call[r].ts.wall > 0
  /\ answer \in Timestamps

(* The implementation invariants 2 and 3 in the comment of Track: when     *)
(* both buckets are initialized b1 is below b2, and a single initialized   *)
(* bucket is b1; here also while calls of Track are in flight.             *)
BucketsInOrder == bucket[b2].ts # 0 => bucket[b1].ts # 0 /\ bucket[b1].ts < bucket[b2].ts

(* Implementation invariant 4: without a Track in flight a bucket is       *)
(* initialized exactly when somebody is in it.                             *)
InitializedBucketsAreNotEmpty ==
  NoTrackInFlight => \A b \in 1 .. 2 : bucket[b].ts # 0 <=> bucket[b].refcnt > 0

(* Everybody who joined a bucket is at or above its timestamp, so that the *)
(* order of the buckets makes b1 a bound for all.                          *)
BucketsBoundTheirRequests ==
  \A r \in Clients :
    call[r].pc \in {"join", "tracked"} =>
      bucket[call[r].b].ts # 0 /\ bucket[call[r].b].ts <= call[r].ts.wall

(* A Track that passed its check of b1 goes to b2 only above an            *)
(* initialized b1; a load that was 0 or too high is what it would replace. *)
InFlightChoice ==
  \A r \in Clients :
    /\ InTrack(r) /\ call[r].b = b2 => bucket[b1].ts # 0 /\ bucket[b1].ts < call[r].ts.wall
    /\ call[r].pc = "swap" => call[r].t = 0 \/ call[r].ts.wall < call[r].t

(* The reference counts are the requests in the buckets. *)
CountsAreRequests ==
  \A b \in 1 .. 2 :
    bucket[b].refcnt = Cardinality({r \in Clients : call[r].pc = "tracked" /\ call[r].b = b})

(* A bucket without requests is uninitialized, unless a Track that         *)
(* initialized it is about to join.                                        *)
EmptyBucketsAreJoined ==
  \A b \in 1 .. 2 :
    bucket[b].ts # 0 =>
      \E r \in Clients : call[r].pc \in {"join", "tracked"} /\ call[r].b = b

(* The inductive invariant. *)
Inv ==
  /\ TypeOK
  /\ BucketsInOrder
  /\ BucketsBoundTheirRequests
  /\ InFlightChoice
  /\ CountsAreRequests
  /\ EmptyBucketsAreJoined

(* The two buckets implement the Tracker interface: a timestamp is tracked *)
(* from the increment of the reference count to Untrack, and every answer  *)
(* of LowerBound is a lower bound of what is tracked then.                 *)
Abstract == INSTANCE Tracker WITH
  Requests <- Clients, Untracked <- NoToken,
  tracked <- [r \in Clients |-> IF call[r].pc = "tracked" THEN call[r].ts ELSE NoToken]

ImplementsTracker == Abstract!Spec
=============================================================================
