----------------------------- MODULE MCSpanLatch -----------------------------
(* Four requests on two keys, and a signal by itself. *)
EXTENDS SpanLatch, Signal, TLC

CONSTANTS r1, r2, r3, r4, k1, k2

Reads(keys, t) == [access |-> "read", keys |-> keys, ts |-> t]
Writes(keys, t) == [access |-> "write", keys |-> keys, ts |-> t]

(* A blind write, a read-modify-write whose context may end, a limited     *)
(* scan that is evaluated optimistically, and a barrier.                   *)
Mix ==
  [spans |-> (r1 :> {Writes({k1}, 2)} @@ r2 :> {Reads({k1}, 3), Writes({k2}, 3)}
              @@ r3 :> {Reads({k1, k2}, 2)} @@ r4 :> {Writes({k1, k2}, 0)}),
   kind |-> (r1 :> "Acquire" @@ r2 :> "Acquire" @@ r3 :> "Optimistic" @@ r4 :> "WaitFor"),
   read |-> (r1 :> {} @@ r2 :> {} @@ r3 :> {Reads({k1}, 2)} @@ r4 :> {}),
   policy |-> [r \in {r1, r2, r3, r4} |-> "Wait"],
   cancels |-> {r2}, stuck |-> {}]

(* A write that is stuck, one that waits for it and is in the way of two   *)
(* that fail fast.                                                         *)
Chain ==
  [spans |-> (r1 :> {Writes({k1}, 1)} @@ r2 :> {Writes({k1, k2}, 2)}
              @@ r3 :> {Reads({k2}, 3)} @@ r4 :> {Writes({k2}, 1)}),
   kind |-> (r1 :> "Acquire" @@ r2 :> "Acquire" @@ r3 :> "Optimistic" @@ r4 :> "Acquire"),
   read |-> (r1 :> {} @@ r2 :> {} @@ r3 :> {Reads({k2}, 3)} @@ r4 :> {}),
   policy |-> (r1 :> "Wait" @@ r2 :> "Wait" @@ r3 :> "Error" @@ r4 :> "Error"),
   cancels |-> {}, stuck |-> {r1}]

MCWorkloads == {Mix, Chain}

-----------------------------------------------------------------------------
(* The latches, and the signal that they take as atomic, in one state      *)
(* graph.                                                                  *)

VARIABLE part   \* chosen once and for all

(* Requests that wait are goroutines that run; those that hold latches     *)
(* finish, unless they are stuck, and then they are poisoned.              *)
LatchFairness ==
  \A r \in Requests :
    /\ WF_vars(part = "latches" /\ Waits(r) /\ UNCHANGED load)
    /\ WF_vars(part = "latches" /\ CheckOptimisticNoConflicts(r) /\ UNCHANGED load)
    /\ WF_vars(part = "latches" /\ Releases(r) /\ ~(pc[r] = "held" /\ r \in Stuck) /\ UNCHANGED load)
    /\ WF_vars(part = "latches" /\ Poison(r) /\ UNCHANGED load)

(* Callers of signal and signalChan are goroutines that run.               *)
SignalFairness ==
  \A p \in Signalers \union Waiters : WF_signalVars(part = "signal" /\ Step(p))

MCInit == Init /\ SignalInit /\ part \in {"latches", "signal"}

MCNext ==
  /\ \/ part = "latches" /\ Next /\ UNCHANGED signalVars
     \/ part = "signal" /\ SignalNext /\ UNCHANGED vars
  /\ UNCHANGED part

LatchesSpec ==
  MCInit /\ [][MCNext]_<<vars, signalVars, part>> /\ LatchFairness /\ SignalFairness

(* No wakeup is lost: see Signal.                                          *)
SignalWakes == part = "signal" => WaitersWake
=============================================================================
