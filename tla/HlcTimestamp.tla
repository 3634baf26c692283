---------------------------- MODULE HlcTimestamp ----------------------------
(***************************************************************************)
(* The timestamps of pkg/util/hlc/timestamp.go: a wall time and a logical  *)
(* tick, ordered lexicographically. MaxLogical stands for math.MaxInt32,   *)
(* where Next carries into the wall time.                                  *)
(***************************************************************************)
EXTENDS Naturals

CONSTANT MaxLogical

ASSUME TimestampAssumption == MaxLogical \in Nat

Timestamps == [wall : Nat, logical : 0 .. MaxLogical]

EmptyTS == [wall |-> 0, logical |-> 0]

At(wall, logical) == [wall |-> wall, logical |-> logical]

Less(t, s) == t.wall < s.wall \/ (t.wall = s.wall /\ t.logical < s.logical)

LessEq(t, s) == Less(t, s) \/ t = s

NextTS(t) ==
  IF t.logical = MaxLogical THEN At(t.wall + 1, 0) ELSE At(t.wall, t.logical + 1)

(* Called only for timestamps that are not empty: it panics otherwise. *)
FloorPrev(t) ==
  IF t.logical > 0 THEN At(t.wall, t.logical - 1) ELSE At(t.wall - 1, 0)

WallPrev(t) == At(t.wall - 1, 0)

(* The receiver after Forward and after Backward. *)
Forward(t, s) == IF Less(t, s) THEN s ELSE t

Backward(t, s) == IF Less(s, t) THEN s ELSE t
=============================================================================
