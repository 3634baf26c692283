------------------------------- MODULE Tracker -------------------------------
(***************************************************************************)
(* What the Tracker interface of closedts/tracker/tracker.go promises:     *)
(* timestamps are tracked and untracked, and LowerBound answers the empty  *)
(* timestamp when nothing is tracked and otherwise some timestamp that is  *)
(* not above any tracked one; it need not be the lowest.                   *)
(***************************************************************************)
EXTENDS HlcTimestamp

CONSTANTS
  Requests,      \* the requests that are tracked, each once at a time
  Untracked      \* the request is not tracked

VARIABLES
  tracked,       \* per request, the timestamp it is tracked at, or Untracked
  answer         \* what LowerBound returned last

vars == <<tracked, answer>>

TrackedRequests(tr) == {r \in Requests : tr[r] # Untracked}

(* ts is an answer LowerBound may give. *)
SoundBound(ts, tr) ==
  IF TrackedRequests(tr) = {}
    THEN ts = EmptyTS
    ELSE ts # EmptyTS /\ \A r \in TrackedRequests(tr) : LessEq(ts, tr[r])

Init ==
  /\ tracked = [r \in Requests |-> Untracked]
  /\ answer = EmptyTS

Track(r) ==
  /\ tracked[r] = Untracked
  /\ tracked'[r] \in Timestamps \ {EmptyTS}
  /\ tracked' = [tracked EXCEPT ![r] = tracked'[r]]
  /\ UNCHANGED answer

Untrack(r) ==
  /\ tracked[r] # Untracked
  /\ tracked' = [tracked EXCEPT ![r] = Untracked]
  /\ UNCHANGED answer

LowerBound ==
  /\ answer' \in Timestamps
  /\ SoundBound(answer', tracked)
  /\ UNCHANGED tracked

Next == LowerBound \/ \E r \in Requests : Track(r) \/ Untrack(r)

Spec == Init /\ [][Next]_vars
=============================================================================
