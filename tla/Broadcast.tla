----------------------------- MODULE Broadcast -----------------------------
(***************************************************************************)
(* What a signal of spanlatch/signal.go promises: whoever waits is woken   *)
(* once the signal was given, and not before.                              *)
(***************************************************************************)
CONSTANT Waiters

VARIABLES given, awake

Init == given = FALSE /\ awake = {}

Give == given' = TRUE /\ UNCHANGED awake

(* Waiters are woken together or one by one. *)
Wake ==
  /\ given
  /\ awake' \in SUBSET Waiters
  /\ awake \subseteq awake'
  /\ UNCHANGED given

Next == Give \/ Wake

Spec == Init /\ [][Next]_<<given, awake>>
=============================================================================
