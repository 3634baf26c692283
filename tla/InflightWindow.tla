-------------------------- MODULE InflightWindow --------------------------
(***************************************************************************)
(* What tracker/inflights.go promises to Progress: a window of at most     *)
(* Size messages, in the order in which they were added, which is the      *)
(* order of their indexes; an acknowledgement frees those it covers and no *)
(* other.                                                                  *)
(***************************************************************************)
EXTENDS Integers, Sequences

CONSTANTS
  Size,
  Message,    \* records with an index
  Index       \* what may be acknowledged

VARIABLES
  window,
  call        \* the last call and its argument

Init == window = <<>> /\ call = <<"NewInflights">>

Add(m) ==
  /\ Len(window) < Size
  /\ \A k \in DOMAIN window : window[k].index < m.index
  /\ window' = Append(window, m)
  /\ call' = <<"Add", m>>

(* The first n messages are those that are covered. *)
FreeLE(to) ==
  /\ call' = <<"FreeLE", to>>
  /\ \E n \in 0 .. Len(window) :
       /\ \A k \in 1 .. n : window[k].index <= to
       /\ \A k \in n + 1 .. Len(window) : window[k].index > to
       /\ window' = [k \in 1 .. Len(window) - n |-> window[k + n]]

Reset == window' = <<>> /\ call' = <<"reset">>

Next == (\E m \in Message : Add(m)) \/ (\E to \in Index : FreeLE(to)) \/ Reset

Spec == Init /\ [][Next]_<<window, call>>
=============================================================================
