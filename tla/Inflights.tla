----------------------------- MODULE Inflights -----------------------------
(***************************************************************************)
(* tracker/inflights.go: the ring buffer of the appends in flight. It      *)
(* grows on demand, while positions wrap at size, the length it would have *)
(* when fully grown. The names differ from those of Replication, so that   *)
(* both can be extended.                                                   *)
(***************************************************************************)
EXTENDS Integers, Sequences, FiniteSetsExt

CONSTANTS
  Size,       \* the most messages
  MaxBytes,   \* the soft limit of their bytes, 0 for none
  MaxIndex, Sizes   \* bounds: the indexes and the sizes of messages

ASSUME SizeAssumption == Size \in Nat \ {0}
ASSUME MaxBytesAssumption == MaxBytes \in Nat
ASSUME BoundsAssumption == MaxIndex \in Nat /\ Sizes \subseteq Nat

VARIABLES
  start, count, bytes,
  len,        \* len(in.buffer)
  buffer,
  call        \* history: the last call and its argument

ring == <<start, count, bytes, len, buffer>>
inflightsVars == <<ring, call>>

Index == 0 .. MaxIndex
Message == [index : Index, bytes : Sizes]
Zero == [index |-> 0, bytes |-> 0]

(* Position p in the buffer, or what it wraps to. *)
Wrap(p) == IF p >= Size THEN p - Size ELSE p

Full == count = Size \/ (MaxBytes # 0 /\ bytes >= MaxBytes)

(* The message i places after the first. *)
Flight(i) == buffer[Wrap(start + i)]

(* The length of a buffer of length n that is grown. *)
grow(n) == IF n = 0 THEN 1 ELSE IF n * 2 > Size THEN Size ELSE n * 2

InflightsInit ==
  /\ start = 0 /\ count = 0 /\ bytes = 0
  /\ len = 0
  /\ buffer = [k \in 0 .. -1 |-> Zero]
  /\ call = <<"NewInflights">>

(* "consecutive calls to Add() must provide a monotonic sequence of        *)
(* indexes"                                                                *)
Add(m) ==
  /\ ~Full
  /\ \A i \in 0 .. count - 1 : Flight(i).index < m.index
  /\ LET next == Wrap(start + count)
     IN /\ len' = IF next >= len THEN grow(len) ELSE len
        /\ buffer' = [k \in 0 .. len' - 1 |->
                        IF k = next THEN m ELSE IF k < len THEN buffer[k] ELSE Zero]
  /\ count' = count + 1
  /\ bytes' = bytes + m.bytes
  /\ call' = <<"Add", m>>
  /\ UNCHANGED start

(* Mutant: the message that is acknowledged stays. *)
Frees_Below(to, n) ==
  /\ \A i \in 0 .. n - 1 : Flight(i).index < to
  /\ n < count => Flight(n).index >= to

(* The loop frees the first n messages. *)
Frees(to, n) ==
  /\ \A i \in 0 .. n - 1 : Flight(i).index <= to
  /\ n < count => Flight(n).index > to

FreedBytes(n) == MapThenSumSet(LAMBDA i : Flight(i).bytes, 0 .. n - 1)

FreeLE(to) ==
  /\ call' = <<"FreeLE", to>>
  /\ \E n \in 0 .. count :
       /\ Frees(to, n)
       /\ count' = count - n
       /\ bytes' = bytes - FreedBytes(n)
       /\ start' = IF count' = 0 THEN 0 ELSE Wrap(start + n)
  /\ UNCHANGED <<len, buffer>>

reset ==
  /\ start' = 0 /\ count' = 0 /\ bytes' = 0
  /\ call' = <<"reset">>
  /\ UNCHANGED <<len, buffer>>

InflightsNext ==
  \/ \E m \in Message : Add(m)
  \/ \E to \in Index : FreeLE(to)
  \/ reset

InflightsSpec == InflightsInit /\ [][InflightsNext]_inflightsVars

-----------------------------------------------------------------------------
(* Properties. *)

Window == [k \in 1 .. count |-> Flight(k - 1)]

Abstract == INSTANCE InflightWindow WITH window <- Window

(* The variables have their types; the part of the ring that is in use is  *)
(* in the buffer, which no position of it can be outside of.               *)
InflightsTypeOK ==
  /\ start \in 0 .. Size - 1 /\ count \in 0 .. Size
  /\ len \in 0 .. Size
  /\ buffer \in [0 .. len - 1 -> Message \union {Zero}]
  /\ count = 0 => start = 0
  /\ IF start + count <= Size THEN start + count <= len ELSE len = Size

(* The ring buffer is the window that Progress relies on, through growth   *)
(* and wrapping: no message in flight is lost or freed too early.          *)
ImplementsWindow == Abstract!Spec
=============================================================================
