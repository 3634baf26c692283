------------------------------- MODULE Signal -------------------------------
(***************************************************************************)
(* spanlatch/signal.go: a one-shot signal whose channel is made by the     *)
(* first who waits. Each step is one atomic operation on s.a or s.c. The   *)
(* names differ from those of SpanLatch, so that both can be extended.     *)
(***************************************************************************)
EXTENDS Integers, FiniteSets

CONSTANTS
  Signalers,     \* callers of signal
  Waiters,       \* callers of signalChan, who then receive from the channel
  Idempotent     \* the signal is an idempotentSignal

(* The channel a waiter makes is named after the waiter. *)
CONSTANTS NoChan, ClosedC
ASSUME NamesAssumption ==
  /\ NoChan \notin Waiters /\ ClosedC \notin Waiters /\ NoChan # ClosedC
  /\ Signalers \intersect Waiters = {}

(* Only an idempotent signal has several callers of signal.                *)
ASSUME SignalersAssumption ==
  Idempotent \in BOOLEAN /\ (Idempotent \/ \A s, t \in Signalers : s = t)

VARIABLES
  a,         \* s.a
  c,         \* s.c
  closed,    \* the channels that are closed
  at,        \* where each caller is
  chan,      \* what signalChan returned, or the channel it is about to return
  panicked   \* history: signaled twice, or closed twice

signalVars == <<a, c, closed, at, chan, panicked>>

SignalInit ==
  /\ a = "noSig"
  /\ c = NoChan
  /\ closed = {ClosedC}
  /\ at = [p \in Signalers \union Waiters |-> "start"]
  /\ chan = [w \in Waiters |-> NoChan]
  /\ panicked = FALSE

GoTo(p, label) == at' = [at EXCEPT ![p] = label]

(* close(ch), which panics when ch is closed. *)
Close(ch) ==
  /\ closed' = closed \union {ch}
  /\ panicked' = (panicked \/ ch \in closed)

-----------------------------------------------------------------------------
(* signalWithChoice *)

SwapToSig(s) ==
  /\ at[s] = "start"
  /\ IF a = "noSig"
     THEN a' = "sig" /\ GoTo(s, "load") /\ UNCHANGED panicked
     ELSE /\ GoTo(s, "end")
          /\ panicked' = (panicked \/ ~Idempotent)
          /\ UNCHANGED a
  /\ UNCHANGED <<c, closed, chan>>

LoadChan(s) ==
  /\ at[s] = "load"
  /\ GoTo(s, IF c = NoChan THEN "end" ELSE "swap")
  /\ UNCHANGED <<a, c, closed, chan, panicked>>

(* Mutant: the channel is closed whether or not the signal was given. *)
SwapToClosed_Unchecked(p) ==
  /\ at[p] = "swap"
  /\ GoTo(p, "close")
  /\ UNCHANGED <<a, c, closed, chan, panicked>>

(* Also the last step of signalChan. *)
SwapToClosed(p) ==
  /\ at[p] = "swap"
  /\ IF a = "sig" THEN a' = "sigClosed" /\ GoTo(p, "close")
     ELSE GoTo(p, "end") /\ UNCHANGED a
  /\ UNCHANGED <<c, closed, chan, panicked>>

CloseChan(p) ==
  /\ at[p] = "close"
  /\ Close(c)
  /\ GoTo(p, "end")
  /\ UNCHANGED <<a, c, chan>>

-----------------------------------------------------------------------------
(* signalChan *)

CheckSignaled(w) ==
  /\ at[w] = "start"
  /\ IF a # "noSig" THEN GoTo(w, "end") /\ chan' = [chan EXCEPT ![w] = ClosedC]
     ELSE GoTo(w, "lookup") /\ UNCHANGED chan
  /\ UNCHANGED <<a, c, closed, panicked>>

LookUpChan(w) ==
  /\ at[w] = "lookup"
  /\ IF c # NoChan THEN GoTo(w, "end") /\ chan' = [chan EXCEPT ![w] = c]
     ELSE GoTo(w, "make") /\ UNCHANGED chan
  /\ UNCHANGED <<a, c, closed, panicked>>

(* Mutant: the channel is returned without a look at the signal. *)
MakeChan_Return(w) ==
  /\ at[w] = "make"
  /\ c' = IF c = NoChan THEN w ELSE c
  /\ chan' = [chan EXCEPT ![w] = c']
  /\ GoTo(w, "end")
  /\ UNCHANGED <<a, closed, panicked>>

(* CompareAndSwapPointer; whoever loses the race loads the other channel,  *)
(* which never changes, and returns it.                                    *)
MakeChan(w) ==
  /\ at[w] = "make"
  /\ c' = IF c = NoChan THEN w ELSE c
  /\ chan' = [chan EXCEPT ![w] = c']
  /\ GoTo(w, IF c = NoChan THEN "swap" ELSE "end")
  /\ UNCHANGED <<a, closed, panicked>>

Step(p) ==
  \/ p \in Signalers /\ (SwapToSig(p) \/ LoadChan(p))
  \/ p \in Waiters /\ (CheckSignaled(p) \/ LookUpChan(p) \/ MakeChan(p))
  \/ SwapToClosed(p) \/ CloseChan(p)

Finished == \A p \in Signalers \union Waiters : at[p] = "end"

SignalNext == (\E p \in Signalers \union Waiters : Step(p)) \/ (Finished /\ UNCHANGED signalVars)

SignalSpec == SignalInit /\ [][SignalNext]_signalVars

-----------------------------------------------------------------------------
(* Properties. *)

(* Waiters that have received from the channel. *)
Awake == {w \in Waiters : at[w] = "end" /\ chan[w] \in closed}

Abstract == INSTANCE Broadcast WITH given <- a # "noSig", awake <- Awake

(* The variables have their types, and there is at most one channel.       *)
SignalTypeOK ==
  /\ a \in {"noSig", "sig", "sigClosed"}
  /\ c \in Waiters \union {NoChan}
  /\ closed \subseteq {c, ClosedC}
  /\ at \in [Signalers \union Waiters ->
               {"start", "load", "swap", "close", "end", "lookup", "make"}]
  /\ chan \in [Waiters -> Waiters \union {NoChan, ClosedC}]
  /\ panicked \in BOOLEAN

(* Nothing panics: the signaler and the waiter who makes the channel agree *)
(* which of them closes it.                                                *)
NoPanic == ~panicked

(* A signal wakes only those who wait, and only after it was given.        *)
ImplementsBroadcast == Abstract!Spec

(* No wakeup is lost: whoever waits for a signal that is given wakes up.   *)
WaitersWake == (a # "noSig") ~> Awake = Waiters
=============================================================================
