----------------------------- MODULE SpanLatch -----------------------------
(***************************************************************************)
(* spanlatch/manager.go: latches over spans of keys, at timestamps. A      *)
(* request takes its place in the trees and a snapshot of those before it  *)
(* under the mutex, and waits outside of it. The done and poison signals   *)
(* are those of module Signal, taken as atomic. The keys of the two scopes *)
(* are disjoint, so one set of trees stands for both.                      *)
(***************************************************************************)
EXTENDS Integers, FiniteSets

CONSTANTS
  Requests,
  Workloads    \* what the requests may declare, see load

(* Requests read or write, and what one turns out to have read is among    *)
(* what it declared.                                                       *)
ASSUME LoadAssumption ==
  \A w \in Workloads : \A r \in Requests :
    /\ \A s \in w.spans[r] : s.access \in {"read", "write"}
    /\ \A s \in w.read[r] :
         \E t \in w.spans[r] : s.access = t.access /\ s.keys \subseteq t.keys /\ s.ts = t.ts

VARIABLES
  load,        \* what the requests of this behaviour declare
  readSet, readTree, writeTree,    \* latches, as <<request, span>>
  snap,        \* snapshot of the trees of each request
  pc,          \* where each request is
  waitingOn,   \* the latch it waits for, or none: a set
  sawPoison,   \* poisonCh is nil in waitForSignal
  done, poisoned,    \* guards that have signaled
  validated,   \* optimistic requests that passed the check
  earlier,     \* history: who was in the trees when a request was sequenced
  met          \* history: who held latches while a request was evaluated optimistically

trees == <<readSet, readTree, writeTree>>
signals == <<done, poisoned>>
vars == <<load, trees, snap, pc, waitingOn, sawPoison, signals, validated, earlier, met>>

(* The spans are [access, keys, ts], ts = 0 if not MVCC; the kind is       *)
(* "Acquire", "Optimistic" or "WaitFor", the policy "Wait" or "Error".     *)
Spans == load.spans           \* the latches a request declares
Kind == load.kind
SpansRead == load.read        \* what an optimistic request turns out to have read
Policy == load.policy
Cancels == load.cancels       \* requests whose context may end
Stuck == load.stuck           \* requests that may never finish; they are poisoned then

Latches(r, access) == {<<r, s>> : s \in {x \in Spans[r] : x.access = access}}

Overlap(s, t) == s.keys \intersect t.keys # {}

(* Mutant: a write does not wait for a read at its own timestamp. *)
ignoreEarlier_Equal(ts, other) == other # 0 /\ other <= ts

ignoreLater(ts, other) == ts # 0 /\ ts < other
ignoreEarlier(ts, other) == other # 0 /\ other < ts

(* What the span s waits for. *)
WaitsFor(s, t) ==
  /\ Overlap(s, t)
  /\ \/ s.access = "read" /\ t.access = "write" /\ ~ignoreLater(s.ts, t.ts)
     \/ s.access = "write" /\ t.access = "write"
     \/ s.access = "write" /\ t.access = "read" /\ ~ignoreEarlier(s.ts, t.ts)

Init ==
  /\ load \in Workloads
  /\ readSet = {} /\ readTree = {} /\ writeTree = {}
  /\ snap = [r \in Requests |-> {}]
  /\ pc = [r \in Requests |-> "idle"]
  /\ waitingOn = [r \in Requests |-> {}]
  /\ sawPoison = [r \in Requests |-> FALSE]
  /\ done = {} /\ poisoned = {} /\ validated = {}
  /\ earlier = [r \in Requests |-> {}]
  /\ met = [r \in Requests |-> {}]

Holding == {r \in Requests : pc[r] = "held"}

(* The request r goes to l, and met follows. *)
Goto(r, l) ==
  /\ pc' = [pc EXCEPT ![r] = l]
  /\ met' = [q \in Requests |->
               IF pc'[q] = "evaluating" THEN met[q] \union (Holding \ {q})
                                             \union {p \in {r} \ {q} : l = "held"}
               ELSE met[q]]

-----------------------------------------------------------------------------

(* A write flushes the read set and captures both trees. *)
snapshotLocked(r) ==
  IF Latches(r, "write") # {}
  THEN /\ snap' = [snap EXCEPT ![r] = readSet \union readTree \union writeTree]
       /\ readTree' = readTree \union readSet
  ELSE /\ snap' = [snap EXCEPT ![r] = writeTree]
       /\ readTree' = readTree

(* Reads that were flushed have left the read set. *)
insertLocked(r) ==
  LET inserted(access) == IF Kind[r] = "WaitFor" THEN {} ELSE Latches(r, access)
  IN /\ readSet' = (readSet \ readTree') \union inserted("read")
     /\ writeTree' = writeTree \union inserted("write")

(* Acquire, AcquireOptimistic, WaitFor, up to the unlock. *)
sequence(r) ==
  /\ pc[r] = "idle"
  /\ snapshotLocked(r)
  /\ insertLocked(r)
  /\ earlier' = [earlier EXCEPT ![r] = {l[1] : l \in readSet \union readTree \union writeTree}]
  /\ Goto(r, IF Kind[r] = "Optimistic" THEN "evaluating" ELSE "waiting")
  /\ UNCHANGED <<waitingOn, sawPoison, signals, validated>>

(* Latches in the snapshot that r must still wait for. *)
ToWaitFor(r) ==
  {h \in snap[r] : h[1] \notin done /\ \E s \in Spans[r] : WaitsFor(s, h[2])}

(* iterAndWait; the order of the trees is left open. *)
StartWait(r) ==
  /\ pc[r] = "waiting" /\ waitingOn[r] = {}
  /\ \E h \in ToWaitFor(r) : waitingOn' = [waitingOn EXCEPT ![r] = {h}]
  /\ sawPoison' = [sawPoison EXCEPT ![r] = FALSE]
  /\ UNCHANGED <<trees, snap, pc, signals, validated, earlier, met>>

(* waitForSignal: done *)
Woken(r) ==
  /\ \E h \in waitingOn[r] : h[1] \in done
  /\ waitingOn' = [waitingOn EXCEPT ![r] = {}]
  /\ UNCHANGED <<trees, snap, pc, sawPoison, signals, validated, earlier, met>>

(* wait fails: Acquire releases; WaitFor has nothing to release. *)
WaitFails(r) ==
  /\ waitingOn' = [waitingOn EXCEPT ![r] = {}]
  /\ Goto(r, IF Kind[r] = "WaitFor" THEN "failed" ELSE "failing")

(* Mutant: a request that goes on waiting is not poisoned itself. *)
SelfPoison_None(r) == poisoned

SelfPoison(r) == poisoned \union {r}

(* waitForSignal: poison *)
SeesPoison(r) ==
  /\ \E h \in waitingOn[r] : h[1] \in poisoned
  /\ \/ /\ Policy[r] = "Error"
        /\ WaitFails(r)
        /\ UNCHANGED <<poisoned, sawPoison>>
     \/ /\ Policy[r] = "Wait" /\ ~sawPoison[r]
        /\ poisoned' = SelfPoison(r)
        /\ sawPoison' = [sawPoison EXCEPT ![r] = TRUE]
        /\ UNCHANGED <<waitingOn, pc, met>>
  /\ UNCHANGED <<trees, snap, done, validated, earlier>>

(* waitForSignal: ctx.Done or ShouldQuiesce *)
Canceled(r) ==
  /\ r \in Cancels
  /\ waitingOn[r] # {}
  /\ WaitFails(r)
  /\ UNCHANGED <<trees, snap, sawPoison, signals, validated, earlier>>

(* wait returns. *)
Acquired(r) ==
  /\ pc[r] = "waiting" /\ waitingOn[r] = {}
  /\ ToWaitFor(r) = {}
  /\ Goto(r, IF Kind[r] = "WaitFor" THEN "returned" ELSE "held")
  /\ UNCHANGED <<trees, snap, waitingOn, sawPoison, signals, validated, earlier>>

(* Mutant: a latch that was released meanwhile is no conflict. *)
NoConflicts_Signaled(r) ==
  \A h \in snap[r], s \in SpansRead[r] : h[1] \in done \/ ~WaitsFor(s, h[2])

(* overlaps, for every latch of the snapshot, also those released since. *)
NoConflicts(r) == \A h \in snap[r], s \in SpansRead[r] : ~WaitsFor(s, h[2])

(* CheckOptimisticNoConflicts. If it succeeds the request may hold its     *)
(* latches; after either answer it may wait for them (WaitUntilAcquired;   *)
(* the locks, which are checked next, may conflict) or give up (Release).  *)
CheckOptimisticNoConflicts(r) ==
  /\ pc[r] = "evaluating"
  /\ \/ NoConflicts(r) /\ Goto(r, "held") /\ validated' = validated \union {r}
     \/ Goto(r, "waiting") /\ UNCHANGED validated
     \/ Goto(r, "failing") /\ UNCHANGED validated
  /\ UNCHANGED <<trees, snap, waitingOn, sawPoison, signals, earlier>>

(* The replica cannot finish the request any time soon. *)
Poison(r) ==
  /\ pc[r] = "held" /\ r \in Stuck
  /\ poisoned' = poisoned \union {r}
  /\ UNCHANGED <<trees, snap, pc, waitingOn, sawPoison, done, validated, earlier, met>>

(* Release: the signal, before the mutex is taken. *)
SignalDone(r) ==
  /\ pc[r] \in {"held", "failing"}
  /\ done' = done \union {r}
  /\ Goto(r, "removing")
  /\ UNCHANGED <<trees, snap, waitingOn, sawPoison, poisoned, validated, earlier>>

(* Mutant: reads are looked for in the read set only. *)
Removed_ReadSet(r) ==
  /\ readSet' = readSet \ Latches(r, "read")
  /\ readTree' = readTree
  /\ writeTree' = writeTree \ Latches(r, "write")

Removed(r) ==
  /\ readSet' = readSet \ Latches(r, "read")
  /\ readTree' = readTree \ (Latches(r, "read") \ readSet)
  /\ writeTree' = writeTree \ Latches(r, "write")

remove(r) ==
  /\ pc[r] = "removing"
  /\ Removed(r)
  /\ Goto(r, "released")
  /\ UNCHANGED <<snap, waitingOn, sawPoison, signals, validated, earlier>>

Ended(r) == pc[r] \in {"released", "returned", "failed"}

Waits(r) == StartWait(r) \/ Woken(r) \/ SeesPoison(r) \/ Acquired(r)
Releases(r) == SignalDone(r) \/ remove(r)

Next ==
  /\ UNCHANGED load
  /\ \/ \E r \in Requests :
          \/ sequence(r)
          \/ Waits(r) \/ Canceled(r)
          \/ CheckOptimisticNoConflicts(r)
          \/ Poison(r)
          \/ Releases(r)
     \/ (\A r \in Requests : Ended(r)) /\ UNCHANGED vars

Spec == Init /\ [][Next]_vars

-----------------------------------------------------------------------------
(* Properties. *)

(* Two accesses may not overlap in time: one writes, and it is not the     *)
(* case that the other reads below the timestamp of the write.             *)
Conflict(s, t) ==
  /\ Overlap(s, t)
  /\ "write" \in {s.access, t.access}
  /\ ~(s.access = "read" /\ s.ts # 0 /\ s.ts < t.ts)
  /\ ~(t.access = "read" /\ t.ts # 0 /\ t.ts < s.ts)

(* What a request that holds its latches touches. *)
Touches(r) == IF r \in validated THEN SpansRead[r] ELSE Spans[r]

Conflicting(r, q) == \E s \in Touches(r), t \in Touches(q) : Conflict(s, t)

(* Latches isolate: no two requests that conflict hold their latches at    *)
(* the same time, whatever the order in which they were sequenced, waited, *)
(* failed and were validated; and WaitFor returns after every conflicting  *)
(* request that was there before.                                          *)
Isolation ==
  /\ \A r, q \in Holding : r # q => ~Conflicting(r, q)
  /\ \A r \in Requests : pc[r] = "returned" =>
       \A q \in earlier[r] :
         (\E s \in Spans[r], t \in Spans[q] : Conflict(s, t)) => q \in done

(* An optimistic evaluation that is validated overlapped with no conflict- *)
(* ing one, not even with one that ended before the check.                 *)
OptimisticSawAll == \A r \in validated : \A q \in met[r] : ~Conflicting(r, q)

(* No latch is leaked, lost or left behind in the set it was first in.     *)
NoLeakedLatches ==
  readSet \union readTree \union writeTree =
    UNION {Latches(r, "read") \union Latches(r, "write") :
             r \in {q \in Requests : pc[q] # "idle" /\ ~Ended(q) /\ Kind[q] # "WaitFor"}}

(* A request that fails fast never waits for ever, not even behind a stuck *)
(* one, or behind one that goes on waiting for the stuck one.              *)
WaitsEnd ==
  \A r \in Requests : Policy[r] = "Error" => (pc[r] = "waiting" ~> pc[r] # "waiting")
=============================================================================
