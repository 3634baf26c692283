--------------------------- MODULE SpanLatchProofs ---------------------------
(***************************************************************************)
(* Isolation, OptimisticSawAll and NoLeakedLatches of SpanLatch for any    *)
(* number of requests and whatever they declare.                           *)
(*                                                                         *)
(* Of two requests with latches in the trees, one has the latches of the   *)
(* other in its snapshot, at least those it may conflict with: a read that *)
(* is sequenced after another read has not, and need not have, seen it.    *)
(* The one that has seen the other holds its latches only once it waited   *)
(* for it, or found that what it really read does not conflict. What is    *)
(* hard is the optimistic request, which runs before it waits: everybody   *)
(* that held latches meanwhile is in its snapshot or did not conflict.     *)
(*                                                                         *)
(* At the end, the signal a latch is waited for with: it never panics and  *)
(* implements Broadcast, for any number of signalers and waiters.          *)
(***************************************************************************)
EXTENDS SpanLatch, Signal, TLAPS

Present == {q \in Requests : pc[q] # "idle" /\ ~Ended(q) /\ Kind[q] # "WaitFor"}

Covers(t, s) == s.access = t.access /\ s.keys \subseteq t.keys /\ s.ts = t.ts

OneWrites(s, t) == "write" \in {s.access, t.access}

Types ==
  /\ load \in Workloads
  /\ pc \in [Requests -> {"idle", "evaluating", "waiting", "held", "failing", "removing",
                          "released", "returned", "failed"}]
  /\ snap = [r \in Requests |-> snap[r]]
  /\ waitingOn = [r \in Requests |-> waitingOn[r]]
  /\ earlier \in [Requests -> SUBSET Requests]
  /\ met = [r \in Requests |-> met[r]]
  /\ done \subseteq Requests /\ validated \subseteq Requests

(* The trees hold the latches of the requests that are present. *)
TreesHold ==
  /\ readSet \intersect readTree = {}
  /\ readSet \union readTree = UNION {Latches(q, "read") : q \in Present}
  /\ writeTree = UNION {Latches(q, "write") : q \in Present}

(* Who comes later has seen who came before. *)
SnapshotsHold ==
  /\ \A r \in Requests : pc[r] # "idle" =>
       \A q \in earlier[r] : \A s \in Spans[r], t \in Spans[q] :
         OneWrites(s, t) => <<q, t>> \in snap[r]
  /\ \A r, q \in Present : r # q =>
       \A s \in Spans[r], t \in Spans[q] :
         OneWrites(s, t) => <<q, t>> \in snap[r] \/ <<r, s>> \in snap[q]

(* What a request has done to get where it is. *)
StepsHold ==
  \A r \in Requests :
    /\ pc[r] = "idle" => met[r] = {}
    /\ waitingOn[r] # {} => pc[r] = "waiting"
    /\ pc[r] \in {"evaluating", "held", "failing", "removing", "released"} => Kind[r] # "WaitFor"
    /\ pc[r] \in {"returned", "failed"} => Kind[r] = "WaitFor"
    /\ r \in done => pc[r] \in {"removing", "released"}
    /\ r \in validated => pc[r] \in {"held", "removing", "released"} /\ NoConflicts(r)
    /\ pc[r] \in {"held", "returned"} /\ r \notin validated => ToWaitFor(r) = {}

CoreInv == Types /\ TreesHold /\ SnapshotsHold /\ StepsHold

(* What conflicts with q among the accesses of p is in the snapshot of q. *)
Seen(q, p) ==
  \A s \in SpansRead[q], t \in Touches(p) :
    Conflict(s, t) => \E u \in Spans[p] : Covers(u, t) /\ <<p, u>> \in snap[q]

MetHolds ==
  \A r \in Requests : \A q \in met[r] :
    /\ q \in Requests
    /\ pc[q] \in {"held", "removing", "released"}
    /\ pc[r] = "evaluating" => Seen(r, q)

LatchInv == CoreInv /\ MetHolds /\ OptimisticSawAll

-----------------------------------------------------------------------------
(* Spans. *)

LEMMA SpansOfLoad ==
  ASSUME Types, NEW r \in Requests
  PROVE  /\ \A s \in Spans[r] : s.access \in {"read", "write"}
         /\ \A s \in Touches(r) : \E u \in Spans[r] : Covers(u, s)
         /\ \A s \in SpansRead[r] : \E u \in Spans[r] : Covers(u, s)
BY LoadAssumption DEF Types, Spans, SpansRead, Touches, Covers

LEMMA ConflictWaits ==
  ASSUME NEW s, NEW t, s.access \in {"read", "write"}, t.access \in {"read", "write"},
         Conflict(s, t)
  PROVE  WaitsFor(s, t) /\ WaitsFor(t, s) /\ OneWrites(s, t)
BY DEF Conflict, WaitsFor, OneWrites, ignoreLater, ignoreEarlier, Overlap

LEMMA ConflictCovers ==
  ASSUME NEW s, NEW t, NEW u, NEW v, Conflict(s, t), Covers(u, s), Covers(v, t)
  PROVE  Conflict(u, v) /\ Conflict(s, v) /\ Conflict(u, t)
BY DEF Conflict, Covers, Overlap

LEMMA ConflictSymmetric == ASSUME NEW s, NEW t, Conflict(s, t) PROVE Conflict(t, s)
BY DEF Conflict, Overlap

-----------------------------------------------------------------------------
(* The core: who holds latches and has seen another waited for it. *)

LEMMA HeldOrSeen ==
  ASSUME CoreInv, NEW p \in Requests, NEW q \in Requests, p # q, pc[p] = "held",
         q \in Present, q \notin done,
         NEW s \in Spans[q], NEW t \in Touches(p), Conflict(s, t)
  PROVE  <<q, s>> \notin snap[p]
<1> SUFFICES ASSUME <<q, s>> \in snap[p] PROVE FALSE
  OBVIOUS
<1>1. PICK u \in Spans[p] : Covers(u, t)
  BY SpansOfLoad DEF CoreInv
<1>2. s.access \in {"read", "write"} /\ t.access \in {"read", "write"}
  BY <1>1, SpansOfLoad DEF CoreInv, Covers
<1>3. WaitsFor(t, s)
  BY <1>2, ConflictWaits
<1>4. CASE p \in validated
  <2>1. NoConflicts(p) /\ t \in SpansRead[p]
    BY <1>4 DEF CoreInv, StepsHold, Touches
  <2> QED BY <1>3, <2>1 DEF NoConflicts
<1>5. CASE p \notin validated
  <2>1. ToWaitFor(p) = {} /\ t \in Spans[p]
    BY <1>5 DEF CoreInv, StepsHold, Touches
  <2> QED BY <1>3, <2>1 DEF ToWaitFor
<1> QED BY <1>4, <1>5

LEMMA HeldIsPresent ==
  ASSUME CoreInv, NEW r \in Requests, pc[r] \in {"held", "evaluating"}
  PROVE  r \in Present /\ r \notin done
BY DEF CoreInv, StepsHold, Present, Ended

(* While q is evaluated optimistically, who holds latches is seen by q.    *)
HoldersSeen ==
  \A q, p \in Requests : pc[q] = "evaluating" /\ pc[p] = "held" => Seen(q, p)

LEMMA CoreHoldersSeen == CoreInv => HoldersSeen
<1> SUFFICES ASSUME CoreInv, NEW q \in Requests, NEW p \in Requests,
                    pc[q] = "evaluating", pc[p] = "held",
                    NEW s \in SpansRead[q], NEW t \in Touches(p), Conflict(s, t)
             PROVE  \E u \in Spans[p] : Covers(u, t) /\ <<p, u>> \in snap[q]
  BY DEF HoldersSeen, Seen
<1>1. p # q /\ p \in Present /\ q \in Present /\ q \notin done
  BY HeldIsPresent
<1>2. PICK u \in Spans[p] : Covers(u, t)
  BY SpansOfLoad DEF CoreInv
<1>3. PICK v \in Spans[q] : Covers(v, s)
  BY SpansOfLoad DEF CoreInv
<1>4. Conflict(v, u) /\ Conflict(v, t)
  BY <1>2, <1>3, ConflictCovers
<1>5. OneWrites(v, u)
  <2>1. v.access \in {"read", "write"} /\ u.access \in {"read", "write"}
    BY SpansOfLoad DEF CoreInv
  <2> QED BY <1>4, <2>1, ConflictWaits
<1>6. <<q, v>> \notin snap[p]
  BY <1>1, <1>4, HeldOrSeen
<1>7. <<p, u>> \in snap[q]
  BY <1>1, <1>5, <1>6 DEF CoreInv, SnapshotsHold
<1> QED BY <1>2, <1>7

(* The invariant implies isolation. *)
LEMMA InvIsolation == CoreInv => Isolation
<1> SUFFICES ASSUME CoreInv PROVE Isolation
  OBVIOUS
<1>1. ASSUME NEW r \in Holding, NEW q \in Holding, r # q, Conflicting(r, q) PROVE FALSE
  <2>1. r \in Requests /\ q \in Requests /\ pc[r] = "held" /\ pc[q] = "held"
    BY DEF Holding
  <2>2. r \in Present /\ q \in Present /\ r \notin done /\ q \notin done
    BY <2>1, HeldIsPresent
  <2>3. PICK s \in Touches(r), t \in Touches(q) : Conflict(s, t)
    BY <1>1 DEF Conflicting
  <2>4. PICK u \in Spans[r] : Covers(u, s)
    BY <2>1, SpansOfLoad DEF CoreInv
  <2>5. PICK v \in Spans[q] : Covers(v, t)
    BY <2>1, SpansOfLoad DEF CoreInv
  <2>6. Conflict(u, v) /\ Conflict(s, v) /\ Conflict(u, t) /\ Conflict(v, s)
    BY <2>3, <2>4, <2>5, ConflictCovers, ConflictSymmetric
  <2>7. OneWrites(u, v)
    <3>1. v.access \in {"read", "write"} /\ u.access \in {"read", "write"}
      BY <2>1, SpansOfLoad DEF CoreInv
    <3> QED BY <2>6, <3>1, ConflictWaits
  <2>8. <<q, v>> \in snap[r] \/ <<r, u>> \in snap[q]
    BY <1>1, <2>2, <2>7 DEF CoreInv, SnapshotsHold
  <2>9. <<r, u>> \notin snap[q]
    BY <1>1, <2>1, <2>2, <2>6, HeldOrSeen
  <2>10. <<q, v>> \notin snap[r]
    BY <1>1, <2>1, <2>2, <2>6, HeldOrSeen
  <2> QED BY <2>8, <2>9, <2>10
<1>2. ASSUME NEW r \in Requests, pc[r] = "returned", NEW q \in earlier[r],
             NEW s \in Spans[r], NEW t \in Spans[q], Conflict(s, t)
      PROVE  q \in done
  <2>1. ToWaitFor(r) = {}
    BY <1>2 DEF CoreInv, StepsHold
  <2>2. q \in Requests
    BY <1>2 DEF CoreInv, Types
  <2>3. WaitsFor(s, t) /\ OneWrites(s, t)
    <3>1. s.access \in {"read", "write"} /\ t.access \in {"read", "write"}
      BY <2>2, SpansOfLoad DEF CoreInv
    <3> QED BY <1>2, <3>1, ConflictWaits
  <2>4. <<q, t>> \in snap[r]
    BY <1>2, <2>3 DEF CoreInv, SnapshotsHold
  <2> QED BY <2>1, <2>3, <2>4 DEF ToWaitFor
<1> QED BY <1>1, <1>2 DEF Isolation

-----------------------------------------------------------------------------
(* Steps. *)

LEMMA CoreHoldersSeenNext == CoreInv' => HoldersSeen'
BY CoreHoldersSeen, PTL

(* Goto keeps track of who is met. *)
LEMMA GotoMet ==
  ASSUME LatchInv, CoreInv', NEW r \in Requests, NEW l, Goto(r, l), UNCHANGED load,
         \A q \in Requests : q # r \/ pc[r] # "idle" => snap'[q] = snap[q],
         l = "evaluating" => pc[r] = "idle",
         pc[r] \in {"held", "removing", "released"} => l \in {"removing", "released"},
         validated' = validated \/ (pc[r] = "evaluating" /\ validated' = validated \union {r})
  PROVE  MetHolds'
<1>1. /\ pc'[r] = l /\ \A q \in Requests : q # r => pc'[q] = pc[q]
      /\ \A q \in Requests :
           met'[q] = IF pc'[q] = "evaluating"
                     THEN met[q] \union (Holding \ {q}) \union {p \in {r} \ {q} : l = "held"}
                     ELSE met[q]
  BY DEF Goto, LatchInv, CoreInv, Types
<1>2. ASSUME NEW q \in Requests, NEW p \in met[q]
      PROVE  p \in Requests /\ pc[p] \in {"held", "removing", "released"}
                            /\ pc'[p] \in {"held", "removing", "released"}
  BY <1>1 DEF LatchInv, MetHolds
<1>3. ASSUME NEW q \in Requests, NEW p \in Requests, Seen(q, p), q # r \/ pc[r] # "idle",
             pc[p] \in {"held", "removing", "released"}
      PROVE  Seen(q, p)'
  <2>1. p \in validated' <=> p \in validated
    BY <1>3
  <2>2. snap'[q] = snap[q]
    BY <1>3
  <2> QED BY <1>3, <2>1, <2>2 DEF Seen, Touches, Spans, SpansRead
<1>4. HoldersSeen /\ HoldersSeen'
  BY CoreHoldersSeen, CoreHoldersSeenNext DEF LatchInv
<1> SUFFICES ASSUME NEW q \in Requests, NEW p \in met'[q]
             PROVE  /\ p \in Requests
                    /\ pc'[p] \in {"held", "removing", "released"}
                    /\ pc'[q] = "evaluating" => Seen(q, p)'
  BY DEF MetHolds
<1>5. CASE pc'[q] # "evaluating"
  BY <1>1, <1>2, <1>5
<1>6. CASE pc'[q] = "evaluating" /\ p \in met[q]
  <2>1. pc[q] = "evaluating"
    BY <1>1, <1>6 DEF LatchInv, CoreInv, StepsHold
  <2>2. Seen(q, p)
    BY <1>6, <2>1 DEF LatchInv, MetHolds
  <2> QED BY <1>2, <1>3, <1>6, <2>1, <2>2
<1>7. CASE pc'[q] = "evaluating" /\ p \in Requests /\ pc'[p] = "held"
  BY <1>4, <1>7 DEF HoldersSeen
<1>8. CASE pc'[q] = "evaluating" /\ p \in Holding \ {q} /\ pc'[p] # "held"
  <2>1. p = r /\ p \in Requests /\ pc[p] = "held"
    BY <1>1, <1>8 DEF Holding
  <2>2. pc'[p] \in {"removing", "released"} /\ pc[q] = "evaluating" /\ q # r
    BY <1>1, <1>8, <2>1
  <2>3. Seen(q, p)
    BY <1>4, <2>1, <2>2 DEF HoldersSeen
  <2> QED BY <1>3, <2>1, <2>2, <2>3
<1>9. ASSUME pc'[q] = "evaluating"
      PROVE  p \in met[q] \/ p \in Holding \ {q} \/ (p = r /\ l = "held")
  <2>1. met'[q] = met[q] \union (Holding \ {q}) \union {x \in {r} \ {q} : l = "held"}
    BY <1>1, <1>9
  <2>2. p \in met[q] \union (Holding \ {q}) \union {x \in {r} \ {q} : l = "held"}
    BY <2>1
  <2> QED BY <2>2
<1> QED BY <1>1, <1>5, <1>6, <1>7, <1>8, <1>9 DEF Holding

LEMMA GotoSawAll ==
  ASSUME LatchInv, NEW r \in Requests, NEW l, Goto(r, l), UNCHANGED load,
         l # "evaluating" \/ pc[r] = "idle",
         pc[r] \in {"held", "removing", "released"} => l \in {"removing", "released"},
         \/ validated' = validated
         \/ /\ pc[r] = "evaluating" /\ l = "held" /\ NoConflicts(r)
            /\ validated' = validated \union {r}
  PROVE  OptimisticSawAll'
<1>1. /\ pc'[r] = l /\ \A q \in Requests : q # r => pc'[q] = pc[q]
      /\ \A q \in Requests : pc'[q] # "evaluating" => met'[q] = met[q]
  BY DEF Goto, LatchInv, CoreInv, Types
<1>2. \A q \in Requests : \A p \in met[q] : p \in validated' <=> p \in validated
  BY DEF LatchInv, MetHolds
<1> SUFFICES ASSUME NEW q \in validated', NEW p \in met'[q],
                    NEW s \in Touches(q)', NEW t \in Touches(p)', Conflict(s, t)
             PROVE  FALSE
  BY DEF OptimisticSawAll, Conflicting
<1>3. q \in Requests
  BY DEF LatchInv, CoreInv, Types
<1>4. CASE q \in validated
  <2>1. pc[q] \in {"held", "removing", "released"}
    BY <1>3, <1>4 DEF LatchInv, CoreInv, StepsHold
  <2>2. pc'[q] # "evaluating"
    BY <1>1, <1>3, <2>1
  <2>3. p \in met[q]
    BY <1>1, <1>3, <2>2
  <2>4. s \in Touches(q) /\ t \in Touches(p)
    BY <1>2, <1>3, <1>4, <2>3 DEF Touches, Spans, SpansRead
  <2> QED BY <1>4, <2>3, <2>4 DEF LatchInv, OptimisticSawAll, Conflicting
<1>5. CASE q \notin validated
  <2>1. q = r /\ pc[r] = "evaluating" /\ l = "held" /\ NoConflicts(r)
    BY <1>5
  <2>2. p \in met[r]
    BY <1>1, <2>1
  <2>3. p \in Requests /\ Seen(r, p)
    BY <2>1, <2>2 DEF LatchInv, MetHolds
  <2>4. s \in SpansRead[r] /\ t \in Touches(p)
    BY <1>2, <2>1, <2>2 DEF Touches, Spans, SpansRead
  <2>5. PICK u \in Spans[p] : Covers(u, t) /\ <<p, u>> \in snap[r]
    BY <2>3, <2>4 DEF Seen
  <2>6. PICK v \in Spans[r] : Covers(v, s)
    BY <2>4, SpansOfLoad DEF LatchInv, CoreInv
  <2>7. s.access \in {"read", "write"} /\ u.access \in {"read", "write"}
    BY <2>3, <2>5, <2>6, SpansOfLoad DEF LatchInv, CoreInv, Covers
  <2>8. Conflict(s, u)
    BY <2>5, <2>6, ConflictCovers
  <2>9. WaitsFor(s, u)
    BY <2>7, <2>8, ConflictWaits
  <2> QED BY <2>1, <2>4, <2>5, <2>9 DEF NoConflicts
<1> QED BY <1>4, <1>5

(* Steps that leave everybody where they are. *)
LEMMA QuietStep ==
  ASSUME LatchInv, UNCHANGED <<load, trees, snap, pc, done, validated, earlier, met>>,
         waitingOn' = [r \in Requests |-> waitingOn'[r]],
         \A r \in Requests : waitingOn'[r] # {} => pc[r] = "waiting"
  PROVE  LatchInv'
<1>0. UNCHANGED <<load, readSet, readTree, writeTree, snap, pc, done, validated, earlier, met>>
  BY DEF trees
<1>1. Types'
  BY <1>0 DEF LatchInv, CoreInv, Types
<1>2. TreesHold'
  BY <1>0 DEF LatchInv, CoreInv, TreesHold, Present, Latches, Ended, Kind, Spans
<1>3. SnapshotsHold'
  BY <1>0 DEF LatchInv, CoreInv, SnapshotsHold, Present, Ended, Kind, Spans
<1>4. StepsHold'
  BY <1>0 DEF LatchInv, CoreInv, StepsHold, Kind, NoConflicts, ToWaitFor, Spans, SpansRead
<1>5. MetHolds' /\ OptimisticSawAll'
  BY <1>0 DEF LatchInv, MetHolds, OptimisticSawAll, Seen, Conflicting, Touches, Spans, SpansRead
<1> QED BY <1>1, <1>2, <1>3, <1>4, <1>5 DEF LatchInv, CoreInv

(* Steps of one request while its latches stay where they are. *)
LEMMA MoveStep ==
  ASSUME LatchInv, NEW r \in Requests,
         NEW l \in {"waiting", "held", "failing", "removing", "returned", "failed"},
         Goto(r, l), UNCHANGED <<load, trees, snap, earlier>>,
         pc[r] \in {"evaluating", "waiting", "held", "failing"},
         pc[r] = "held" => l = "removing",
         l \in {"returned", "failed"} => Kind[r] = "WaitFor",
         l \in {"held", "failing", "removing"} => Kind[r] # "WaitFor",
         waitingOn' = [waitingOn EXCEPT ![r] = {}],
         done' = done \/ (l = "removing" /\ done' = done \union {r}),
         \/ validated' = validated
         \/ /\ pc[r] = "evaluating" /\ l = "held" /\ NoConflicts(r)
            /\ validated' = validated \union {r},
         l \in {"held", "returned"} => r \in validated' \/ ToWaitFor(r) = {}
  PROVE  LatchInv'
<1>0. /\ UNCHANGED <<load, readSet, readTree, writeTree, snap, earlier>>
      /\ pc' = [pc EXCEPT ![r] = l]
  BY DEF trees, Goto
<1>1. Types'
  BY <1>0 DEF LatchInv, CoreInv, Types, Goto
<1>2. Present' = Present
  BY <1>0 DEF LatchInv, CoreInv, Types, StepsHold, Present, Ended, Kind
<1>3. TreesHold'
  BY <1>0, <1>2 DEF LatchInv, CoreInv, TreesHold, Latches, Spans
<1>4. SnapshotsHold'
  BY <1>0, <1>2 DEF LatchInv, CoreInv, Types, SnapshotsHold, Spans
<1>5. StepsHold'
  <2> SUFFICES ASSUME NEW q \in Requests
               PROVE  /\ pc'[q] = "idle" => met'[q] = {}
                      /\ waitingOn'[q] # {} => pc'[q] = "waiting"
                      /\ pc'[q] \in {"evaluating", "held", "failing", "removing", "released"}
                           => Kind'[q] # "WaitFor"
                      /\ pc'[q] \in {"returned", "failed"} => Kind'[q] = "WaitFor"
                      /\ q \in done' => pc'[q] \in {"removing", "released"}
                      /\ q \in validated' =>
                           pc'[q] \in {"held", "removing", "released"} /\ NoConflicts(q)'
                      /\ pc'[q] \in {"held", "returned"} /\ q \notin validated'
                           => ToWaitFor(q)' = {}
    BY DEF StepsHold
  <2>1. /\ NoConflicts(q)' <=> NoConflicts(q)
        /\ ToWaitFor(q) = {} => ToWaitFor(q)' = {}
        /\ Kind' = Kind
    <3>1. done \subseteq done'
      OBVIOUS
    <3> QED BY <1>0, <3>1 DEF NoConflicts, ToWaitFor, Kind, Spans, SpansRead
  <2>2. CASE q = r
    BY <1>0, <2>1, <2>2 DEF LatchInv, CoreInv, Types, StepsHold
  <2>3. CASE q # r
    <3>1. pc'[q] = pc[q] /\ waitingOn'[q] = waitingOn[q]
      BY <1>0, <2>3 DEF LatchInv, CoreInv, Types
    <3>2. pc'[q] = "idle" => met'[q] = met[q]
      BY <1>0 DEF Goto
    <3> QED BY <2>1, <2>3, <3>1, <3>2 DEF LatchInv, CoreInv, StepsHold
  <2> QED BY <2>2, <2>3
<1>6. CoreInv'
  BY <1>1, <1>3, <1>4, <1>5 DEF CoreInv
<1>7. MetHolds'
  BY <1>0, <1>6, GotoMet
<1>8. OptimisticSawAll'
  BY GotoSawAll
<1> QED BY <1>6, <1>7, <1>8 DEF LatchInv

LEMMA InitLatchInv == Init => LatchInv
<1> SUFFICES ASSUME Init PROVE LatchInv
  OBVIOUS
<1>1. Present = {}
  BY DEF Init, Present
<1>2. Types
  BY DEF Init, Types
<1>3. TreesHold
  BY <1>1 DEF Init, TreesHold
<1>4. SnapshotsHold
  BY <1>1 DEF Init, SnapshotsHold
<1>5. StepsHold
  BY DEF Init, StepsHold
<1>6. MetHolds /\ OptimisticSawAll
  BY DEF Init, MetHolds, OptimisticSawAll
<1> QED BY <1>2, <1>3, <1>4, <1>5, <1>6 DEF LatchInv, CoreInv

(* One request waits: it does not move before it has seen them all. *)
LEMMA StartWaitStep ==
  ASSUME LatchInv, UNCHANGED load, NEW r \in Requests, StartWait(r)
  PROVE  LatchInv'
<1>1. PICK h : waitingOn' = [waitingOn EXCEPT ![r] = {h}]
  BY DEF StartWait
<1>2. waitingOn = [q \in Requests |-> waitingOn[q]] /\ pc[r] = "waiting"
  BY DEF StartWait, LatchInv, CoreInv, Types
<1>3. waitingOn' = [q \in Requests |-> waitingOn'[q]]
  BY <1>1, <1>2
<1>4. \A q \in Requests : waitingOn'[q] # {} => pc[q] = "waiting"
  BY <1>1, <1>2 DEF LatchInv, CoreInv, StepsHold
<1> QED BY <1>3, <1>4, QuietStep DEF StartWait, signals

LEMMA WokenStep ==
  ASSUME LatchInv, UNCHANGED load, NEW r \in Requests, Woken(r)
  PROVE  LatchInv'
<1>1. waitingOn' = [waitingOn EXCEPT ![r] = {}]
  BY DEF Woken
<1>2. waitingOn = [q \in Requests |-> waitingOn[q]]
  BY DEF LatchInv, CoreInv, Types
<1>3. waitingOn' = [q \in Requests |-> waitingOn'[q]]
  BY <1>1, <1>2
<1>4. \A q \in Requests : waitingOn'[q] # {} => pc[q] = "waiting"
  BY <1>1, <1>2 DEF LatchInv, CoreInv, StepsHold
<1> QED BY <1>3, <1>4, QuietStep DEF Woken, signals

LEMMA WaitingStays ==
  ASSUME LatchInv, UNCHANGED waitingOn
  PROVE  /\ waitingOn' = [q \in Requests |-> waitingOn'[q]]
         /\ \A q \in Requests : waitingOn'[q] # {} => pc[q] = "waiting"
         /\ \A r \in Requests : waitingOn[r] = {} => waitingOn' = [waitingOn EXCEPT ![r] = {}]
BY DEF LatchInv, CoreInv, Types, StepsHold

LEMMA PoisonStep ==
  ASSUME LatchInv, UNCHANGED load, NEW r \in Requests, Poison(r)
  PROVE  LatchInv'
BY WaitingStays, QuietStep DEF Poison

(* A wait that fails, for a poisoned latch or because it is canceled. *)
LEMMA WaitFailsStep ==
  ASSUME LatchInv, UNCHANGED load, NEW r \in Requests, WaitFails(r), waitingOn[r] # {},
         UNCHANGED <<trees, snap, done, validated, earlier>>
  PROVE  LatchInv'
<1>1. pc[r] = "waiting"
  BY DEF LatchInv, CoreInv, StepsHold
<1>2. CASE Kind[r] = "WaitFor"
  BY <1>1, <1>2, MoveStep DEF WaitFails
<1>3. CASE Kind[r] # "WaitFor"
  BY <1>1, <1>3, MoveStep DEF WaitFails
<1> QED BY <1>2, <1>3

LEMMA SeesPoisonStep ==
  ASSUME LatchInv, UNCHANGED load, NEW r \in Requests, SeesPoison(r)
  PROVE  LatchInv'
<1>1. CASE WaitFails(r)
  BY <1>1, WaitFailsStep DEF SeesPoison
<1>2. CASE UNCHANGED <<waitingOn, pc, met>>
  BY <1>2, WaitingStays, QuietStep DEF SeesPoison
<1> QED BY <1>1, <1>2 DEF SeesPoison

LEMMA CanceledStep ==
  ASSUME LatchInv, UNCHANGED load, NEW r \in Requests, Canceled(r)
  PROVE  LatchInv'
BY WaitFailsStep DEF Canceled, signals

LEMMA AcquiredStep ==
  ASSUME LatchInv, UNCHANGED load, NEW r \in Requests, Acquired(r)
  PROVE  LatchInv'
<1>1. waitingOn' = [waitingOn EXCEPT ![r] = {}]
  BY WaitingStays DEF Acquired
<1>2. CASE Kind[r] = "WaitFor"
  BY <1>1, <1>2, MoveStep DEF Acquired, signals
<1>3. CASE Kind[r] # "WaitFor"
  BY <1>1, <1>3, MoveStep DEF Acquired, signals
<1> QED BY <1>2, <1>3

LEMMA CheckStep ==
  ASSUME LatchInv, UNCHANGED load, NEW r \in Requests, CheckOptimisticNoConflicts(r)
  PROVE  LatchInv'
<1>1. pc[r] = "evaluating" /\ waitingOn[r] = {} /\ Kind[r] # "WaitFor"
  BY DEF CheckOptimisticNoConflicts, LatchInv, CoreInv, StepsHold
<1>2. waitingOn' = [waitingOn EXCEPT ![r] = {}]
  BY <1>1, WaitingStays DEF CheckOptimisticNoConflicts
<1>3. CASE NoConflicts(r) /\ Goto(r, "held") /\ validated' = validated \union {r}
  BY <1>1, <1>2, <1>3, MoveStep DEF CheckOptimisticNoConflicts, signals
<1>4. CASE Goto(r, "waiting") /\ UNCHANGED validated
  BY <1>1, <1>2, <1>4, MoveStep DEF CheckOptimisticNoConflicts, signals
<1>5. CASE Goto(r, "failing") /\ UNCHANGED validated
  BY <1>1, <1>2, <1>5, MoveStep DEF CheckOptimisticNoConflicts, signals
<1> QED BY <1>3, <1>4, <1>5 DEF CheckOptimisticNoConflicts

LEMMA SignalDoneStep ==
  ASSUME LatchInv, UNCHANGED load, NEW r \in Requests, SignalDone(r)
  PROVE  LatchInv'
<1>1. pc[r] \in {"held", "failing"} /\ waitingOn[r] = {} /\ Kind[r] # "WaitFor"
  BY DEF SignalDone, LatchInv, CoreInv, StepsHold
<1>2. waitingOn' = [waitingOn EXCEPT ![r] = {}]
  BY <1>1, WaitingStays DEF SignalDone
<1> QED BY <1>1, <1>2, MoveStep DEF SignalDone

(* The latches of a request that is present are in the trees. *)
LEMMA PresentInTrees ==
  ASSUME CoreInv
  PROVE  /\ \A q \in Present : \A t \in Spans[q] :
              /\ <<q, t>> \in readSet \union readTree \union writeTree
              /\ t.access = "write" => <<q, t>> \in writeTree
         /\ \A h \in readSet \union readTree \union writeTree : h[1] \in Present
<1>1. ASSUME NEW q \in Present, NEW t \in Spans[q]
      PROVE  /\ <<q, t>> \in readSet \union readTree \union writeTree
             /\ t.access = "write" => <<q, t>> \in writeTree
  <2>1. t.access \in {"read", "write"}
    BY SpansOfLoad DEF CoreInv, Present
  <2>2. <<q, t>> \in Latches(q, t.access)
    BY DEF Latches
  <2> QED BY <2>1, <2>2 DEF CoreInv, TreesHold
<1>2. ASSUME NEW h \in readSet \union readTree \union writeTree PROVE h[1] \in Present
  <2>1. PICK q \in Present : h \in Latches(q, "read") \/ h \in Latches(q, "write")
    BY <1>2 DEF CoreInv, TreesHold
  <2> QED BY <2>1 DEF Latches
<1> QED BY <1>1, <1>2

(* Sequencing: the trees, and what the snapshots see of them. *)
LEMMA SequenceStep ==
  ASSUME LatchInv, UNCHANGED load, NEW r \in Requests, sequence(r)
  PROVE  LatchInv'
<1> DEFINE l == IF Kind[r] = "Optimistic" THEN "evaluating" ELSE "waiting"
<1> DEFINE in(access) == IF Kind[r] = "WaitFor" THEN {} ELSE Latches(r, access)
<1> DEFINE all == readSet \union readTree \union writeTree
<1>1. /\ pc[r] = "idle" /\ Goto(r, l) /\ pc' = [pc EXCEPT ![r] = l]
      /\ l \in {"evaluating", "waiting"} /\ (l = "evaluating" => Kind[r] # "WaitFor")
      /\ UNCHANGED <<waitingOn, done, validated>>
  BY DEF sequence, Goto, signals
<1>2. /\ readTree' = IF Latches(r, "write") # {} THEN readTree \union readSet ELSE readTree
      /\ readSet' = (readSet \ readTree') \union in("read")
      /\ writeTree' = writeTree \union in("write")
  BY DEF sequence, snapshotLocked, insertLocked
<1>3. /\ snap' = [snap EXCEPT ![r] = IF Latches(r, "write") # {} THEN all ELSE writeTree]
      /\ earlier' = [earlier EXCEPT ![r] = {h[1] : h \in all}]
  BY DEF sequence, snapshotLocked
<1> HIDE DEF l
<1>4. Present \subseteq Requests /\ r \notin Present
  BY <1>1 DEF Present
<1>5. Types'
  <2>1. {h[1] : h \in all} \subseteq Requests
    BY <1>4, PresentInTrees DEF LatchInv
  <2> QED BY <1>1, <1>3, <2>1 DEF LatchInv, CoreInv, Types, Goto
<1>6. Present' = IF Kind[r] = "WaitFor" THEN Present ELSE Present \union {r}
  BY <1>1 DEF LatchInv, CoreInv, Types, Present, Ended, Kind
<1>7. TreesHold'
  <2>1. \A q, k : Latches(q, k)' = Latches(q, k)
    BY DEF Latches, Spans
  <2>2. \A h \in in("read") : h \notin readSet \union readTree
    <3>1. \A h \in in("read") : h[1] = r
      BY DEF Latches
    <3> QED BY <1>4, <3>1, PresentInTrees DEF LatchInv
  <2>3. readSet' \intersect readTree' = {}
    BY <1>2, <2>2
  <2>4. /\ readSet' \union readTree' = (readSet \union readTree) \union in("read")
        /\ writeTree' = writeTree \union in("write")
    BY <1>2
  <2> HIDE DEF in
  <2>5. ASSUME NEW k, NEW S, S = UNION {Latches(q, k) : q \in Present}
        PROVE  S \union in(k) = UNION {Latches(q, k)' : q \in Present'}
    BY <1>6, <2>1, <2>5 DEF in
  <2> QED BY <2>3, <2>4, <2>5 DEF LatchInv, CoreInv, TreesHold
<1>8. SnapshotsHold'
  <2>0. Spans' = Spans
    BY DEF Spans
  <2>1. ASSUME NEW q \in Present, NEW s \in Spans[r], NEW t \in Spans[q], OneWrites(s, t)
        PROVE  <<q, t>> \in snap'[r]
    <3>1. CASE Latches(r, "write") # {}
      <4>1. snap'[r] = all
        BY <1>3, <3>1 DEF LatchInv, CoreInv, Types
      <4> QED BY <4>1, PresentInTrees DEF LatchInv
    <3>2. CASE Latches(r, "write") = {}
      <4>1. snap'[r] = writeTree
        BY <1>3, <3>2 DEF LatchInv, CoreInv, Types
      <4>2. s.access # "write"
        BY <3>2 DEF Latches
      <4>3. t.access = "write"
        BY <2>1, <4>2 DEF OneWrites
      <4> QED BY <4>1, <4>3, PresentInTrees DEF LatchInv
    <3> QED BY <3>1, <3>2
  <2>2. \A q \in Requests \ {r} :
          pc'[q] = pc[q] /\ snap'[q] = snap[q] /\ earlier'[q] = earlier[q]
    BY <1>1, <1>3 DEF LatchInv, CoreInv, Types
  <2>3. earlier'[r] \subseteq Present
    <3>1. earlier'[r] = {h[1] : h \in all}
      BY <1>3 DEF LatchInv, CoreInv, Types
    <3> QED BY <3>1, PresentInTrees DEF LatchInv
  <2>4. ASSUME NEW p \in Requests, pc'[p] # "idle", NEW q \in earlier'[p],
               NEW s \in Spans[p], NEW t \in Spans[q], OneWrites(s, t)
        PROVE  <<q, t>> \in snap'[p]
    <3>1. CASE p = r
      BY <2>1, <2>3, <2>4, <3>1
    <3>2. CASE p # r
      BY <2>2, <2>4, <3>2 DEF LatchInv, CoreInv, SnapshotsHold
    <3> QED BY <3>1, <3>2
  <2>5. ASSUME NEW p \in Present', NEW q \in Present', p # q,
               NEW s \in Spans[p], NEW t \in Spans[q], OneWrites(s, t)
        PROVE  <<q, t>> \in snap'[p] \/ <<p, s>> \in snap'[q]
    <3>1. CASE p = r
      BY <1>6, <2>1, <2>5, <3>1
    <3>2. CASE q = r
      <4>1. OneWrites(t, s)
        BY <2>5 DEF OneWrites
      <4> QED BY <1>6, <2>1, <2>5, <3>2, <4>1
    <3>3. CASE p # r /\ q # r
      <4>1. p \in Present /\ q \in Present
        BY <1>6, <3>3
      <4> QED BY <1>4, <2>2, <2>5, <3>3, <4>1 DEF LatchInv, CoreInv, SnapshotsHold
    <3> QED BY <3>1, <3>2, <3>3
  <2> QED BY <2>0, <2>4, <2>5 DEF SnapshotsHold
<1>9. StepsHold'
  <2> SUFFICES ASSUME NEW q \in Requests
               PROVE  /\ pc'[q] = "idle" => met'[q] = {}
                      /\ waitingOn'[q] # {} => pc'[q] = "waiting"
                      /\ pc'[q] \in {"evaluating", "held", "failing", "removing", "released"}
                           => Kind'[q] # "WaitFor"
                      /\ pc'[q] \in {"returned", "failed"} => Kind'[q] = "WaitFor"
                      /\ q \in done' => pc'[q] \in {"removing", "released"}
                      /\ q \in validated' =>
                           pc'[q] \in {"held", "removing", "released"} /\ NoConflicts(q)'
                      /\ pc'[q] \in {"held", "returned"} /\ q \notin validated'
                           => ToWaitFor(q)' = {}
    BY DEF StepsHold
  <2>0. Kind' = Kind
    BY DEF Kind
  <2>1. CASE q = r
    <3>1. pc'[r] = l
      BY <1>1 DEF LatchInv, CoreInv, Types
    <3> QED BY <1>1, <2>0, <2>1, <3>1 DEF LatchInv, CoreInv, StepsHold
  <2>2. CASE q # r
    <3>1. pc'[q] = pc[q] /\ waitingOn'[q] = waitingOn[q] /\ snap'[q] = snap[q]
      BY <1>1, <1>3, <2>2 DEF LatchInv, CoreInv, Types
    <3>2. pc'[q] = "idle" => met'[q] = met[q]
      BY <1>1 DEF Goto
    <3>3. (NoConflicts(q)' <=> NoConflicts(q)) /\ ToWaitFor(q)' = ToWaitFor(q)
      BY <1>1, <3>1 DEF NoConflicts, ToWaitFor, Spans, SpansRead
    <3> QED BY <1>1, <2>0, <3>1, <3>2, <3>3 DEF LatchInv, CoreInv, StepsHold
  <2> QED BY <2>1, <2>2
<1>10. CoreInv'
  BY <1>5, <1>7, <1>8, <1>9 DEF CoreInv
<1>11. MetHolds'
  <2>1. \A q \in Requests : q # r => snap'[q] = snap[q]
    BY <1>3 DEF LatchInv, CoreInv, Types
  <2> QED BY <1>1, <1>10, <2>1, GotoMet
<1>12. OptimisticSawAll'
  BY <1>1, GotoSawAll
<1> QED BY <1>10, <1>11, <1>12 DEF LatchInv

(* The mutex is taken again, and the latches leave the trees. *)
LEMMA RemoveStep ==
  ASSUME LatchInv, UNCHANGED load, NEW r \in Requests, remove(r)
  PROVE  LatchInv'
<1>1. /\ pc[r] = "removing" /\ Goto(r, "released") /\ pc' = [pc EXCEPT ![r] = "released"]
      /\ UNCHANGED <<snap, waitingOn, done, validated, earlier>>
  BY DEF remove, Goto, signals
<1>2. Types'
  BY <1>1 DEF LatchInv, CoreInv, Types, Goto
<1>3. Present' = Present \ {r} /\ r \in Present
  BY <1>1 DEF LatchInv, CoreInv, Types, StepsHold, Present, Ended, Kind
<1>4. TreesHold'
  <2>1. \A q, k : Latches(q, k)' = Latches(q, k)
    BY DEF Latches, Spans
  <2>2. \A q, k : \A h \in Latches(q, k) : h[1] = q
    BY DEF Latches
  <2>3. ASSUME NEW k, NEW S, S = UNION {Latches(q, k) : q \in Present}
        PROVE  S \ Latches(r, k) = UNION {Latches(q, k)' : q \in Present'}
    BY <1>3, <2>1, <2>2, <2>3
  <2>4. /\ readSet' \union readTree' = (readSet \union readTree) \ Latches(r, "read")
        /\ readSet' \intersect readTree' = {}
        /\ writeTree' = writeTree \ Latches(r, "write")
    BY DEF remove, Removed, LatchInv, CoreInv, TreesHold
  <2> QED BY <2>3, <2>4 DEF LatchInv, CoreInv, TreesHold
<1>5. SnapshotsHold'
  BY <1>1, <1>3 DEF LatchInv, CoreInv, Types, SnapshotsHold, Spans
<1>6. StepsHold'
  <2>1. Kind' = Kind
    BY DEF Kind
  <2>2. \A q \in Requests : (NoConflicts(q)' <=> NoConflicts(q)) /\ ToWaitFor(q)' = ToWaitFor(q)
    BY <1>1 DEF NoConflicts, ToWaitFor, Spans, SpansRead
  <2>3. \A q \in Requests : pc'[q] = "idle" => met'[q] = met[q]
    BY <1>1 DEF Goto
  <2>4. /\ pc'[r] = "released" /\ waitingOn[r] = {}
        /\ \A q \in Requests : q # r => pc'[q] = pc[q]
    BY <1>1 DEF LatchInv, CoreInv, Types, StepsHold
  <2> QED BY <1>1, <2>1, <2>2, <2>3, <2>4 DEF LatchInv, CoreInv, StepsHold
<1>7. CoreInv'
  BY <1>2, <1>4, <1>5, <1>6 DEF CoreInv
<1>8. MetHolds'
  BY <1>1, <1>7, GotoMet
<1>9. OptimisticSawAll'
  BY <1>1, GotoSawAll
<1> QED BY <1>7, <1>8, <1>9 DEF LatchInv

LEMMA NextLatchInv == LatchInv /\ [Next]_vars => LatchInv'
<1> SUFFICES ASSUME LatchInv, [Next]_vars PROVE LatchInv'
  OBVIOUS
<1>1. CASE UNCHANGED vars
  BY <1>1, WaitingStays, QuietStep DEF vars, signals
<1>2. ASSUME NEW r \in Requests, UNCHANGED load,
             sequence(r) \/ Waits(r) \/ Canceled(r) \/ CheckOptimisticNoConflicts(r)
               \/ Poison(r) \/ Releases(r)
      PROVE  LatchInv'
  BY <1>2, SequenceStep, StartWaitStep, WokenStep, SeesPoisonStep, AcquiredStep, CanceledStep,
     CheckStep, PoisonStep, SignalDoneStep, RemoveStep DEF Waits, Releases
<1> QED BY <1>1, <1>2 DEF Next

LEMMA InvNoLeakedLatches == CoreInv => NoLeakedLatches
<1>1. ASSUME CoreInv
      PROVE  readSet \union readTree \union writeTree =
               UNION {Latches(q, "read") \union Latches(q, "write") : q \in Present}
  BY <1>1 DEF CoreInv, TreesHold
<1> QED BY <1>1 DEF NoLeakedLatches, Present

-----------------------------------------------------------------------------

(* Whatever is declared, no two requests that conflict hold their latches  *)
(* at once, and WaitFor returns after all that conflict with it and came   *)
(* before (manager.go: snapshotLocked, insertLocked, wait, Release).       *)
THEOREM LatchesIsolate == Spec => []Isolation
<1>1. Spec => []LatchInv
  BY InitLatchInv, NextLatchInv, PTL DEF Spec
<1>2. LatchInv => Isolation
  BY InvIsolation DEF LatchInv
<1> QED BY <1>1, <1>2, PTL

(* An optimistic evaluation that CheckOptimisticNoConflicts lets through   *)
(* has overlapped with nobody that conflicts with what it read.            *)
THEOREM OptimisticIsIsolated == Spec => []OptimisticSawAll
<1>1. Spec => []LatchInv
  BY InitLatchInv, NextLatchInv, PTL DEF Spec
<1>2. LatchInv => OptimisticSawAll
  BY DEF LatchInv
<1> QED BY <1>1, <1>2, PTL

(* The trees hold the latches of those that are sequenced and not yet      *)
(* removed, whichever of the read set and the read tree a read is in.      *)
THEOREM LatchesAreNotLeaked == Spec => []NoLeakedLatches
<1>1. Spec => []LatchInv
  BY InitLatchInv, NextLatchInv, PTL DEF Spec
<1>2. LatchInv => NoLeakedLatches
  BY InvNoLeakedLatches DEF LatchInv
<1> QED BY <1>1, <1>2, PTL

-----------------------------------------------------------------------------
(* The signal, spanlatch/signal.go. *)

Callers == Signalers \union Waiters

(* Who must still close the channel. *)
Closers ==
  /\ \A p \in Callers : at[p] \in {"swap", "close"} => c # NoChan
  /\ \A p \in Callers : at[p] = "close" => a = "sigClosed" /\ c \notin closed
  /\ \A p, q \in Callers : at[p] = "close" /\ at[q] = "close" => p = q
  /\ a # "sigClosed" => c \notin closed

(* What the callers have seen. *)
CallersSaw ==
  /\ ClosedC \in closed /\ NoChan \notin closed
  /\ a # "noSig" => \E s \in Signalers : at[s] # "start"
  /\ \A w \in Waiters :
       /\ chan[w] \in {NoChan, c, ClosedC}
       /\ chan[w] = ClosedC => a # "noSig"
       /\ at[w] \in {"start", "lookup", "make"} => chan[w] = NoChan

SignalInv == SignalTypeOK /\ NoPanic /\ Closers /\ CallersSaw

-----------------------------------------------------------------------------
LEMMA SignalInitInv == SignalInit => SignalInv
BY NamesAssumption
DEF SignalInit, SignalInv, SignalTypeOK, NoPanic, Closers, CallersSaw, Callers

LEMMA SwapToSigInv ==
  ASSUME SignalInv, NEW s \in Signalers, SwapToSig(s)
  PROVE  SignalInv'
<1> USE DEF SignalInv, SignalTypeOK, NoPanic, Closers, CallersSaw, Callers, SwapToSig, GoTo
<1>1. NoPanic'
  BY SignalersAssumption
<1>2. SignalTypeOK'
  OBVIOUS
<1>3. Closers'
  BY NamesAssumption
<1>4. CallersSaw'
  BY NamesAssumption
<1> QED BY <1>1, <1>2, <1>3, <1>4

LEMMA LoadChanInv ==
  ASSUME SignalInv, NEW s \in Signalers, LoadChan(s)
  PROVE  SignalInv'
<1> USE DEF SignalInv, SignalTypeOK, NoPanic, Closers, CallersSaw, Callers, LoadChan, GoTo
<1>1. SignalTypeOK' /\ NoPanic'
  OBVIOUS
<1>2. Closers'
  OBVIOUS
<1>3. CallersSaw'
  BY NamesAssumption
<1> QED BY <1>1, <1>2, <1>3

LEMMA SwapToClosedInv ==
  ASSUME SignalInv, NEW p \in Callers, SwapToClosed(p)
  PROVE  SignalInv'
<1> USE DEF SignalInv, SignalTypeOK, NoPanic, Closers, CallersSaw, Callers, SwapToClosed, GoTo
<1>1. SignalTypeOK' /\ NoPanic'
  OBVIOUS
<1>2. Closers'
  OBVIOUS
<1>3. CallersSaw'
  BY NamesAssumption
<1> QED BY <1>1, <1>2, <1>3

LEMMA CloseChanInv ==
  ASSUME SignalInv, NEW p \in Callers, CloseChan(p)
  PROVE  SignalInv'
<1> USE DEF SignalInv, SignalTypeOK, NoPanic, Closers, CallersSaw, Callers, CloseChan, Close, GoTo
<1>1. SignalTypeOK' /\ NoPanic'
  OBVIOUS
<1>2. Closers'
  OBVIOUS
<1>3. CallersSaw'
  BY NamesAssumption
<1> QED BY <1>1, <1>2, <1>3

LEMMA CheckSignaledInv ==
  ASSUME SignalInv, NEW w \in Waiters, CheckSignaled(w)
  PROVE  SignalInv'
<1> USE DEF SignalInv, SignalTypeOK, NoPanic, Closers, CallersSaw, Callers, CheckSignaled, GoTo
<1>1. SignalTypeOK' /\ NoPanic'
  OBVIOUS
<1>2. Closers'
  OBVIOUS
<1>3. CallersSaw'
  BY NamesAssumption
<1> QED BY <1>1, <1>2, <1>3

LEMMA LookUpChanInv ==
  ASSUME SignalInv, NEW w \in Waiters, LookUpChan(w)
  PROVE  SignalInv'
<1> USE DEF SignalInv, SignalTypeOK, NoPanic, Closers, CallersSaw, Callers, LookUpChan, GoTo
<1>1. SignalTypeOK' /\ NoPanic'
  OBVIOUS
<1>2. Closers'
  OBVIOUS
<1>3. CallersSaw'
  BY NamesAssumption
<1> QED BY <1>1, <1>2, <1>3

LEMMA MakeChanInv ==
  ASSUME SignalInv, NEW w \in Waiters, MakeChan(w)
  PROVE  SignalInv'
<1> USE DEF SignalInv, SignalTypeOK, NoPanic, Closers, CallersSaw, Callers, MakeChan, GoTo
<1>1. SignalTypeOK' /\ NoPanic'
  BY NamesAssumption
<1>2. Closers'
  BY NamesAssumption
<1>3. CallersSaw'
  BY NamesAssumption
<1> QED BY <1>1, <1>2, <1>3

(* The inductive invariant. *)
THEOREM SignalInvariance == SignalSpec => []SignalInv
<1>1. SignalInv /\ [SignalNext]_signalVars => SignalInv'
  <2> SUFFICES ASSUME SignalInv, [SignalNext]_signalVars PROVE SignalInv'
    OBVIOUS
  <2>1. CASE \E p \in Callers : Step(p)
    BY <2>1, SwapToSigInv, LoadChanInv, SwapToClosedInv, CloseChanInv, CheckSignaledInv,
       LookUpChanInv, MakeChanInv DEF Step, Callers
  <2>2. CASE UNCHANGED signalVars
    BY <2>2 DEF signalVars, SignalInv, SignalTypeOK, NoPanic, Closers, CallersSaw
  <2> QED BY <2>1, <2>2 DEF SignalNext, Callers
<1> QED BY SignalInitInv, <1>1, PTL DEF SignalSpec

(* No call panics: nothing is signaled twice, no channel is closed twice.  *)
THEOREM SignalNeverPanics == SignalSpec => []NoPanic
<1>1. SignalInv => NoPanic
  BY DEF SignalInv
<1> QED BY <1>1, SignalInvariance, PTL

-----------------------------------------------------------------------------
(* Whoever is awake stays awake, and nobody wakes before the signal. *)
LEMMA AwakeGrows ==
  ASSUME SignalInv, [SignalNext]_signalVars
  PROVE  /\ Awake \subseteq Awake'
         /\ Awake' # Awake => a # "noSig" /\ a' # "noSig"
<1> USE DEF SignalInv, SignalTypeOK, Closers, CallersSaw, Awake, GoTo
<1>1. CASE \E s \in Signalers : SwapToSig(s) \/ LoadChan(s)
  BY <1>1, NamesAssumption DEF SwapToSig, LoadChan
<1>2. CASE \E p \in Callers : SwapToClosed(p)
  BY <1>2, NamesAssumption DEF SwapToClosed, Callers
<1>3. CASE \E p \in Callers : CloseChan(p)
  BY <1>3, NamesAssumption DEF CloseChan, Close, Callers
<1>4. CASE \E w \in Waiters : CheckSignaled(w)
  BY <1>4, NamesAssumption DEF CheckSignaled
<1>5. CASE \E w \in Waiters : LookUpChan(w)
  BY <1>5, NamesAssumption DEF LookUpChan
<1>6. CASE \E w \in Waiters : MakeChan(w)
  BY <1>6, NamesAssumption DEF MakeChan
<1>7. CASE UNCHANGED signalVars
  BY <1>7 DEF signalVars
<1> QED BY <1>1, <1>2, <1>3, <1>4, <1>5, <1>6, <1>7 DEF SignalNext, Step, Callers

LEMMA GivenStays ==
  ASSUME SignalInv, [SignalNext]_signalVars
  PROVE  a # "noSig" => a' # "noSig"
BY DEF SignalInv, SignalTypeOK, SignalNext, Step, signalVars, SwapToSig, LoadChan, SwapToClosed, CloseChan,
       CheckSignaled, LookUpChan, MakeChan

(* Nobody is woken before the signal is given, and who is awake stays so.  *)
THEOREM SignalRefinement == SignalSpec => ImplementsBroadcast
<1>1. SignalInit => Abstract!Init
  BY DEF SignalInit, Abstract!Init, Awake
<1>2. SignalInv /\ [SignalNext]_signalVars => [Abstract!Next]_<<a # "noSig", Awake>>
  <2> SUFFICES ASSUME SignalInv, [SignalNext]_signalVars PROVE [Abstract!Next]_<<a # "noSig", Awake>>
    OBVIOUS
  <2>1. CASE Awake' # Awake
    <3>1. a # "noSig" /\ a' # "noSig" /\ Awake \subseteq Awake'
      BY <2>1, AwakeGrows
    <3>2. Awake' \in SUBSET Waiters
      BY DEF Awake
    <3> QED BY <3>1, <3>2 DEF Abstract!Next, Abstract!Wake
  <2>2. CASE Awake' = Awake
    <3>1. CASE a = "noSig" /\ a' # "noSig"
      BY <2>2, <3>1 DEF Abstract!Next, Abstract!Give
    <3>2. CASE (a' # "noSig") <=> (a # "noSig")
      BY <2>2, <3>2
    <3> QED BY <3>1, <3>2, GivenStays
  <2> QED BY <2>1, <2>2
<1> QED BY <1>1, <1>2, SignalInvariance, PTL DEF SignalSpec, ImplementsBroadcast, Abstract!Spec
=============================================================================
