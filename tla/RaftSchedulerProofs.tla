------------------------- MODULE RaftSchedulerProofs -------------------------
(***************************************************************************)
(* ExclusiveProcessing, NoLostWork and OptimalConcurrency of RaftScheduler *)
(* for any number of ranges, workers, shards and callers, the assertion on *)
(* ticks in worker, and NoStrandedMessages of RaftReceiveQueues, which     *)
(* uses the scheduler.                                                     *)
(*                                                                         *)
(* All turns on the Queued flag: in a shard, a range has it if and only if *)
(* it is in the queue or some worker processes it. So whoever finds the    *)
(* flag unset may push the range, and who finds it set may leave the       *)
(* range alone: the worker looks at the flags again before it forgets the  *)
(* range.                                                                  *)
(*                                                                         *)
(* For the receive queues, a step of RaftReceiveQueues is a step of the    *)
(* scheduler or leaves it alone, so the scheduler's invariant holds there  *)
(* too. On top of it: a queue object never serves two ranges, the handler  *)
(* that put the first message into a queue enqueues the range of that      *)
(* queue, and a worker with a drain in progress still has the request flag.*)
(***************************************************************************)
EXTENDS RaftReceiveQueues, FiniteSetTheorems, TLAPS

ScheduleStates == [flags : SUBSET (Kinds \cup {"Ready", "Queued"}), ticks : 0 .. MaxTicks]

WorkerStates ==
  [pc : {"new", "lock", "loop", "wait", "process", "done"}, id : Ranges \cup {NoRange},
   flags : SUBSET (Kinds \cup {"Ready"}), ticks : 0 .. MaxTicks]

Calls ==
  [pc : {"idle", "enqueue", "signal"}, kind : Kinds \cup {"Ready"}, ids : Seq(Ranges),
   shards : Seq(Shards), shard : Shards, next : Nat, i : Nat, count : Nat]

Types ==
  /\ queue \in [Shards -> Seq(Ranges)]
  /\ state \in [Shards -> [Ranges -> ScheduleStates]]
  /\ worker \in [Workers -> WorkerStates]
  /\ \A w \in Workers : worker[w].pc = "process" => worker[w].id \in Ranges
  /\ caller \in [Enqueuers -> Calls]
  /\ owed \in [Ranges -> SUBSET Kinds]

(* A call goes on to the next shard when nothing is left in this one. *)
CallInv(c) ==
  /\ Len(c.shards) = Len(c.ids)
  /\ c.pc = "signal" => Left(c) = {}
  /\ IF c.pc = "idle" THEN c.ids = <<>> ELSE c.kind \in Kinds

CallsHold == \A e \in Enqueuers : CallInv(caller[e])

(* The shard s has the range in its queue, or a worker that processes it. *)
Owned(s, id) == InQueue(s, id) \/ \E w \in Processing(s) : worker[w].id = id

FlagsHold ==
  \A s \in Shards, id \in Ranges :
    /\ "Queued" \in state[s][id].flags <=> Owned(s, id)
    /\ state[s][id].flags # {} => "Queued" \in state[s][id].flags

(* The assertion on ticks that worker makes when race detection is on, and *)
(* the same of what is in the state map: the tick flag is set if and only  *)
(* if there are ticks to process.                                          *)
TicksHold ==
  /\ \A s \in Shards, id \in Ranges : "Tick" \in state[s][id].flags <=> state[s][id].ticks > 0
  /\ \A w \in Workers : worker[w].pc = "process" =>
       ("Tick" \in worker[w].flags <=> worker[w].ticks > 0)

Inv == Types /\ CallsHold /\ ExclusiveProcessing /\ FlagsHold /\ TicksHold /\ NoLostWork

-----------------------------------------------------------------------------
(* Sequences. *)

In(q, x) == \E i \in DOMAIN q : q[i] = x

Once(q) == \A i, j \in DOMAIN q : q[i] = q[j] => i = j

LEMMA AppendIn ==
  ASSUME NEW S, NEW q \in Seq(S), NEW x \in S
  PROVE  /\ Append(q, x) \in Seq(S)
         /\ \A y : In(Append(q, x), y) <=> In(q, y) \/ y = x
         /\ Once(q) /\ ~In(q, x) => Once(Append(q, x))
<1>1. /\ Append(q, x) \in Seq(S) /\ Len(Append(q, x)) = Len(q) + 1 /\ Len(q) \in Nat
      /\ DOMAIN Append(q, x) = 1 .. Len(q) + 1 /\ DOMAIN q = 1 .. Len(q)
      /\ \A i \in 1 .. Len(q) : Append(q, x)[i] = q[i]
      /\ Append(q, x)[Len(q) + 1] = x
  OBVIOUS
<1> DEFINE a == Append(q, x)
<1> HIDE DEF a
<1>2. /\ a \in Seq(S) /\ DOMAIN a = 1 .. Len(q) + 1 /\ DOMAIN q = 1 .. Len(q) /\ Len(q) \in Nat
      /\ \A i \in 1 .. Len(q) : a[i] = q[i]
      /\ a[Len(q) + 1] = x
  BY <1>1 DEF a
<1>3. \A y : In(a, y) <=> In(q, y) \/ y = x
  BY <1>2 DEF In
<1>4. Once(q) /\ ~In(q, x) => Once(a)
  BY <1>2 DEF In, Once
<1> QED BY <1>2, <1>3, <1>4 DEF a

LEMMA TailOut ==
  ASSUME NEW S, NEW q \in Seq(S), q # <<>>, Once(q)
  PROVE  /\ Tail(q) \in Seq(S) /\ Once(Tail(q)) /\ Head(q) \in S /\ In(q, Head(q))
         /\ \A y : In(Tail(q), y) <=> In(q, y) /\ y # Head(q)
<1>1. /\ Tail(q) \in Seq(S) /\ Len(q) \in Nat \ {0}
      /\ DOMAIN Tail(q) = 1 .. Len(q) - 1 /\ DOMAIN q = 1 .. Len(q)
      /\ \A i \in 1 .. Len(q) - 1 : Tail(q)[i] = q[i + 1]
      /\ Head(q) = q[1] /\ Head(q) \in S
  OBVIOUS
<1> DEFINE t == Tail(q)
           h == Head(q)
<1> HIDE DEF t, h
<1>2. /\ t \in Seq(S) /\ Len(q) \in Nat \ {0}
      /\ DOMAIN t = 1 .. Len(q) - 1 /\ DOMAIN q = 1 .. Len(q)
      /\ \A i \in 1 .. Len(q) - 1 : t[i] = q[i + 1]
      /\ h = q[1] /\ h \in S
  BY <1>1 DEF t, h
<1>3. Once(t)
  <2> SUFFICES ASSUME NEW i \in DOMAIN t, NEW j \in DOMAIN t, t[i] = t[j] PROVE i = j
    BY DEF Once
  <2>1. i \in 1 .. Len(q) - 1 /\ j \in 1 .. Len(q) - 1 /\ Len(q) \in Nat
    BY <1>2
  <2>2. q[i + 1] = q[j + 1]
    BY <1>2, <2>1
  <2>3. i + 1 \in DOMAIN q /\ j + 1 \in DOMAIN q
    BY <1>2, <2>1
  <2>4. i + 1 = j + 1
    BY <2>2, <2>3 DEF Once
  <2> QED BY <2>1, <2>4
<1>4. In(q, h)
  BY <1>2 DEF In
<1>5. ASSUME NEW y, In(t, y) PROVE In(q, y) /\ y # h
  <2>1. PICK i \in 1 .. Len(q) - 1 : q[i + 1] = y
    BY <1>2, <1>5 DEF In
  <2>2. i + 1 \in DOMAIN q /\ 1 \in DOMAIN q /\ i + 1 # 1
    BY <1>2
  <2> QED BY <1>2, <2>1, <2>2 DEF In, Once
<1>6. ASSUME NEW y, In(q, y), y # h PROVE In(t, y)
  <2>1. PICK i \in 1 .. Len(q) : q[i] = y
    BY <1>2, <1>6 DEF In
  <2>2. i - 1 \in 1 .. Len(q) - 1 /\ i = (i - 1) + 1
    BY <1>2, <1>6, <2>1
  <2>3. t[i - 1] = y
    BY <1>2, <2>1, <2>2
  <2> QED BY <1>2, <2>2, <2>3 DEF In
<1> QED BY <1>2, <1>3, <1>4, <1>5, <1>6 DEF t, h

LEMMA ShardTypes ==
  /\ RegularShards \in Nat \ {0}
  /\ \A id \in Ranges : \A pri : ShardIndex(id, pri) \in Shards
<1>1. RegularShards \in Nat \ {0}
  BY SchedulerAssumption DEF RegularShards
<1>2. ASSUME NEW id \in Ranges, NEW pri PROVE ShardIndex(id, pri) \in Shards
  <2>1. id \in Nat
    BY SchedulerAssumption
  <2>2. id % RegularShards \in 0 .. RegularShards - 1
    BY <1>1, <2>1
  <2>3. ShardIndex(id, pri) = IF id \in pri THEN 0 ELSE 1 + (id % RegularShards)
    BY <1>1 DEF ShardIndex, NumShards
  <2> QED BY <1>1, <2>2, <2>3 DEF Shards
<1> QED BY <1>1, <1>2

LEMMA WorkerTypes == \A w \in Workers : w[1] \in Shards
BY DEF Workers

-----------------------------------------------------------------------------
(* The properties in terms of In and Once. *)

LEMMA ExclusiveIff ==
  ExclusiveProcessing <=>
    \A s \in Shards :
      /\ Once(queue[s])
      /\ \A v, w \in Processing(s) : worker[v].id = worker[w].id => v = w
      /\ \A w \in Processing(s) : ~In(queue[s], worker[w].id)
BY DEF ExclusiveProcessing, Once, In, InQueue

LEMMA ExclusiveNext ==
  ASSUME \A s \in Shards :
           /\ Once(queue'[s])
           /\ \A v, w \in Processing(s)' : worker'[v].id = worker'[w].id => v = w
           /\ \A w \in Processing(s)' : ~In(queue'[s], worker'[w].id)
  PROVE  ExclusiveProcessing'
BY DEF ExclusiveProcessing, Once, In, InQueue

LEMMA InQueueIn ==
  \A s, id : /\ InQueue(s, id) <=> In(queue[s], id)
             /\ InQueue(s, id)' <=> In(queue'[s], id)
BY DEF InQueue, In

-----------------------------------------------------------------------------
(* Steps. *)

LEMMA InitInv == Init => Inv
<1> SUFFICES ASSUME Init PROVE Inv
  OBVIOUS
<1>0. 0 \in Shards /\ MaxTicks \in Nat \ {0}
  BY ShardTypes, SchedulerAssumption DEF Shards
<1>1. Types
  <2>1. NotScheduled \in ScheduleStates
    BY <1>0 DEF NotScheduled, ScheduleStates
  <2>2. [pc |-> "new", id |-> NoRange, flags |-> {}, ticks |-> 0] \in WorkerStates
    BY <1>0 DEF WorkerStates
  <2>3. NoCall \in Calls
    BY <1>0 DEF NoCall, Calls
  <2> QED BY <2>1, <2>2, <2>3 DEF Init, Types
<1>2. CallsHold
  BY DEF Init, CallsHold, CallInv, NoCall
<1>3. \A s \in Shards : Processing(s) = {}
  BY DEF Init, Processing, WorkersOf
<1>4. \A s \in Shards : queue[s] = <<>> /\ \A id : ~InQueue(s, id)
  BY DEF Init, InQueue
<1>5. ExclusiveProcessing
  BY <1>3, <1>4 DEF ExclusiveProcessing
<1>6. FlagsHold
  BY <1>3, <1>4 DEF Init, FlagsHold, Owned, NotScheduled
<1>7. TicksHold
  BY DEF Init, TicksHold, NotScheduled
<1>8. NoLostWork
  BY DEF Init, NoLostWork
<1> QED BY <1>1, <1>2, <1>5, <1>6, <1>7, <1>8 DEF Inv

(* Steps that touch neither the queues nor what is processed. *)
LEMMA QuietStep ==
  ASSUME Inv, UNCHANGED <<queue, state>>, owed' = owed,
         worker' \in [Workers -> WorkerStates],
         \A w \in Workers : \/ worker'[w] = worker[w]
                            \/ worker[w].pc # "process" /\ worker'[w].pc # "process",
         caller' \in [Enqueuers -> Calls],
         \A e \in Enqueuers : CallInv(caller'[e]),
         \A e \in Enqueuers : \A id : Announces(caller[e], id) =>
           Announces(caller'[e], id) /\ caller'[e].kind = caller[e].kind
  PROVE  Inv'
<1>1. Types'
  BY DEF Inv, Types
<1>2. CallsHold'
  BY DEF CallsHold
<1>3. /\ \A s : Processing(s)' = Processing(s)
      /\ \A s : \A w \in Processing(s) : worker'[w] = worker[w]
      /\ \A s, id : InQueue(s, id)' = InQueue(s, id)
  BY DEF Processing, WorkersOf, InQueue
<1>4. ExclusiveProcessing'
  BY <1>3 DEF Inv, ExclusiveProcessing
<1>5. FlagsHold'
  BY <1>3 DEF Inv, FlagsHold, Owned
<1>6. TicksHold'
  BY DEF Inv, TicksHold
<1>7. ASSUME NEW id \in Ranges, NEW kind
      PROVE  /\ Announced(kind, id) => Announced(kind, id)'
             /\ Flagged(kind, id) => Flagged(kind, id)'
             /\ Taken(kind, id) => Taken(kind, id)'
  <2>1. Announced(kind, id) => Announced(kind, id)'
    BY DEF Announced
  <2>2. Flagged(kind, id) => Flagged(kind, id)'
    BY <1>3 DEF Flagged
  <2>3. Taken(kind, id) => Taken(kind, id)'
    BY DEF Taken
  <2> QED BY <2>1, <2>2, <2>3
<1>8. NoLostWork'
  BY <1>7 DEF Inv, NoLostWork
<1> QED BY <1>1, <1>2, <1>4, <1>5, <1>6, <1>8 DEF Inv

(* What stays the same when no caller moves. *)
LEMMA CallersStay ==
  ASSUME Inv, UNCHANGED caller
  PROVE  /\ caller' \in [Enqueuers -> Calls]
         /\ \A e \in Enqueuers : CallInv(caller'[e])
         /\ \A e \in Enqueuers : \A id : Announces(caller[e], id) =>
              Announces(caller'[e], id) /\ caller'[e].kind = caller[e].kind
BY DEF Inv, Types, CallsHold

LEMMA WorkersStay ==
  ASSUME Inv, UNCHANGED worker
  PROVE  /\ worker' \in [Workers -> WorkerStates]
         /\ \A w \in Workers : \/ worker'[w] = worker[w]
                               \/ worker[w].pc # "process" /\ worker'[w].pc # "process"
BY DEF Inv, Types

LEMMA WakeQuiet ==
  ASSUME Inv, NEW s, NEW ws \in SUBSET Waiting(s), Wake(ws)
  PROVE  /\ worker' \in [Workers -> WorkerStates]
         /\ \A w \in Workers : \/ worker'[w] = worker[w]
                               \/ worker[w].pc # "process" /\ worker'[w].pc # "process"
<1>1. \A w \in ws : w \in Workers /\ worker[w].pc = "wait"
  BY DEF Waiting, WorkersOf
<1>2. \A w \in Workers : worker[w] \in WorkerStates
  BY DEF Inv, Types
<1>3. \A w \in Workers : [worker[w] EXCEPT !.pc = "lock"] \in WorkerStates
                         /\ [worker[w] EXCEPT !.pc = "lock"].pc = "lock"
  BY <1>2 DEF WorkerStates
<1> QED BY <1>1, <1>2, <1>3 DEF Wake

(* The call goes on to the next shard, or ends. *)
LEMMA NextShardCall ==
  ASSUME NEW c \in Calls, CallInv(c), c.pc # "idle", Left(c) = {}
  PROVE  /\ NextShard(c) \in Calls /\ CallInv(NextShard(c))
         /\ \A id : Announces(c, id) => Announces(NextShard(c), id) /\ NextShard(c).kind = c.kind
<1>0. RegularShards \in Nat \ {0} /\ c.shard \in 0 .. RegularShards /\ NumShards = RegularShards + 1
  BY ShardTypes DEF Calls, Shards, NumShards
<1>1. /\ c.ids \in Seq(Ranges) /\ c.shards \in Seq(Shards) /\ Len(c.shards) = Len(c.ids)
      /\ \A k \in DOMAIN c.ids : c.shards[k] \in 0 .. RegularShards /\ k >= 1
  <2>1. c.ids \in Seq(Ranges) /\ c.shards \in Seq(Shards) /\ Len(c.shards) = Len(c.ids)
    BY DEF Calls, CallInv
  <2>2. DOMAIN c.ids = 1 .. Len(c.ids) /\ Len(c.ids) \in Nat
    BY <2>1
  <2>3. \A k \in 1 .. Len(c.shards) : c.shards[k] \in Shards
    BY <2>1
  <2> QED BY <2>1, <2>2, <2>3 DEF Shards
<1>2. CASE c.shard + 1 < NumShards
  <2> DEFINE n == [c EXCEPT !.pc = "enqueue", !.shard = c.shard + 1, !.next = 1, !.i = 0,
                            !.count = 0]
  <2>1. NextShard(c) = n
    BY <1>2 DEF NextShard
  <2>2. /\ n \in Calls /\ n.ids = c.ids /\ n.shards = c.shards /\ n.shard = c.shard + 1
        /\ n.next = 1 /\ n.pc = "enqueue" /\ n.kind = c.kind
    <3>1. c.shard + 1 \in Shards /\ 0 \in Nat /\ 1 \in Nat
      BY <1>0, <1>2 DEF Shards
    <3> QED BY <3>1 DEF Calls
  <2> HIDE DEF n
  <2>3. CallInv(n)
    BY <1>1, <2>2 DEF CallInv
  <2>4. ASSUME NEW id, Announces(c, id) PROVE Announces(n, id)
    <3>1. PICK k \in DOMAIN c.ids : c.ids[k] = id /\ c.shards[k] > c.shard
      BY <2>4 DEF Announces
    <3>2. c.shards[k] > n.shard \/ (c.shards[k] = n.shard /\ k >= n.next)
      BY <1>0, <1>1, <2>2, <3>1
    <3> QED BY <2>2, <3>1, <3>2 DEF Announces, Left
  <2> QED BY <2>1, <2>2, <2>3, <2>4
<1>3. CASE ~(c.shard + 1 < NumShards)
  <2>1. NextShard(c) = NoCall
    BY <1>3 DEF NextShard
  <2>2. NoCall \in Calls /\ CallInv(NoCall)
    BY <1>0 DEF NoCall, Calls, CallInv, Shards
  <2>3. \A id : ~Announces(c, id)
    BY <1>0, <1>1, <1>3 DEF Announces
  <2> QED BY <2>1, <2>2, <2>3
<1> QED BY <1>2, <1>3

LEMMA SkipShardStep ==
  ASSUME Inv, NEW e \in Enqueuers, SkipShard(e)
  PROVE  Inv'
<1>1. /\ caller[e] \in Calls /\ CallInv(caller[e]) /\ Left(caller[e]) = {}
      /\ caller[e].pc # "idle"
      /\ caller' = [caller EXCEPT ![e] = NextShard(caller[e])] /\ caller \in [Enqueuers -> Calls]
  BY DEF Inv, Types, CallsHold, SkipShard
<1>2. /\ caller' \in [Enqueuers -> Calls]
      /\ \A x \in Enqueuers : CallInv(caller'[x])
      /\ \A x \in Enqueuers : \A id : Announces(caller[x], id) =>
           Announces(caller'[x], id) /\ caller'[x].kind = caller[x].kind
  BY <1>1, NextShardCall DEF Inv, CallsHold
<1> QED BY <1>2, WorkersStay, QuietStep DEF SkipShard

LEMMA SignalStep ==
  ASSUME Inv, NEW e \in Enqueuers, Signal(e)
  PROVE  Inv'
<1> DEFINE c == caller[e]
<1>1. /\ c \in Calls /\ CallInv(c) /\ Left(c) = {} /\ caller \in [Enqueuers -> Calls]
      /\ c.pc = "signal" /\ UNCHANGED <<queue, state, owed>>
  BY DEF Inv, Types, CallsHold, CallInv, Signal
<1>2. /\ worker' \in [Workers -> WorkerStates]
      /\ \A w \in Workers : \/ worker'[w] = worker[w]
                            \/ worker[w].pc # "process" /\ worker'[w].pc # "process"
  <2>1. UNCHANGED worker \/ \E ws \in SUBSET Waiting(c.shard) : Wake(ws)
    BY DEF Signal
  <2> QED BY <2>1, WakeQuiet, WorkersStay
<1>3. /\ caller' \in [Enqueuers -> Calls]
      /\ \A x \in Enqueuers : CallInv(caller'[x])
      /\ \A x \in Enqueuers : \A id : Announces(caller[x], id) =>
           Announces(caller'[x], id) /\ caller'[x].kind = caller[x].kind
  <2>1. CASE caller' = [caller EXCEPT ![e] = NextShard(c)]
    BY <1>1, <2>1, NextShardCall DEF Inv, CallsHold
  <2>2. CASE caller' = [caller EXCEPT ![e].count = @ - 1] /\ c.count > 0
    <3> DEFINE n == [c EXCEPT !.count = @ - 1]
    <3>1. /\ n \in Calls /\ n.ids = c.ids /\ n.shards = c.shards /\ n.shard = c.shard
          /\ n.next = c.next /\ n.pc = c.pc /\ n.kind = c.kind
      <4>1. c.count - 1 \in Nat
        BY <1>1, <2>2 DEF Calls
      <4> HIDE DEF c
      <4> QED BY <1>1, <4>1 DEF Calls
    <3>2. caller' = [caller EXCEPT ![e] = n]
      BY <1>1, <2>2
    <3> HIDE DEF n
    <3>3. CallInv(n) /\ \A id : Announces(c, id) => Announces(n, id)
      BY <1>1, <3>1 DEF CallInv, Announces, Left
    <3> QED BY <1>1, <3>1, <3>2, <3>3 DEF Inv, CallsHold
  <2> QED BY <2>1, <2>2 DEF Signal
<1> QED BY <1>1, <1>2, <1>3, QuietStep

LEMMA StartWorkerStep ==
  ASSUME Inv, NEW w \in Workers, StartWorker(w)
  PROVE  Inv'
<1>1. /\ worker' \in [Workers -> WorkerStates]
      /\ \A v \in Workers : \/ worker'[v] = worker[v]
                            \/ worker[v].pc # "process" /\ worker'[v].pc # "process"
  BY DEF StartWorker, Inv, Types, WorkerStates
<1> QED BY <1>1, CallersStay, QuietStep DEF StartWorker

LEMMA StopShardStep == ASSUME Inv, StopShard PROVE Inv'
<1>1. UNCHANGED worker \/ \E s : Wake(Waiting(s))
  BY DEF StopShard
<1>2. /\ worker' \in [Workers -> WorkerStates]
      /\ \A w \in Workers : \/ worker'[w] = worker[w]
                            \/ worker[w].pc # "process" /\ worker'[w].pc # "process"
  BY <1>1, WakeQuiet, WorkersStay
<1> QED BY <1>2, CallersStay, QuietStep DEF StopShard

(* The shard of every range is known when the work is announced. *)
LEMMA BeginCallStep ==
  ASSUME Inv, NEW e \in Enqueuers, NEW kind \in Kinds, NEW ids \in Seq(Ranges),
         BeginCall(e, kind, ids)
  PROVE  Inv'
<1> DEFINE sh == [k \in DOMAIN ids |-> ShardIndex(ids[k], priorityIDs)]
           c == [NoCall EXCEPT !.pc = "enqueue", !.kind = kind, !.ids = ids, !.shards = sh]
<1>0. 0 \in Shards /\ Shards \subseteq Nat
  BY ShardTypes DEF Shards
<1>1. /\ sh \in Seq(Shards) /\ Len(sh) = Len(ids)
      /\ \A k \in DOMAIN ids : sh[k] \in Shards
  <2>1. \A k \in 1 .. Len(ids) : ShardIndex(ids[k], priorityIDs) \in Shards
    BY ShardTypes
  <2> QED BY <2>1
<1>2. caller' = [caller EXCEPT ![e] = c] /\ caller[e].pc = "idle"
  BY DEF BeginCall
<1>3. NoCall \in Calls /\ NoCall.shard = 0 /\ NoCall.next = 1
  BY <1>0 DEF NoCall, Calls
<1> HIDE DEF sh
<1>4. /\ c \in Calls /\ c.ids = ids /\ c.shards = sh /\ c.kind = kind /\ c.pc = "enqueue"
      /\ c.shard = 0 /\ c.next = 1
  BY <1>1, <1>3 DEF Calls
<1> HIDE DEF c
<1>5. CallInv(c)
  BY <1>1, <1>4 DEF CallInv
<1>6. \A k \in DOMAIN ids : Announces(c, ids[k])
  <2>0. DOMAIN ids = 1 .. Len(ids) /\ Len(ids) \in Nat
    OBVIOUS
  <2>1. \A k \in DOMAIN ids : c.shards[k] \in Nat /\ k \in Nat /\ k >= 1
    <3>1. \A k \in DOMAIN ids : c.shards[k] \in Nat
      BY <1>0, <1>1, <1>4
    <3>2. \A k \in 1 .. Len(ids) : k \in Nat /\ k >= 1
      BY <2>0
    <3> QED BY <2>0, <3>1, <3>2
  <2>2. \A k \in DOMAIN ids : c.shards[k] > c.shard \/ (c.shards[k] = c.shard /\ k >= c.next)
    BY <1>4, <2>1
  <2> QED BY <1>4, <2>2 DEF Announces, Left
<1>7. UNCHANGED <<queue, state, worker>>
  BY DEF BeginCall
<1>8. Types'
  BY <1>2, <1>4, <1>7 DEF Inv, Types, BeginCall
<1>9. CallsHold'
  BY <1>2, <1>5 DEF Inv, CallsHold, Types
<1>10. ExclusiveProcessing' /\ FlagsHold' /\ TicksHold'
  BY <1>7 DEF Inv, ExclusiveProcessing, FlagsHold, TicksHold, Owned, Processing, WorkersOf, InQueue
<1>11. NoLostWork'
  <2>1. ASSUME NEW id \in Ranges, NEW k
        PROVE  /\ Announced(k, id) => Announced(k, id)'
               /\ Flagged(k, id) => Flagged(k, id)'
               /\ Taken(k, id) => Taken(k, id)'
    <3>1. ~Announces(caller[e], id)
      BY <1>2 DEF Inv, CallsHold, CallInv, Announces
    <3>2. Announced(k, id) => Announced(k, id)'
      BY <1>2, <3>1 DEF Inv, Types, Announced
    <3>3. /\ Flagged(k, id) => Flagged(k, id)'
          /\ Taken(k, id) => Taken(k, id)'
      BY <1>7 DEF Flagged, Taken, InQueue, Processing, WorkersOf
    <3> QED BY <3>2, <3>3
  <2>2. ASSUME NEW id \in Ranges, \E i \in DOMAIN ids : ids[i] = id PROVE Announced(kind, id)'
    BY <1>2, <1>4, <1>6, <2>2 DEF Inv, Types, Announced
  <2>3. \A id \in Ranges : \A k \in owed'[id] :
          k \in owed[id] \/ (k = kind /\ \E i \in DOMAIN ids : ids[i] = id)
    BY DEF BeginCall
  <2> QED BY <2>1, <2>2, <2>3 DEF Inv, NoLostWork
<1> QED BY <1>8, <1>9, <1>10, <1>11 DEF Inv

(* enqueue1Locked on one range. *)
LEMMA ScheduledState ==
  ASSUME NEW st \in ScheduleStates, NEW kind \in Kinds,
         st.flags # {} => "Queued" \in st.flags,
         "Tick" \in st.flags <=> st.ticks > 0
  PROVE  LET new == Scheduled(st, kind) IN
         /\ new \in ScheduleStates /\ kind \in new.flags /\ "Queued" \in new.flags
         /\ st.flags \subseteq new.flags
         /\ "Tick" \in new.flags <=> new.ticks > 0
         /\ NewlyQueued(st, kind) <=> "Queued" \notin st.flags
<1>0. /\ MaxTicks \in Nat \ {0} /\ kind # "Queued" /\ st.ticks \in 0 .. MaxTicks
      /\ st.flags \subseteq Kinds \cup {"Ready", "Queued"}
  BY SchedulerAssumption DEF ScheduleStates
<1> DEFINE new == Scheduled(st, kind)
<1>1. CASE kind \in st.flags /\ kind # "Tick"
  <2>1. new = st
    BY <1>1 DEF Scheduled
  <2> QED BY <1>1, <2>1 DEF NewlyQueued
<1>2. CASE ~(kind \in st.flags /\ kind # "Tick")
  <2> DEFINE t == IF kind = "Tick" THEN st.ticks + 1 ELSE st.ticks
             u == IF t > MaxTicks THEN MaxTicks ELSE t
  <2>1. new = [flags |-> st.flags \cup {kind, "Queued"}, ticks |-> u]
    BY <1>2 DEF Scheduled
  <2>2. u \in 0 .. MaxTicks /\ (u > 0 <=> kind = "Tick" \/ st.ticks > 0)
    BY <1>0
  <2> HIDE DEF u
  <2>3. new.flags = st.flags \cup {kind, "Queued"} /\ new.ticks = u
    BY <2>1
  <2>4. new \in ScheduleStates
    BY <1>0, <2>1, <2>2 DEF ScheduleStates
  <2>5. NewlyQueued(st, kind) <=> "Queued" \notin st.flags
    BY <2>3 DEF NewlyQueued
  <2> HIDE DEF new
  <2>6. "Tick" \in new.flags <=> new.ticks > 0
    BY <2>2, <2>3
  <2> QED BY <2>3, <2>4, <2>5, <2>6 DEF new
<1> QED BY <1>1, <1>2

LEMMA Enqueue1LockedStep ==
  ASSUME Inv, NEW e \in Enqueuers, Enqueue1Locked(e)
  PROVE  Inv'
<1> DEFINE c == caller[e]
           s == c.shard
<1>1. PICK k \in Left(c) :
        /\ \A j \in Left(c) : k <= j
        /\ state' = [state EXCEPT ![s][c.ids[k]] = Scheduled(state[s][c.ids[k]], c.kind)]
        /\ queue' = [queue EXCEPT ![s] = IF NewlyQueued(state[s][c.ids[k]], c.kind)
                                         THEN Append(@, c.ids[k]) ELSE @]
        /\ caller' = [caller EXCEPT ![e] =
             [c EXCEPT !.next = k + 1,
                       !.i = (c.i + 1) % ChunkSize,
                       !.count = IF NewlyQueued(state[s][c.ids[k]], c.kind)
                                 THEN c.count + 1 ELSE c.count,
                       !.pc = IF Left(c) = {k} THEN "signal" ELSE "enqueue"]]
  BY DEF Enqueue1Locked
<1> DEFINE id == c.ids[k]
           st == state[s][id]
           new == Scheduled(st, c.kind)
<1>2. UNCHANGED <<worker, owed>>
  BY DEF Enqueue1Locked
<1>3. /\ c \in Calls /\ CallInv(c) /\ caller \in [Enqueuers -> Calls] /\ s \in Shards
      /\ c.kind \in Kinds
  BY DEF Inv, Types, CallsHold, Calls, Enqueue1Locked, CallInv
<1>4. /\ k \in DOMAIN c.ids /\ k \in Nat /\ id \in Ranges /\ c.shards[k] = s /\ k >= c.next
      /\ \A j \in DOMAIN c.ids : j \in Nat
  <2>1. c.ids \in Seq(Ranges) /\ k \in DOMAIN c.ids
    BY <1>3 DEF Calls, Left
  <2> QED BY <2>1 DEF Left
<1>5. /\ queue \in [Shards -> Seq(Ranges)] /\ state \in [Shards -> [Ranges -> ScheduleStates]]
      /\ st \in ScheduleStates
      /\ st.flags # {} => "Queued" \in st.flags
      /\ "Tick" \in st.flags <=> st.ticks > 0
      /\ "Queued" \in st.flags <=> Owned(s, id)
  BY <1>3, <1>4 DEF Inv, Types, FlagsHold, TicksHold
<1>6. /\ new \in ScheduleStates /\ c.kind \in new.flags /\ "Queued" \in new.flags
      /\ st.flags \subseteq new.flags
      /\ "Tick" \in new.flags <=> new.ticks > 0
      /\ NewlyQueued(st, c.kind) <=> ~Owned(s, id)
  BY <1>3, <1>5, ScheduledState
<1> DEFINE n == [c EXCEPT !.next = k + 1,
                          !.i = (c.i + 1) % ChunkSize,
                          !.count = IF NewlyQueued(st, c.kind) THEN c.count + 1 ELSE c.count,
                          !.pc = IF Left(c) = {k} THEN "signal" ELSE "enqueue"]
<1>7. caller' = [caller EXCEPT ![e] = n]
  BY <1>1
<1>8. /\ n \in Calls /\ n.ids = c.ids /\ n.shards = c.shards /\ n.shard = c.shard
      /\ n.next = k + 1 /\ n.kind = c.kind
      /\ n.pc = IF Left(c) = {k} THEN "signal" ELSE "enqueue"
  <2>1. (c.i + 1) % ChunkSize \in Nat
    BY <1>3, SchedulerAssumption DEF Calls
  <2>2. (IF NewlyQueued(st, c.kind) THEN c.count + 1 ELSE c.count) \in Nat
    BY <1>3 DEF Calls
  <2>3. k + 1 \in Nat
    BY <1>4
  <2> DEFINE a == (c.i + 1) % ChunkSize
             b == IF NewlyQueued(st, c.kind) THEN c.count + 1 ELSE c.count
             d == k + 1
             l == IF Left(c) = {k} THEN "signal" ELSE "enqueue"
  <2>4. a \in Nat /\ b \in Nat /\ d \in Nat /\ l \in {"signal", "enqueue"} /\ d = k + 1
        /\ n = [c EXCEPT !.next = d, !.i = a, !.count = b, !.pc = l]
        /\ l = IF Left(c) = {k} THEN "signal" ELSE "enqueue"
    BY <2>1, <2>2, <2>3
  <2> HIDE DEF a, b, d, l, c
  <2> QED BY <1>3, <2>4 DEF Calls
<1> HIDE DEF n, new, st, id, s, c
<1>9. Left(n) = Left(c) \ {k}
  <2>1. \A j \in DOMAIN c.ids : j >= k + 1 <=> j >= c.next /\ j # k /\ k <= j
    BY <1>3, <1>4 DEF Calls
  <2> QED BY <1>1, <1>4, <1>8, <2>1 DEF Left
<1>10. CallInv(n)
  BY <1>3, <1>8, <1>9 DEF CallInv
<1>11. \A x : Announces(c, x) => Announces(n, x) \/ x = id
  BY <1>8, <1>9 DEF Announces, id
<1>12. /\ \A y : In(queue'[s], y) <=> In(queue[s], y) \/ (~Owned(s, id) /\ y = id)
       /\ queue'[s] \in Seq(Ranges)
       /\ Once(queue[s]) => Once(queue'[s])
       /\ \A t \in Shards : t # s => queue'[t] = queue[t]
       /\ queue' \in [Shards -> Seq(Ranges)]
  <2>1. /\ queue'[s] = IF NewlyQueued(st, c.kind) THEN Append(queue[s], id) ELSE queue[s]
        /\ \A t \in Shards : t # s => queue'[t] = queue[t]
        /\ DOMAIN queue' = Shards /\ queue' = [t \in Shards |-> queue'[t]]
    BY <1>1, <1>3, <1>5 DEF st, id, s
  <2>2. queue[s] \in Seq(Ranges) /\ id \in Ranges
    BY <1>3, <1>4, <1>5
  <2>3. CASE NewlyQueued(st, c.kind)
    <3>1. ~In(queue[s], id)
      BY <1>6, <2>3 DEF Owned, InQueue, In
    <3>2. queue'[s] = Append(queue[s], id)
      BY <2>1, <2>3
    <3>3. /\ queue'[s] \in Seq(Ranges)
          /\ \A y : In(queue'[s], y) <=> In(queue[s], y) \/ y = id
          /\ Once(queue[s]) => Once(queue'[s])
      BY <2>2, <3>1, <3>2, AppendIn
    <3> QED BY <1>5, <1>6, <2>1, <2>3, <3>3
  <2>4. CASE ~NewlyQueued(st, c.kind)
    BY <1>5, <1>6, <2>1, <2>2, <2>4
  <2> QED BY <2>3, <2>4
<1>13. /\ state'[s][id] = new
       /\ \A t \in Shards, x \in Ranges : t # s \/ x # id => state'[t][x] = state[t][x]
       /\ state' \in [Shards -> [Ranges -> ScheduleStates]]
  BY <1>1, <1>3, <1>4, <1>5, <1>6 DEF new, st, id, s
<1>14. /\ \A t : Processing(t)' = Processing(t)
       /\ \A t \in Shards : \A x : InQueue(t, x)' <=> InQueue(t, x) \/ (t = s /\ x = id /\ ~Owned(s, id))
  <2>1. \A t \in Shards : \A x : InQueue(t, x)' <=> In(queue'[t], x)
    BY DEF InQueue, In
  <2>2. \A t \in Shards : \A x : InQueue(t, x) <=> In(queue[t], x)
    BY DEF InQueue, In
  <2> QED BY <1>2, <1>3, <1>12, <2>1, <2>2 DEF Processing, WorkersOf
<1>15. \A t \in Shards : \A x : Owned(t, x)' <=> Owned(t, x) \/ (t = s /\ x = id)
  BY <1>2, <1>14 DEF Owned
<1>16. Types'
  BY <1>2, <1>7, <1>8, <1>12, <1>13 DEF Inv, Types
<1>17. CallsHold'
  BY <1>3, <1>7, <1>10 DEF Inv, CallsHold
<1>18. ExclusiveProcessing'
  <2>1. ASSUME NEW t \in Shards
        PROVE  /\ Once(queue'[t])
               /\ \A v, w \in Processing(t)' : worker'[v].id = worker'[w].id => v = w
               /\ \A w \in Processing(t)' : ~In(queue'[t], worker'[w].id)
    <3>1. /\ Once(queue[t])
          /\ \A v, w \in Processing(t) : worker[v].id = worker[w].id => v = w
          /\ \A w \in Processing(t) : ~In(queue[t], worker[w].id)
      BY ExclusiveIff DEF Inv
    <3>2. Once(queue'[t])
      BY <1>12, <3>1
    <3>3. \A w \in Processing(t) : Owned(t, worker[w].id)
      BY DEF Owned
    <3>4. \A w \in Processing(t) : ~In(queue'[t], worker[w].id)
      BY <1>12, <3>1, <3>3
    <3> QED BY <1>2, <1>14, <3>1, <3>2, <3>4
  <2> QED BY <2>1, ExclusiveNext
<1>19. FlagsHold'
  BY <1>5, <1>6, <1>13, <1>15 DEF Inv, FlagsHold
<1>20. TicksHold'
  BY <1>2, <1>6, <1>13 DEF Inv, TicksHold
<1>21. NoLostWork'
  <2>1. ASSUME NEW x, NEW kind, x = id, kind = c.kind PROVE Flagged(kind, x)'
    <3>1. kind \in state'[s][x].flags
      BY <1>6, <1>13, <2>1
    <3>2. \A t \in Shards : t = s => Owned(t, x)'
      BY <1>15, <2>1
    <3> QED BY <1>3, <3>1, <3>2 DEF Flagged, Owned
  <2>2. ASSUME NEW x \in Ranges, NEW kind, Announced(kind, x)
        PROVE  Announced(kind, x)' \/ (kind = c.kind /\ x = id)
    BY <1>3, <1>7, <1>8, <1>11, <2>2 DEF Announced, c
  <2>3. ASSUME NEW x \in Ranges, NEW kind, Flagged(kind, x) PROVE Flagged(kind, x)'
    <3>1. PICK t \in Shards : kind \in state[t][x].flags /\ Owned(t, x)
      BY <2>3 DEF Flagged, Owned
    <3>2. kind \in state'[t][x].flags
      BY <1>6, <1>13, <3>1 DEF st
    <3>3. Owned(t, x)'
      BY <1>15, <3>1
    <3> QED BY <3>2, <3>3 DEF Flagged, Owned
  <2>4. \A x, kind : Taken(kind, x) => Taken(kind, x)'
    BY <1>2 DEF Taken
  <2> QED BY <1>2, <2>1, <2>2, <2>3, <2>4 DEF Inv, NoLostWork
<1> QED BY <1>16, <1>17, <1>18, <1>19, <1>20, <1>21 DEF Inv

(* The inner loop of a worker: it takes a range, with its flags. *)
LEMMA WorkerLoopStep ==
  ASSUME Inv, NEW w \in Workers, WorkerLoop(w)
  PROVE  Inv'
<1> DEFINE s == w[1]
           id == Head(queue[s])
<1>0. /\ s \in Shards /\ UNCHANGED <<caller, owed>> /\ worker[w].pc \in {"lock", "loop"}
      /\ MaxTicks \in Nat \ {0}
  BY WorkerTypes, SchedulerAssumption DEF WorkerLoop
<1>1. CASE /\ UNCHANGED <<queue, state>>
           /\ \E l \in {"done", "wait"} : worker' = [worker EXCEPT ![w].pc = l]
  <2>1. PICK l \in {"done", "wait"} : worker' = [worker EXCEPT ![w].pc = l]
    BY <1>1
  <2>2. /\ worker' \in [Workers -> WorkerStates]
        /\ \A v \in Workers : \/ worker'[v] = worker[v]
                              \/ worker[v].pc # "process" /\ worker'[v].pc # "process"
    BY <1>0, <2>1 DEF Inv, Types, WorkerStates
  <2> QED BY <1>0, <1>1, <2>2, CallersStay, QuietStep
<1>2. CASE /\ queue[s] # <<>>
           /\ queue' = [queue EXCEPT ![s] = Tail(@)]
           /\ worker' = [worker EXCEPT ![w] =
                [pc |-> "process", id |-> id,
                 flags |-> state[s][id].flags \ {"Queued"}, ticks |-> state[s][id].ticks]]
           /\ state' = [state EXCEPT ![s][id] = [flags |-> {"Queued"}, ticks |-> 0]]
  <2> DEFINE st == state[s][id]
             new == [pc |-> "process", id |-> id, flags |-> st.flags \ {"Queued"},
                     ticks |-> st.ticks]
  <2>1. /\ queue \in [Shards -> Seq(Ranges)] /\ state \in [Shards -> [Ranges -> ScheduleStates]]
        /\ worker \in [Workers -> WorkerStates] /\ queue[s] \in Seq(Ranges)
    BY <1>0 DEF Inv, Types
  <2>2. /\ \A t \in Shards : /\ Once(queue[t])
                             /\ \A u, v \in Processing(t) : worker[u].id = worker[v].id => u = v
                             /\ \A v \in Processing(t) : ~In(queue[t], worker[v].id)
    BY ExclusiveIff DEF Inv
  <2>3. /\ Tail(queue[s]) \in Seq(Ranges) /\ Once(Tail(queue[s])) /\ id \in Ranges
        /\ In(queue[s], id)
        /\ \A y : In(Tail(queue[s]), y) <=> In(queue[s], y) /\ y # id
    BY <1>0, <1>2, <2>1, <2>2, TailOut
  <2>4. st \in ScheduleStates /\ (st.flags # {} => "Queued" \in st.flags)
        /\ ("Tick" \in st.flags <=> st.ticks > 0)
    BY <1>0, <2>1, <2>3 DEF Inv, FlagsHold, TicksHold
  <2>5. new \in WorkerStates /\ new.pc = "process" /\ new.id = id
        /\ new.flags = st.flags \ {"Queued"} /\ new.ticks = st.ticks
    BY <2>3, <2>4 DEF ScheduleStates, WorkerStates
  <2>6. /\ queue'[s] = Tail(queue[s]) /\ \A t \in Shards : t # s => queue'[t] = queue[t]
        /\ queue' \in [Shards -> Seq(Ranges)]
    BY <1>0, <1>2, <2>1, <2>3
  <2> HIDE DEF new
  <2>7. /\ worker'[w] = new /\ \A v \in Workers : v # w => worker'[v] = worker[v]
        /\ worker' \in [Workers -> WorkerStates]
    BY <1>2, <2>1, <2>5 DEF new
  <2>8. /\ state'[s][id] = [flags |-> {"Queued"}, ticks |-> 0]
        /\ \A t \in Shards, x \in Ranges : t # s \/ x # id => state'[t][x] = state[t][x]
        /\ state' \in [Shards -> [Ranges -> ScheduleStates]]
    <3>1. [flags |-> {"Queued"}, ticks |-> 0] \in ScheduleStates
      BY <1>0 DEF ScheduleStates
    <3> HIDE DEF id
    <3> QED BY <1>0, <1>2, <2>1, <2>3, <3>1
  <2> HIDE DEF st, id
  <2>9. /\ Processing(s)' = Processing(s) \cup {w} /\ w \notin Processing(s)
        /\ \A t \in Shards : t # s => Processing(t)' = Processing(t) /\ w \notin Processing(t)
        /\ \A t \in Shards : Processing(t) \subseteq Workers
    BY <1>0, <2>5, <2>7 DEF Processing, WorkersOf
  <2> HIDE DEF s
  <2>10. \A t \in Shards : \A x : Owned(t, x)' <=> Owned(t, x)
    <3>1. ASSUME NEW x PROVE Owned(s, x)' <=> Owned(s, x)
      <4>1. Owned(s, x) <=> In(queue[s], x) \/ \E v \in Processing(s) : worker[v].id = x
        BY InQueueIn DEF Owned
      <4>2. Owned(s, x)' <=> In(queue'[s], x) \/ \E v \in Processing(s)' : worker'[v].id = x
        BY InQueueIn DEF Owned, s
      <4> QED BY <1>0, <2>3, <2>5, <2>6, <2>7, <2>9, <4>1, <4>2
    <3>2. ASSUME NEW t \in Shards, t # s, NEW x PROVE Owned(t, x)' <=> Owned(t, x)
      <4>1. Owned(t, x) <=> In(queue[t], x) \/ \E v \in Processing(t) : worker[v].id = x
        BY InQueueIn DEF Owned
      <4>2. Owned(t, x)' <=> In(queue'[t], x) \/ \E v \in Processing(t)' : worker'[v].id = x
        BY InQueueIn DEF Owned
      <4> QED BY <2>6, <2>7, <2>9, <3>2, <4>1, <4>2
    <3> QED BY <3>1, <3>2 DEF s
  <2>11. Types'
    BY <1>0, <2>3, <2>5, <2>6, <2>7, <2>8 DEF Inv, Types
  <2>12. CallsHold'
    BY <1>0 DEF Inv, CallsHold
  <2>13. ExclusiveProcessing'
    <3>1. ASSUME NEW t \in Shards
          PROVE  /\ Once(queue'[t])
                 /\ \A u, v \in Processing(t)' : worker'[u].id = worker'[v].id => u = v
                 /\ \A v \in Processing(t)' : ~In(queue'[t], worker'[v].id)
      <4>1. CASE t = s
        <5>1. \A v \in Processing(s) : worker'[v] = worker[v] /\ worker[v].id # id
          BY <1>0, <2>2, <2>3, <2>7, <2>9
        <5>2. /\ Processing(t)' = Processing(t) \cup {w} /\ worker'[w].id = id
              /\ queue'[t] = Tail(queue[t])
          BY <2>5, <2>6, <2>7, <2>9, <4>1 DEF s
        <5>3. Once(queue'[t]) /\ \A y : In(queue'[t], y) => In(queue[t], y) /\ y # id
          BY <2>3, <4>1, <5>2
        <5>4. \A u, v \in Processing(t)' : worker'[u].id = worker'[v].id => u = v
          BY <2>2, <4>1, <5>1, <5>2
        <5>5. \A v \in Processing(t)' : ~In(queue'[t], worker'[v].id)
          BY <2>2, <4>1, <5>1, <5>2, <5>3
        <5> QED BY <5>3, <5>4, <5>5
      <4>2. CASE t # s
        BY <2>2, <2>6, <2>7, <2>9, <4>2
      <4> QED BY <4>1, <4>2
    <3> QED BY <3>1, ExclusiveNext
  <2>14. FlagsHold'
    <3>1. Owned(s, id)
      BY <2>3, InQueueIn DEF Owned
    <3> QED BY <1>0, <2>3, <2>8, <2>10, <3>1 DEF Inv, FlagsHold
  <2>15. TicksHold'
    <3>1. \A t \in Shards, x \in Ranges : "Tick" \in state'[t][x].flags <=> state'[t][x].ticks > 0
      BY <2>8 DEF Inv, TicksHold
    <3>2. "Tick" \in worker'[w].flags <=> worker'[w].ticks > 0
      BY <2>4, <2>5, <2>7
    <3>3. \A v \in Workers : worker'[v].pc = "process" =>
            ("Tick" \in worker'[v].flags <=> worker'[v].ticks > 0)
      BY <2>7, <3>2 DEF Inv, TicksHold
    <3> QED BY <3>1, <3>3 DEF TicksHold
  <2>16. NoLostWork'
    <3>1. ASSUME NEW x \in Ranges, NEW kind \in Kinds
          PROVE  /\ Announced(kind, x) => Announced(kind, x)'
                 /\ Flagged(kind, x) => Flagged(kind, x)' \/ Taken(kind, x)'
                 /\ Taken(kind, x) => Taken(kind, x)'
      <4>1. Announced(kind, x) => Announced(kind, x)'
        BY <1>0 DEF Announced
      <4>2. Taken(kind, x) => Taken(kind, x)'
        BY <1>0, <2>7 DEF Taken
      <4>3. ASSUME Flagged(kind, x) PROVE Flagged(kind, x)' \/ Taken(kind, x)'
        <5>1. PICK t \in Shards : kind \in state[t][x].flags /\ Owned(t, x)
          BY <4>3 DEF Flagged, Owned
        <5>2. CASE t = s /\ x = id
          <6>1. kind # "Queued"
            BY SchedulerAssumption
          <6>2. kind \in worker'[w].flags /\ worker'[w].pc = "process" /\ worker'[w].id = x
            BY <2>5, <2>7, <5>1, <5>2, <6>1 DEF st
          <6> QED BY <6>2 DEF Taken
        <5>3. CASE ~(t = s /\ x = id)
          BY <2>8, <2>10, <5>1, <5>3 DEF Flagged, Owned
        <5> QED BY <5>2, <5>3
      <4> QED BY <4>1, <4>2, <4>3
    <3> QED BY <1>0, <3>1 DEF Inv, Types, NoLostWork
  <2> QED BY <2>11, <2>12, <2>13, <2>14, <2>15, <2>16 DEF Inv
<1> QED BY <1>1, <1>2 DEF WorkerLoop

(* One call of the processor. *)
LEMMA ProcessStep ==
  ASSUME Inv, NEW w \in Workers, NEW kind \in Kinds \cup {"Ready"}, NEW flags, NEW ticks \in 0 .. MaxTicks,
         flags \subseteq Kinds \cup {"Ready"}, worker[w].flags \ {kind} \subseteq flags,
         "Tick" \in flags <=> ticks > 0,
         Process(w, kind, flags, ticks)
  PROVE  Inv'
<1>1. /\ UNCHANGED <<queue, state, caller>> /\ worker[w].pc = "process"
      /\ worker' = [worker EXCEPT ![w].flags = flags, ![w].ticks = ticks]
      /\ owed' = [owed EXCEPT ![worker[w].id] = @ \ {kind}]
  BY DEF Process
<1>2. worker \in [Workers -> WorkerStates] /\ worker[w].id \in Ranges /\ owed \in [Ranges -> SUBSET Kinds]
  BY <1>1 DEF Inv, Types
<1>3. /\ worker' \in [Workers -> WorkerStates]
      /\ \A v \in Workers : v # w => worker'[v] = worker[v]
      /\ \A v \in Workers : worker'[v].pc = worker[v].pc /\ worker'[v].id = worker[v].id
      /\ worker'[w].flags = flags /\ worker'[w].ticks = ticks
  BY <1>1, <1>2 DEF WorkerStates
<1>4. /\ \A t : Processing(t)' = Processing(t) /\ Processing(t) \subseteq Workers
      /\ \A t, x : InQueue(t, x)' <=> InQueue(t, x)
  BY <1>1, <1>3 DEF Processing, WorkersOf, InQueue
<1>5. Types'
  BY <1>1, <1>2, <1>3 DEF Inv, Types
<1>6. CallsHold'
  BY <1>1 DEF Inv, CallsHold
<1>7. ExclusiveProcessing'
  BY <1>1, <1>3, <1>4 DEF Inv, ExclusiveProcessing
<1>8. FlagsHold'
  BY <1>1, <1>3, <1>4 DEF Inv, FlagsHold, Owned
<1>9. TicksHold'
  BY <1>1, <1>3 DEF Inv, TicksHold
<1>10. NoLostWork'
  <2>1. ASSUME NEW x \in Ranges, NEW k
        PROVE  /\ Announced(k, x) => Announced(k, x)'
               /\ Flagged(k, x) => Flagged(k, x)'
    BY <1>1, <1>3, <1>4 DEF Announced, Flagged
  <2>2. ASSUME NEW x \in Ranges, NEW k \in owed'[x], Taken(k, x) PROVE Taken(k, x)'
    <3>1. PICK v \in Workers : worker[v].pc = "process" /\ worker[v].id = x /\ k \in worker[v].flags
      BY <2>2 DEF Taken
    <3>2. CASE v = w
      <4>1. k # kind
        BY <1>1, <1>2, <2>2, <3>1, <3>2
      <4> QED BY <1>3, <3>1, <3>2, <4>1 DEF Taken
    <3>3. CASE v # w
      BY <1>3, <3>1, <3>3 DEF Taken
    <3> QED BY <3>2, <3>3
  <2>3. \A x \in Ranges : owed'[x] \subseteq owed[x]
    BY <1>1, <1>2
  <2> QED BY <2>1, <2>2, <2>3 DEF Inv, NoLostWork
<1> QED BY <1>5, <1>6, <1>7, <1>8, <1>9, <1>10 DEF Inv

(* A worker is done with a range: it looks at the flags once more. *)
LEMMA WorkerFinishStep ==
  ASSUME Inv, NEW w \in Workers, WorkerFinish(w)
  PROVE  Inv'
<1> DEFINE s == w[1]
           id == worker[w].id
           st == state[s][id]
           requeue == st.flags # {"Queued"}
           new == [pc |-> "loop", id |-> NoRange, flags |-> {}, ticks |-> 0]
<1>0. /\ s \in Shards /\ UNCHANGED <<caller, owed>> /\ worker[w].pc = "process"
      /\ worker[w].flags = {} /\ MaxTicks \in Nat \ {0} /\ id \in Ranges
  BY WorkerTypes, SchedulerAssumption DEF WorkerFinish, Inv, Types
<1>1. /\ state' = IF requeue THEN state ELSE [state EXCEPT ![s][id] = NotScheduled]
      /\ queue' = [queue EXCEPT ![s] = IF requeue THEN Append(@, id) ELSE @]
      /\ worker' = [worker EXCEPT ![w] = new]
  BY DEF WorkerFinish
<1>2. /\ queue \in [Shards -> Seq(Ranges)] /\ state \in [Shards -> [Ranges -> ScheduleStates]]
      /\ worker \in [Workers -> WorkerStates] /\ queue[s] \in Seq(Ranges)
  BY <1>0 DEF Inv, Types
<1>3. \A t \in Shards : /\ Once(queue[t])
                        /\ \A u, v \in Processing(t) : worker[u].id = worker[v].id => u = v
                        /\ \A v \in Processing(t) : ~In(queue[t], worker[v].id)
  BY ExclusiveIff DEF Inv
<1>4. /\ w \in Processing(s) /\ \A t \in Shards : t # s => w \notin Processing(t)
      /\ \A t \in Shards : Processing(t) \subseteq Workers
  BY <1>0 DEF Processing, WorkersOf
<1>5. /\ ~In(queue[s], id) /\ \A v \in Processing(s) : worker[v].id = id => v = w
      /\ "Queued" \in st.flags
  <2>1. Owned(s, id)
    BY <1>4 DEF Owned
  <2> QED BY <1>0, <1>3, <1>4, <2>1 DEF Inv, FlagsHold
<1>6. /\ new \in WorkerStates /\ new.pc = "loop"
      /\ NotScheduled \in ScheduleStates /\ NotScheduled.flags = {} /\ NotScheduled.ticks = 0
  BY <1>0 DEF NotScheduled, ScheduleStates, WorkerStates
<1> HIDE DEF new
<1>7. /\ worker'[w] = new /\ \A v \in Workers : v # w => worker'[v] = worker[v]
      /\ worker' \in [Workers -> WorkerStates]
  BY <1>1, <1>2, <1>6
<1>8. /\ state'[s][id] = IF requeue THEN st ELSE NotScheduled
      /\ \A t \in Shards, x \in Ranges : t # s \/ x # id => state'[t][x] = state[t][x]
      /\ state' \in [Shards -> [Ranges -> ScheduleStates]]
  <2> HIDE DEF s, id, requeue
  <2>1. CASE requeue
    BY <1>1, <1>2, <2>1 DEF s, id
  <2>2. CASE ~requeue
    BY <1>0, <1>1, <1>2, <1>6, <2>2
  <2> QED BY <2>1, <2>2
<1>9. /\ \A t \in Shards : t # s => queue'[t] = queue[t]
      /\ queue' \in [Shards -> Seq(Ranges)] /\ Once(queue'[s])
      /\ \A y : In(queue'[s], y) <=> In(queue[s], y) \/ (requeue /\ y = id)
  <2>1. /\ queue'[s] = IF requeue THEN Append(queue[s], id) ELSE queue[s]
        /\ \A t \in Shards : t # s => queue'[t] = queue[t]
        /\ queue' = [t \in Shards |-> queue'[t]]
    BY <1>0, <1>1, <1>2
  <2>2. CASE requeue
    <3>1. /\ Append(queue[s], id) \in Seq(Ranges) /\ Once(Append(queue[s], id))
          /\ \A y : In(Append(queue[s], id), y) <=> In(queue[s], y) \/ y = id
      BY <1>0, <1>2, <1>3, <1>5, AppendIn
    <3> QED BY <1>2, <2>1, <2>2, <3>1
  <2>3. CASE ~requeue
    BY <1>0, <1>2, <1>3, <2>1, <2>3
  <2> QED BY <2>2, <2>3
<1>10. \A t \in Shards :
         /\ Processing(t)' = Processing(t) \ {w}
         /\ \A v \in Processing(t)' : worker'[v] = worker[v]
  BY <1>0, <1>6, <1>7 DEF Processing, WorkersOf
<1> HIDE DEF st, id, requeue
<1>11. ASSUME NEW t \in Shards, NEW x \in Ranges
       PROVE  Owned(t, x)' <=> Owned(t, x) /\ (t # s \/ x # id \/ requeue)
  <2>1. Owned(t, x) <=> In(queue[t], x) \/ \E v \in Processing(t) : worker[v].id = x
    BY InQueueIn DEF Owned
  <2>2. Owned(t, x)' <=> In(queue'[t], x) \/ \E v \in Processing(t)' : worker'[v].id = x
    BY InQueueIn DEF Owned
  <2>3. CASE t # s
    BY <1>4, <1>9, <1>10, <2>1, <2>2, <2>3
  <2>4. CASE t = s /\ x # id
    <3>1. \A v \in Processing(t) : worker[v].id = x => v # w
      BY <2>4 DEF id
    <3> QED BY <1>9, <1>10, <2>1, <2>2, <2>4, <3>1
  <2>5. CASE t = s /\ x = id
    <3>1. ~\E v \in Processing(t)' : worker'[v].id = x
      BY <1>5, <1>10, <2>5
    <3>2. In(queue'[t], x) <=> requeue
      BY <1>5, <1>9, <2>5
    <3>3. Owned(t, x)
      BY <1>4, <2>1, <2>5 DEF id
    <3> QED BY <2>2, <2>5, <3>1, <3>2, <3>3
  <2> QED BY <2>3, <2>4, <2>5
<1>12. Types'
  BY <1>0, <1>6, <1>7, <1>8, <1>9 DEF Inv, Types
<1>13. CallsHold'
  BY <1>0 DEF Inv, CallsHold
<1>14. ExclusiveProcessing'
  <2>1. ASSUME NEW t \in Shards
        PROVE  /\ Once(queue'[t])
               /\ \A u, v \in Processing(t)' : worker'[u].id = worker'[v].id => u = v
               /\ \A v \in Processing(t)' : ~In(queue'[t], worker'[v].id)
    <3>1. Once(queue'[t])
      BY <1>3, <1>9
    <3>2. \A u, v \in Processing(t)' : worker'[u].id = worker'[v].id => u = v
      BY <1>3, <1>10
    <3>3. ASSUME NEW v \in Processing(t)' PROVE ~In(queue'[t], worker'[v].id)
      <4>1. v \in Processing(t) /\ v # w /\ worker'[v] = worker[v] /\ ~In(queue[t], worker[v].id)
        BY <1>3, <1>10, <3>3
      <4>2. t = s => worker[v].id # id
        BY <1>5, <4>1
      <4> QED BY <1>9, <4>1, <4>2
    <3> QED BY <3>1, <3>2, <3>3
  <2> QED BY <2>1, ExclusiveNext
<1>15. FlagsHold'
  <2>1. ASSUME NEW t \in Shards, NEW x \in Ranges
        PROVE  /\ "Queued" \in state'[t][x].flags <=> Owned(t, x)'
               /\ state'[t][x].flags # {} => "Queued" \in state'[t][x].flags
    <3>1. /\ "Queued" \in state[t][x].flags <=> Owned(t, x)
          /\ state[t][x].flags # {} => "Queued" \in state[t][x].flags
      BY DEF Inv, FlagsHold
    <3>2. CASE t = s /\ x = id
      BY <1>5, <1>6, <1>8, <1>11, <3>1, <3>2 DEF st
    <3>3. CASE ~(t = s /\ x = id)
      BY <1>8, <1>11, <3>1, <3>3
    <3> QED BY <3>2, <3>3
  <2> QED BY <2>1 DEF FlagsHold
<1>16. TicksHold'
  <2>1. \A t \in Shards, x \in Ranges : "Tick" \in state'[t][x].flags <=> state'[t][x].ticks > 0
    BY <1>6, <1>8 DEF Inv, TicksHold, st
  <2>2. \A v \in Workers : worker'[v].pc = "process" =>
          ("Tick" \in worker'[v].flags <=> worker'[v].ticks > 0)
    BY <1>6, <1>7 DEF Inv, TicksHold
  <2> QED BY <2>1, <2>2 DEF TicksHold
<1>17. NoLostWork'
  <2>1. ASSUME NEW x \in Ranges, NEW kind \in Kinds
        PROVE  /\ Announced(kind, x) => Announced(kind, x)'
               /\ Flagged(kind, x) => Flagged(kind, x)'
               /\ Taken(kind, x) => Taken(kind, x)'
    <3>1. Announced(kind, x) => Announced(kind, x)'
      BY <1>0 DEF Announced
    <3>2. Taken(kind, x) => Taken(kind, x)'
      BY <1>0, <1>7 DEF Taken
    <3>3. ASSUME Flagged(kind, x) PROVE Flagged(kind, x)'
      <4>1. PICK t \in Shards : kind \in state[t][x].flags /\ Owned(t, x)
        BY <3>3 DEF Flagged, Owned
      <4>2. kind # "Queued"
        BY SchedulerAssumption
      <4>3. t = s /\ x = id => requeue
        BY <4>1, <4>2 DEF requeue, st
      <4>4. Owned(t, x)' /\ kind \in state'[t][x].flags
        BY <1>8, <1>11, <4>1, <4>3 DEF st
      <4> QED BY <4>4 DEF Flagged, Owned
    <3> QED BY <3>1, <3>2, <3>3
  <2> QED BY <1>0, <2>1 DEF Inv, Types, NoLostWork
<1> QED BY <1>12, <1>13, <1>14, <1>15, <1>16, <1>17 DEF Inv

-----------------------------------------------------------------------------

LEMMA ProcessorSteps ==
  ASSUME Inv, NEW w \in Workers,
         \/ ProcessRequestQueue(w) \/ ProcessTick(w)
         \/ ProcessRACv2PiggybackedAdmitted(w) \/ ProcessReady(w)
  PROVE  Inv'
<1>0. worker[w].flags \subseteq Kinds \cup {"Ready"} /\ worker[w].ticks \in 0 .. MaxTicks
      /\ MaxTicks \in Nat
  BY SchedulerAssumption DEF Inv, Types, WorkerStates
<1>1. worker[w].pc = "process" => ("Tick" \in worker[w].flags <=> worker[w].ticks > 0)
  BY DEF Inv, TicksHold
<1>2. CASE ProcessRequestQueue(w)
  <2>1. PICK ready \in SUBSET {"Ready"} :
          Process(w, "Request", (worker[w].flags \ {"Request"}) \cup ready, worker[w].ticks)
    BY <1>2 DEF ProcessRequestQueue
  <2>2. worker[w].pc = "process" /\ "Request" \in worker[w].flags
    BY <2>1 DEF Process
  <2> DEFINE f == (worker[w].flags \ {"Request"}) \cup ready
  <2>3. /\ f \subseteq Kinds \cup {"Ready"} /\ worker[w].flags \ {"Request"} \subseteq f
        /\ ("Tick" \in f <=> worker[w].ticks > 0) /\ "Request" \in Kinds \cup {"Ready"}
    BY <1>0, <1>1, <2>2
  <2> HIDE DEF f
  <2> QED BY <1>0, <2>1, <2>2, <2>3, ProcessStep DEF f
<1>3. CASE ProcessTick(w)
  <2>1. PICK ready \in SUBSET {"Ready"} :
          Process(w, "Tick", (worker[w].flags \ {"Tick"}) \cup ready, 0)
    BY <1>3 DEF ProcessTick
  <2>2. worker[w].pc = "process" /\ "Tick" \in worker[w].flags
    BY <2>1 DEF Process
  <2> DEFINE f == (worker[w].flags \ {"Tick"}) \cup ready
  <2>3. /\ f \subseteq Kinds \cup {"Ready"} /\ worker[w].flags \ {"Tick"} \subseteq f
        /\ "Tick" \notin f /\ "Tick" \in Kinds \cup {"Ready"}
    BY <1>0, <2>2
  <2>4. ~(0 > 0) /\ 0 \in 0 .. MaxTicks
    BY <1>0
  <2> HIDE DEF f
  <2>5. "Tick" \in f <=> 0 > 0
    BY <2>3, <2>4
  <2> QED BY <2>1, <2>3, <2>4, <2>5, ProcessStep DEF f
<1>4. CASE ProcessRACv2PiggybackedAdmitted(w)
  <2>1. PICK ready \in SUBSET {"Ready"} :
          Process(w, "Piggyback", (worker[w].flags \ {"Piggyback"}) \cup ready, worker[w].ticks)
    BY <1>4 DEF ProcessRACv2PiggybackedAdmitted
  <2>2. worker[w].pc = "process" /\ "Piggyback" \in worker[w].flags
    BY <2>1 DEF Process
  <2> DEFINE f == (worker[w].flags \ {"Piggyback"}) \cup ready
  <2>3. /\ f \subseteq Kinds \cup {"Ready"} /\ worker[w].flags \ {"Piggyback"} \subseteq f
        /\ ("Tick" \in f <=> worker[w].ticks > 0) /\ "Piggyback" \in Kinds \cup {"Ready"}
    BY <1>0, <1>1, <2>2
  <2> HIDE DEF f
  <2> QED BY <1>0, <2>1, <2>2, <2>3, ProcessStep DEF f
<1>5. CASE ProcessReady(w)
  <2>1. worker[w].flags = {"Ready"} /\ Process(w, "Ready", {}, worker[w].ticks)
    BY <1>5 DEF ProcessReady
  <2>2. worker[w].pc = "process"
    BY <2>1 DEF Process
  <2>3. "Tick" \in {} <=> worker[w].ticks > 0
    BY <1>1, <2>1, <2>2
  <2> QED BY <1>0, <2>1, <2>3, ProcessStep
<1> QED BY <1>2, <1>3, <1>4, <1>5

LEMMA NextInv == Inv /\ [Next]_schedVars => Inv'
<1> SUFFICES ASSUME Inv, [Next]_schedVars PROVE Inv'
  OBVIOUS
<1>1. ASSUME UNCHANGED <<queue, state, owed, worker, caller>> PROVE Inv'
  BY <1>1, CallersStay, WorkersStay, QuietStep
<1>2. ASSUME NEW e \in Enqueuers, EnqueueOne(e) \/ EnqueueBatch(e) PROVE Inv'
  <2>1. PICK kind \in Kinds, ids \in Seq(Ranges) : BeginCall(e, kind, ids)
    <3>1. CASE EnqueueOne(e)
      <4>1. PICK kind \in Kinds \ {"Tick"}, id \in Ranges : BeginCall(e, kind, <<id>>)
        BY <3>1 DEF EnqueueOne
      <4>2. <<id>> \in Seq(Ranges)
        OBVIOUS
      <4> QED BY <4>1, <4>2
    <3>2. CASE EnqueueBatch(e)
      <4>1. PICK kind \in Kinds \cap {"Tick", "Request"}, ids \in Batches :
              BeginCall(e, kind, ids)
        BY <3>2 DEF EnqueueBatch
      <4>2. ids \in Seq(Ranges)
        BY SchedulerAssumption
      <4> QED BY <4>1, <4>2
    <3> QED BY <1>2, <3>1, <3>2
  <2> QED BY <2>1, BeginCallStep
<1>3. ASSUME NEW e \in Enqueuers, CallerStep(e) PROVE Inv'
  BY <1>3, Enqueue1LockedStep, SkipShardStep, SignalStep DEF CallerStep
<1>4. ASSUME NEW w \in Workers, StartWorker(w) \/ WorkerStep(w) PROVE Inv'
  BY <1>4, StartWorkerStep, WorkerLoopStep, ProcessorSteps, WorkerFinishStep DEF WorkerStep
<1>5. ASSUME NEW id, AddPriorityID(id) \/ RemovePriorityID(id) PROVE Inv'
  BY <1>1, <1>5 DEF AddPriorityID, RemovePriorityID
<1>6. ASSUME Quiesce PROVE Inv'
  BY <1>1, <1>6 DEF Quiesce
<1>7. ASSUME StopShard PROVE Inv'
  BY <1>7, StopShardStep
<1>8. ASSUME UNCHANGED schedVars PROVE Inv'
  BY <1>1, <1>8 DEF schedVars
<1> QED BY <1>2, <1>3, <1>4, <1>5, <1>6, <1>7, <1>8 DEF Next

-----------------------------------------------------------------------------

(* However Enqueue* calls and workers interleave, no range of a shard is   *)
(* processed by two workers, queued twice, or queued while it is processed *)
(* (scheduler.go: enqueue1Locked, worker).                                 *)
THEOREM ProcessingIsExclusive == Spec => []ExclusiveProcessing
<1>1. Spec => []Inv
  BY InitInv, NextInv, PTL DEF Spec
<1>2. Inv => ExclusiveProcessing
  BY DEF Inv
<1> QED BY <1>1, <1>2, PTL

(* No flag is lost: what was enqueued is processed later, or is with       *)
(* someone who will see to it (scheduler.go: the early return of           *)
(* enqueue1Locked, and the end of the loop of worker).                     *)
THEOREM WorkIsNotLost == Spec => []NoLostWork
<1>1. Spec => []Inv
  BY InitInv, NextInv, PTL DEF Spec
<1>2. Inv => NoLostWork
  BY DEF Inv
<1> QED BY <1>1, <1>2, PTL

(* The assertion of worker on ticks never fails: a worker has the tick     *)
(* flag if and only if it has ticks to process (scheduler.go, worker:      *)
(* "assert the ticks invariant").                                          *)
THEOREM TicksMatchFlags == Spec => []TicksHold
<1>1. Spec => []Inv
  BY InitInv, NextInv, PTL DEF Spec
<1>2. Inv => TicksHold
  BY DEF Inv
<1> QED BY <1>1, <1>2, PTL

-----------------------------------------------------------------------------
(* OptimalConcurrency. A worker goes to sleep only when the queue is empty, *)
(* and whoever pushes a range counts a signal for it; so signals and awake *)
(* workers together are enough for the ranges that are queued or           *)
(* processed, until the shards are stopped.                                *)

Awake(s) == WorkersOf(s) \ Asleep(s)

(* A call that counts signals has something left to enqueue in its shard,  *)
(* or signals next.                                                        *)
CountsHold ==
  \A e \in Enqueuers :
    \/ caller[e].count = 0
    \/ caller[e].pc = "enqueue" /\ Left(caller[e]) # {}
    \/ caller[e].pc = "signal"

(* No worker is done before the stopper quiesces. *)
RunningHolds ==
  \/ quiescing
  \/ /\ \A s \in Shards : ~stopped[s]
     /\ \A w \in Workers : worker[w].pc # "done"

SignalsFinite == \A s \in Shards : IsFiniteSet(PendingSignals(s))

ConcurrencyInv == Inv /\ CountsHold /\ RunningHolds /\ SignalsFinite /\ OptimalConcurrency

LEMMA ShardWorkersType ==
  \A s \in Shards : ShardWorkers(s) \in 1 .. NumWorkers + PriorityWorkers + 1
<1> SUFFICES ASSUME NEW s \in Shards
             PROVE  ShardWorkers(s) \in 1 .. NumWorkers + PriorityWorkers + 1
  OBVIOUS
<1>1. NumWorkers \in Nat /\ PriorityWorkers \in Nat /\ RegularShards \in Nat \ {0}
  BY SchedulerAssumption, ShardTypes
<1>2. \A n, r \in Nat : r # 0 => n \div r \in 0 .. n
  <2> SUFFICES ASSUME NEW n \in Nat, NEW r \in Nat, r # 0 PROVE n \div r \in 0 .. n
    OBVIOUS
  <2> DEFINE q == n \div r
  <2>1. q \in Nat /\ n = r * q + (n % r) /\ n % r \in Nat
    OBVIOUS
  <2> HIDE DEF q
  <2>2. r * q >= q
    BY <2>1
  <2> QED BY <2>1, <2>2 DEF q
<1>3. NumWorkers \div RegularShards \in 0 .. NumWorkers
  BY <1>1, <1>2
<1> QED BY <1>1, <1>3 DEF ShardWorkers, AtLeastOne

LEMMA WorkersOfShard ==
  \A s \in Shards : /\ ShardWorkers(s) \in Nat \ {0}
                    /\ IsFiniteSet(WorkersOf(s))
                    /\ Cardinality(WorkersOf(s)) = ShardWorkers(s)
<1> SUFFICES ASSUME NEW s \in Shards
             PROVE  /\ ShardWorkers(s) \in Nat \ {0}
                    /\ IsFiniteSet(WorkersOf(s))
                    /\ Cardinality(WorkersOf(s)) = ShardWorkers(s)
  OBVIOUS
<1> DEFINE n == ShardWorkers(s)
<1>1. n \in Nat \ {0} /\ n <= NumWorkers + PriorityWorkers + 1
      /\ NumWorkers + PriorityWorkers + 1 \in Nat
  BY ShardWorkersType, SchedulerAssumption
<1>2. WorkersOf(s) = {s} \X (1 .. n)
  <2>1. \A w \in WorkersOf(s) : w \in {s} \X (1 .. n)
    BY <1>1 DEF WorkersOf, Workers
  <2>2. ASSUME NEW w \in {s} \X (1 .. n) PROVE w \in WorkersOf(s)
    BY <1>1, <2>2 DEF WorkersOf, Workers
  <2> QED BY <2>1, <2>2
<1> HIDE DEF n
<1>3. IsFiniteSet(1 .. n) /\ Cardinality(1 .. n) = n
  BY <1>1, FS_Interval
<1>4. IsFiniteSet({s}) /\ Cardinality({s}) = 1
  BY FS_Singleton
<1>5. IsFiniteSet({s} \X (1 .. n)) /\ Cardinality({s} \X (1 .. n)) = Cardinality({s}) * Cardinality(1 .. n)
  BY <1>3, <1>4, FS_Product
<1> QED BY <1>1, <1>2, <1>3, <1>4, <1>5 DEF n

LEMMA MinOfTwo ==
  \A a, b, n \in Nat : n >= Min({a, b}) <=> n >= a \/ n >= b
<1> SUFFICES ASSUME NEW a \in Nat, NEW b \in Nat, NEW n \in Nat
             PROVE  n >= Min({a, b}) <=> n >= a \/ n >= b
  OBVIOUS
<1>1. \E x \in {a, b} : \A y \in {a, b} : x =< y
  <2>1. CASE a <= b
    BY <2>1
  <2>2. CASE b <= a
    BY <2>2
  <2> QED BY <2>1, <2>2
<1>2. Min({a, b}) \in {a, b} /\ \A y \in {a, b} : Min({a, b}) =< y
  BY <1>1 DEF Min
<1> QED BY <1>2

LEMMA ProcessingAwake ==
  ASSUME Inv, NEW s \in Shards
  PROVE  /\ IsFiniteSet(Awake(s)) /\ Cardinality(Awake(s)) \in Nat
         /\ IsFiniteSet(Processing(s)) /\ Cardinality(Processing(s)) \in Nat
         /\ Cardinality(Processing(s)) <= Cardinality(Awake(s))
         /\ Cardinality(Awake(s)) <= ShardWorkers(s)
         /\ Len(queue[s]) \in Nat
<1>1. Processing(s) \in SUBSET Awake(s) /\ Awake(s) \in SUBSET WorkersOf(s)
  BY DEF Processing, Awake, Asleep
<1>2. /\ IsFiniteSet(Awake(s)) /\ Cardinality(Awake(s)) \in Nat
      /\ Cardinality(Awake(s)) <= ShardWorkers(s)
  BY <1>1, WorkersOfShard, FS_Subset, FS_CardinalityType
<1>3. IsFiniteSet(Processing(s)) /\ Cardinality(Processing(s)) <= Cardinality(Awake(s))
  BY <1>1, <1>2, FS_Subset
<1>4. Cardinality(Processing(s)) \in Nat
  BY <1>3, FS_CardinalityType
<1>5. Len(queue[s]) \in Nat
  BY DEF Inv, Types
<1> QED BY <1>2, <1>3, <1>4, <1>5

(* OptimalConcurrency without Min. *)
EnoughAwake(s) ==
  \/ Cardinality(Awake(s)) + Cardinality(PendingSignals(s)) >= ShardWorkers(s)
  \/ Cardinality(Awake(s)) + Cardinality(PendingSignals(s))
       >= Len(queue[s]) + Cardinality(Processing(s))

LEMMA OptimalIff ==
  ASSUME Inv, SignalsFinite
  PROVE  OptimalConcurrency <=> (~quiescing => \A s \in Shards : EnoughAwake(s))
<1>1. ASSUME NEW s \in Shards
      PROVE  Cardinality(WorkersOf(s) \ Asleep(s)) + Cardinality(PendingSignals(s))
                 >= Min({ShardWorkers(s), Len(queue[s]) + Cardinality(Processing(s))})
               <=> EnoughAwake(s)
  <2>1. /\ Cardinality(Awake(s)) + Cardinality(PendingSignals(s)) \in Nat
        /\ ShardWorkers(s) \in Nat
        /\ Len(queue[s]) + Cardinality(Processing(s)) \in Nat
    <3>1. Cardinality(PendingSignals(s)) \in Nat
      BY FS_CardinalityType DEF SignalsFinite
    <3>2. Cardinality(Awake(s)) \in Nat /\ Cardinality(Processing(s)) \in Nat
          /\ Len(queue[s]) \in Nat
      BY ProcessingAwake
    <3>3. ShardWorkers(s) \in Nat
      BY WorkersOfShard
    <3> QED BY <3>1, <3>2, <3>3
  <2> DEFINE l == Cardinality(Awake(s)) + Cardinality(PendingSignals(s))
             q == Len(queue[s]) + Cardinality(Processing(s))
  <2>2. l >= Min({ShardWorkers(s), q}) <=> l >= ShardWorkers(s) \/ l >= q
    <3> HIDE DEF l, q
    <3> QED BY <2>1, MinOfTwo DEF l, q
  <2> QED BY <2>2 DEF EnoughAwake, Awake
<1> QED BY <1>1 DEF OptimalConcurrency

LEMMA OptimalPrimed ==
  (Inv /\ SignalsFinite =>
     (OptimalConcurrency <=> (~quiescing => \A s \in Shards : EnoughAwake(s))))'
<1>1. Inv /\ SignalsFinite =>
        (OptimalConcurrency <=> (~quiescing => \A s \in Shards : EnoughAwake(s)))
  BY OptimalIff
<1> QED BY <1>1, PTL

LEMMA InPending ==
  /\ \A s, p : p \in PendingSignals(s) <=>
       \E e \in Enqueuers : /\ caller[e].shard = s
                            /\ p \in {e} \X (1 .. caller[e].count)
  /\ \A s, p : p \in PendingSignals(s)' <=>
       \E e \in Enqueuers : /\ caller'[e].shard = s
                            /\ p \in {e} \X (1 .. caller'[e].count)
BY DEF PendingSignals

(* What is left of the pending signals when one caller moves. *)
LEMMA OneCallerMoves ==
  ASSUME caller \in [Enqueuers -> Calls], NEW e \in Enqueuers, NEW c \in Calls,
         caller' = [caller EXCEPT ![e] = c], NEW s
  PROVE  /\ c.count = 0 /\ (caller[e].count = 0 \/ caller[e].shard # s) =>
              PendingSignals(s)' = PendingSignals(s)
         /\ c.count = 0 => PendingSignals(s)' \subseteq PendingSignals(s)
         /\ (c.shard = caller[e].shard /\ (c.count = caller[e].count \/ c.shard # s)) =>
              PendingSignals(s)' = PendingSignals(s)
         /\ (c.shard = caller[e].shard /\ c.shard = s /\ c.count = caller[e].count + 1) =>
              /\ PendingSignals(s)' = PendingSignals(s) \cup {<<e, c.count>>}
              /\ <<e, c.count>> \notin PendingSignals(s)
         /\ (c.shard = caller[e].shard /\ c.shard = s /\ c.count = caller[e].count - 1) =>
              /\ PendingSignals(s)' = PendingSignals(s) \ {<<e, caller[e].count>>}
              /\ <<e, caller[e].count>> \in PendingSignals(s)
<1>1. /\ \A x \in Enqueuers \ {e} : caller'[x] = caller[x]
      /\ caller'[e] = c
      /\ caller[e].count \in Nat /\ c.count \in Nat
  BY DEF Calls
<1>2. \A p : p \in PendingSignals(s) <=>
        \E x \in Enqueuers : caller[x].shard = s /\ p \in {x} \X (1 .. caller[x].count)
  BY InPending
<1>3. \A p : p \in PendingSignals(s)' <=>
        \E x \in Enqueuers : caller'[x].shard = s /\ p \in {x} \X (1 .. caller'[x].count)
  BY InPending
<1> DEFINE rest == UNION {{x} \X (1 .. caller[x].count) : x \in {y \in Enqueuers \ {e} : caller[y].shard = s}}
<1>4. \A p : p \in rest <=>
        \E x \in Enqueuers \ {e} : caller[x].shard = s /\ p \in {x} \X (1 .. caller[x].count)
  OBVIOUS
<1>5. \A n : <<e, n>> \notin rest
  BY <1>4
<1> HIDE DEF rest
<1>6. PendingSignals(s) = IF caller[e].shard = s THEN rest \cup ({e} \X (1 .. caller[e].count)) ELSE rest
  BY <1>2, <1>4
<1>7. PendingSignals(s)' = IF c.shard = s THEN rest \cup ({e} \X (1 .. c.count)) ELSE rest
  BY <1>1, <1>3, <1>4
<1>8. {e} \X (1 .. 0) = {}
  OBVIOUS
<1>9. c.count = 0 /\ (caller[e].count = 0 \/ caller[e].shard # s) =>
        PendingSignals(s)' = PendingSignals(s)
  BY <1>6, <1>7, <1>8
<1>10. c.count = 0 => PendingSignals(s)' \subseteq PendingSignals(s)
  BY <1>6, <1>7, <1>8
<1>11. (c.shard = caller[e].shard /\ (c.count = caller[e].count \/ c.shard # s)) =>
         PendingSignals(s)' = PendingSignals(s)
  BY <1>6, <1>7
<1>12. \A n \in Nat : /\ {e} \X (1 .. n + 1) = ({e} \X (1 .. n)) \cup {<<e, n + 1>>}
                      /\ <<e, n + 1>> \notin {e} \X (1 .. n)
  <2> SUFFICES ASSUME NEW n \in Nat
               PROVE  /\ {e} \X (1 .. n + 1) = ({e} \X (1 .. n)) \cup {<<e, n + 1>>}
                      /\ <<e, n + 1>> \notin {e} \X (1 .. n)
    OBVIOUS
  <2>1. 1 .. n + 1 = (1 .. n) \cup {n + 1} /\ n + 1 \notin 1 .. n
    OBVIOUS
  <2> QED BY <2>1
<1>13. (c.shard = caller[e].shard /\ c.shard = s /\ c.count = caller[e].count + 1) =>
         /\ PendingSignals(s)' = PendingSignals(s) \cup {<<e, c.count>>}
         /\ <<e, c.count>> \notin PendingSignals(s)
  BY <1>1, <1>5, <1>6, <1>7, <1>12
<1>14. (c.shard = caller[e].shard /\ c.shard = s /\ c.count = caller[e].count - 1) =>
         /\ PendingSignals(s)' = PendingSignals(s) \ {<<e, caller[e].count>>}
         /\ <<e, caller[e].count>> \in PendingSignals(s)
  <2> SUFFICES ASSUME c.shard = caller[e].shard, c.shard = s, c.count = caller[e].count - 1
               PROVE  /\ PendingSignals(s)' = PendingSignals(s) \ {<<e, caller[e].count>>}
                      /\ <<e, caller[e].count>> \in PendingSignals(s)
    OBVIOUS
  <2>1. caller[e].count = c.count + 1
    BY <1>1
  <2> DEFINE mine(n) == {e} \X (1 .. n)
  <2>2. mine(caller[e].count) = mine(c.count) \cup {<<e, caller[e].count>>}
        /\ <<e, caller[e].count>> \notin mine(c.count)
    BY <1>1, <1>12, <2>1
  <2>3. PendingSignals(s) = rest \cup mine(caller[e].count) /\ PendingSignals(s)' = rest \cup mine(c.count)
    BY <1>6, <1>7
  <2> HIDE DEF mine
  <2> QED BY <1>5, <2>2, <2>3
<1> QED BY <1>9, <1>10, <1>11, <1>13, <1>14

LEMMA InitConcurrency == Init => ConcurrencyInv
<1> SUFFICES ASSUME Init PROVE ConcurrencyInv
  OBVIOUS
<1>1. Inv
  BY InitInv
<1>2. CountsHold /\ RunningHolds
  BY DEF Init, CountsHold, RunningHolds, NoCall
<1>3. \A s : PendingSignals(s) = {}
  <2>1. \A e \in Enqueuers : caller[e].count = 0
    BY DEF Init, NoCall
  <2> QED BY <2>1, InPending
<1>4. SignalsFinite
  BY <1>3, FS_EmptySet DEF SignalsFinite
<1>5. ASSUME NEW s \in Shards PROVE EnoughAwake(s)
  <2>1. Awake(s) = WorkersOf(s)
    BY DEF Init, Awake, Asleep, WorkersOf
  <2>2. Cardinality(PendingSignals(s)) = 0
    BY <1>3, FS_EmptySet
  <2>3. Cardinality(Awake(s)) = ShardWorkers(s) /\ ShardWorkers(s) \in Nat
    BY <2>1, WorkersOfShard
  <2> QED BY <2>2, <2>3 DEF EnoughAwake
<1>6. OptimalConcurrency
  BY <1>1, <1>4, <1>5, OptimalIff
<1> QED BY <1>1, <1>2, <1>4, <1>6 DEF ConcurrencyInv

(* The numbers EnoughAwake compares, before and after a step. *)
LEMMA Numbers ==
  ASSUME Inv, Inv', SignalsFinite, SignalsFinite', NEW s \in Shards
  PROVE  /\ Cardinality(Awake(s)) \in Nat /\ Cardinality(Awake(s))' \in Nat
         /\ Cardinality(Processing(s)) \in Nat /\ Cardinality(Processing(s))' \in Nat
         /\ Cardinality(PendingSignals(s)) \in Nat /\ Cardinality(PendingSignals(s))' \in Nat
         /\ Len(queue[s]) \in Nat /\ Len(queue'[s]) \in Nat
         /\ IsFiniteSet(Awake(s)) /\ IsFiniteSet(Awake(s))'
         /\ IsFiniteSet(Processing(s)) /\ IsFiniteSet(Processing(s))'
         /\ IsFiniteSet(PendingSignals(s)) /\ IsFiniteSet(PendingSignals(s))'
         /\ ShardWorkers(s) \in Nat
<1>1. \A t \in Shards : /\ IsFiniteSet(Awake(t)) /\ IsFiniteSet(Awake(t))'
                        /\ IsFiniteSet(Processing(t)) /\ IsFiniteSet(Processing(t))'
  <2>1. \A t \in Shards : /\ Awake(t) \in SUBSET WorkersOf(t) /\ Awake(t)' \in SUBSET WorkersOf(t)
                          /\ Processing(t) \in SUBSET WorkersOf(t)
                          /\ Processing(t)' \in SUBSET WorkersOf(t)
    BY DEF Awake, Processing, WorkersOf
  <2> QED BY <2>1, WorkersOfShard, FS_Subset
<1>2. IsFiniteSet(PendingSignals(s)) /\ IsFiniteSet(PendingSignals(s)')
  BY DEF SignalsFinite
<1>3. Len(queue[s]) \in Nat /\ Len(queue'[s]) \in Nat
  BY DEF Inv, Types
<1> QED BY <1>1, <1>2, <1>3, WorkersOfShard, FS_CardinalityType

LEMMA ConcurrencyKept ==
  ASSUME ConcurrencyInv, Inv', CountsHold', RunningHolds', SignalsFinite',
         ASSUME NEW s \in Shards, EnoughAwake(s), ~quiescing' PROVE EnoughAwake(s)',
         quiescing => quiescing'
  PROVE  ConcurrencyInv'
<1>1. ~quiescing => \A s \in Shards : EnoughAwake(s)
  BY OptimalIff DEF ConcurrencyInv
<1>2. ~quiescing' => \A s \in Shards : EnoughAwake(s)'
  BY <1>1
<1>3. OptimalConcurrency'
  BY <1>2, OptimalPrimed
<1> QED BY <1>3 DEF ConcurrencyInv

(* Steps that only move workers between awake places, or nothing. *)
LEMMA SameNumbers ==
  ASSUME NEW s, EnoughAwake(s), PendingSignals(s)' = PendingSignals(s),
         Awake(s)' = Awake(s), Processing(s)' = Processing(s), queue'[s] = queue[s]
  PROVE  EnoughAwake(s)'
BY DEF EnoughAwake

LEMMA SameWorkers ==
  ASSUME UNCHANGED worker
  PROVE  \A s : Awake(s)' = Awake(s) /\ Processing(s)' = Processing(s)
BY DEF Awake, Asleep, Processing, WorkersOf

LEMMA SameCallers ==
  ASSUME UNCHANGED caller
  PROVE  /\ \A s : PendingSignals(s)' = PendingSignals(s)
         /\ CountsHold => CountsHold'
         /\ SignalsFinite => SignalsFinite'
<1>1. \A s : PendingSignals(s)' = PendingSignals(s)
  BY DEF PendingSignals
<1>2. CountsHold => CountsHold'
  BY DEF CountsHold
<1>3. SignalsFinite => SignalsFinite'
  BY <1>1 DEF SignalsFinite
<1> QED BY <1>1, <1>2, <1>3

LEMMA RunningKept ==
  ASSUME RunningHolds, UNCHANGED <<worker, stopped, quiescing>>
  PROVE  RunningHolds'
BY DEF RunningHolds

(* A call that begins, or goes on to another shard, counts no signal. *)
LEMMA UncountedStep ==
  ASSUME ConcurrencyInv, Inv', NEW e \in Enqueuers, NEW c \in Calls,
         caller' = [caller EXCEPT ![e] = c], caller[e].count = 0, c.count = 0,
         UNCHANGED <<queue, worker, stopped, quiescing>>
  PROVE  ConcurrencyInv'
<1>0. caller \in [Enqueuers -> Calls]
  BY DEF ConcurrencyInv, Inv, Types
<1>1. \A s : PendingSignals(s)' = PendingSignals(s)
  BY <1>0, OneCallerMoves
<1>2. SignalsFinite'
  BY <1>1 DEF ConcurrencyInv, SignalsFinite
<1>3. CountsHold'
  BY <1>0 DEF ConcurrencyInv, CountsHold
<1>4. RunningHolds'
  BY RunningKept DEF ConcurrencyInv
<1>5. ASSUME NEW s \in Shards, EnoughAwake(s) PROVE EnoughAwake(s)'
  BY <1>1, <1>5, SameWorkers, SameNumbers
<1> QED BY <1>2, <1>3, <1>4, <1>5, ConcurrencyKept

LEMMA NextShardCount == ASSUME NEW c \in Calls PROVE NextShard(c).count = 0
BY DEF NextShard, NoCall, Calls

LEMMA BeginCallConcurrency ==
  ASSUME ConcurrencyInv, Inv', NEW e \in Enqueuers, NEW kind \in Kinds, NEW ids \in Seq(Ranges),
         BeginCall(e, kind, ids)
  PROVE  ConcurrencyInv'
<1> DEFINE sh == [k \in DOMAIN ids |-> ShardIndex(ids[k], priorityIDs)]
           c == [NoCall EXCEPT !.pc = "enqueue", !.kind = kind, !.ids = ids, !.shards = sh]
<1>1. caller' = [caller EXCEPT ![e] = c] /\ caller[e].pc = "idle"
  BY DEF BeginCall
<1>2. caller \in [Enqueuers -> Calls] /\ caller' \in [Enqueuers -> Calls]
  BY DEF ConcurrencyInv, Inv, Types
<1>3. c \in Calls
  <2> HIDE DEF c
  <2> QED BY <1>1, <1>2
<1>4. c.count = 0
  BY DEF NoCall
<1>5. caller[e].count = 0
  BY <1>1 DEF ConcurrencyInv, CountsHold
<1>6. UNCHANGED <<queue, worker, stopped, quiescing>>
  BY DEF BeginCall
<1> HIDE DEF c
<1> QED BY <1>1, <1>3, <1>4, <1>5, <1>6, UncountedStep

LEMMA SkipShardConcurrency ==
  ASSUME ConcurrencyInv, Inv', NEW e \in Enqueuers, SkipShard(e)
  PROVE  ConcurrencyInv'
<1>1. /\ caller \in [Enqueuers -> Calls] /\ caller' \in [Enqueuers -> Calls]
      /\ caller' = [caller EXCEPT ![e] = NextShard(caller[e])]
      /\ caller[e].pc = "enqueue" /\ Left(caller[e]) = {}
      /\ UNCHANGED <<queue, worker, stopped, quiescing>>
  BY DEF ConcurrencyInv, Inv, Types, SkipShard
<1>2. NextShard(caller[e]) \in Calls /\ NextShard(caller[e]).count = 0
  BY <1>1, NextShardCount
<1>3. caller[e].count = 0
  BY <1>1 DEF ConcurrencyInv, CountsHold
<1> QED BY <1>1, <1>2, <1>3, UncountedStep

(* A range that is pushed comes with a signal. *)
LEMMA Enqueue1LockedConcurrency ==
  ASSUME ConcurrencyInv, Inv', NEW e \in Enqueuers, Enqueue1Locked(e)
  PROVE  ConcurrencyInv'
<1> DEFINE c == caller[e]
<1>0. PICK s \in Shards : s = c.shard
  BY DEF ConcurrencyInv, Inv, Types, Calls
<1>1. PICK k \in Left(c), pushed \in BOOLEAN :
        /\ \A j \in Left(c) : k <= j
        /\ queue' = [queue EXCEPT ![s] = IF pushed THEN Append(@, c.ids[k]) ELSE @]
        /\ caller' = [caller EXCEPT ![e] =
             [c EXCEPT !.next = k + 1,
                       !.i = (c.i + 1) % ChunkSize,
                       !.count = IF pushed THEN c.count + 1 ELSE c.count,
                       !.pc = IF Left(c) = {k} THEN "signal" ELSE "enqueue"]]
  <2>1. PICK k \in Left(c) :
        /\ \A j \in Left(c) : k <= j
        /\ queue' = [queue EXCEPT ![s] = IF NewlyQueued(state[s][c.ids[k]], c.kind)
                                         THEN Append(@, c.ids[k]) ELSE @]
        /\ caller' = [caller EXCEPT ![e] =
             [c EXCEPT !.next = k + 1,
                       !.i = (c.i + 1) % ChunkSize,
                       !.count = IF NewlyQueued(state[s][c.ids[k]], c.kind)
                                 THEN c.count + 1 ELSE c.count,
                       !.pc = IF Left(c) = {k} THEN "signal" ELSE "enqueue"]]
    BY <1>0 DEF Enqueue1Locked
  <2>2. NewlyQueued(state[s][c.ids[k]], c.kind) \in BOOLEAN
    BY DEF NewlyQueued
  <2> QED BY <2>1, <2>2
<1> DEFINE n == [c EXCEPT !.next = k + 1,
                          !.i = (c.i + 1) % ChunkSize,
                          !.count = IF pushed THEN c.count + 1 ELSE c.count,
                          !.pc = IF Left(c) = {k} THEN "signal" ELSE "enqueue"]
<1>2. /\ caller \in [Enqueuers -> Calls] /\ caller' \in [Enqueuers -> Calls]
      /\ caller' = [caller EXCEPT ![e] = n] /\ c \in Calls
      /\ UNCHANGED <<worker, stopped, quiescing>> /\ c.pc = "enqueue"
      /\ queue \in [Shards -> Seq(Ranges)] /\ s \in Shards
  BY <1>0, <1>1 DEF ConcurrencyInv, Inv, Types, Enqueue1Locked, Calls
<1>3. n \in Calls
  <2> HIDE DEF n
  <2> QED BY <1>2
<1>4. /\ n.shard = s /\ n.count = IF pushed THEN c.count + 1 ELSE c.count
      /\ n.ids = c.ids /\ n.shards = c.shards /\ n.next = k + 1
      /\ n.pc = IF Left(c) = {k} THEN "signal" ELSE "enqueue"
      /\ c.count \in Nat
  <2> HIDE DEF c
  <2> QED BY <1>0, <1>2 DEF Calls
<1> HIDE DEF n
<1>5. c.ids[k] \in Ranges /\ k \in Nat /\ \A j \in DOMAIN c.ids : j \in Nat
  <2>1. c.ids \in Seq(Ranges) /\ k \in DOMAIN c.ids
    BY <1>2 DEF Calls, Left
  <2> QED BY <2>1
<1>6. n.pc = "enqueue" => Left(n) # {}
  <2> SUFFICES ASSUME n.pc = "enqueue" PROVE Left(n) # {}
    OBVIOUS
  <2>1. PICK j \in Left(c) : j # k
    BY <1>4
  <2>2. j >= k + 1 /\ j \in DOMAIN c.ids /\ c.shards[j] = s
    BY <1>0, <1>1, <1>5, <2>1 DEF Left
  <2> QED BY <1>0, <1>4, <2>2 DEF Left
<1>7. CountsHold'
  <2>1. n.pc \in {"signal", "enqueue"}
    BY <1>4
  <2> QED BY <1>2, <1>6, <2>1 DEF ConcurrencyInv, CountsHold
<1>8. \A t : t # s \/ ~pushed => PendingSignals(t)' = PendingSignals(t)
  <2>1. \A t : t # s \/ ~pushed => n.shard = caller[e].shard /\ (n.count = caller[e].count \/ n.shard # t)
    BY <1>0, <1>4
  <2> HIDE DEF c
  <2> QED BY <1>2, <1>3, <2>1, OneCallerMoves
<1>9. pushed => /\ PendingSignals(s)' = PendingSignals(s) \cup {<<e, n.count>>}
                /\ <<e, n.count>> \notin PendingSignals(s)
  <2>1. pushed => n.shard = caller[e].shard /\ n.shard = s /\ n.count = caller[e].count + 1
    BY <1>0, <1>4
  <2> HIDE DEF c
  <2> QED BY <1>2, <1>3, <2>1, OneCallerMoves
<1>10. pushed => /\ IsFiniteSet(PendingSignals(s)')
                 /\ Cardinality(PendingSignals(s)') = Cardinality(PendingSignals(s)) + 1
  <2>1. IsFiniteSet(PendingSignals(s))
    BY <1>2 DEF ConcurrencyInv, SignalsFinite
  <2> QED BY <1>9, <2>1, FS_AddElement
<1>11. SignalsFinite'
  BY <1>8, <1>10 DEF ConcurrencyInv, SignalsFinite
<1>12. RunningHolds'
  BY <1>2, RunningKept DEF ConcurrencyInv
<1>13. ASSUME NEW t \in Shards, EnoughAwake(t) PROVE EnoughAwake(t)'
  <2>1. CASE t # s \/ ~pushed
    <3>1. queue'[t] = queue[t]
      BY <1>1, <1>2, <2>1
    <3> QED BY <1>2, <1>8, <1>13, <2>1, <3>1, SameWorkers, SameNumbers
  <2>2. CASE t = s /\ pushed
    <3>1. Len(queue'[t]) = Len(queue[t]) + 1
      BY <1>1, <1>2, <1>5, <2>2
    <3>2. Awake(t)' = Awake(t) /\ Processing(t)' = Processing(t)
      BY <1>2, SameWorkers
    <3>3. /\ Cardinality(Awake(t)) \in Nat /\ Cardinality(Processing(t)) \in Nat
          /\ Cardinality(PendingSignals(t)) \in Nat /\ Len(queue[t]) \in Nat
          /\ ShardWorkers(t) \in Nat
      BY <1>11, Numbers DEF ConcurrencyInv
    <3>4. Cardinality(PendingSignals(t)') = Cardinality(PendingSignals(t)) + 1
      BY <1>10, <2>2
    <3>5. /\ Cardinality(Awake(t)') = Cardinality(Awake(t))
          /\ Cardinality(Processing(t)') = Cardinality(Processing(t))
      BY <3>2
    <3> QED BY <1>13, <3>1, <3>3, <3>4, <3>5 DEF EnoughAwake
  <2> QED BY <2>1, <2>2
<1> QED BY <1>2, <1>7, <1>11, <1>12, <1>13, ConcurrencyKept

LEMMA WakeConcurrency ==
  ASSUME Inv, NEW s \in Shards, NEW ws \in SUBSET Waiting(s), Wake(ws)
  PROVE  /\ \A t \in Shards : Processing(t)' = Processing(t)
         /\ Awake(s)' = Awake(s) \cup ws
         /\ ws \cap Awake(s) = {}
         /\ \A t \in Shards : t # s => Awake(t)' = Awake(t)
         /\ \A w \in Workers : worker'[w].pc = "done" => worker[w].pc = "done"
<1>1. /\ \A w \in ws : w \in Workers /\ w[1] = s /\ worker[w].pc = "wait"
      /\ \A w \in Workers : worker[w] \in WorkerStates
  BY DEF Waiting, WorkersOf, Inv, Types
<1>2. /\ \A w \in ws : worker'[w].pc = "lock"
      /\ \A w \in Workers \ ws : worker'[w] = worker[w]
  BY <1>1 DEF Wake, WorkerStates
<1>3. \A t \in Shards : Processing(t)' = Processing(t)
  BY <1>1, <1>2 DEF Processing, WorkersOf
<1>4. Awake(s)' = Awake(s) \cup ws
  BY <1>1, <1>2 DEF Awake, Asleep, WorkersOf
<1>5. ws \cap Awake(s) = {}
  BY <1>1 DEF Awake, Asleep, WorkersOf
<1>6. \A t \in Shards : t # s => Awake(t)' = Awake(t)
  BY <1>1, <1>2 DEF Awake, Asleep, WorkersOf
<1>7. \A w \in Workers : worker'[w].pc = "done" => worker[w].pc = "done"
  BY <1>2
<1> QED BY <1>3, <1>4, <1>5, <1>6, <1>7

LEMMA AllAwake ==
  ASSUME NEW s \in Shards, ~quiescing, RunningHolds, Waiting(s) = {}
  PROVE  Awake(s) = WorkersOf(s)
BY DEF RunningHolds, Waiting, Awake, Asleep, WorkersOf

(* A signal that is taken from the count wakes a worker, or finds all of   *)
(* them awake; a broadcast leaves all of them awake.                       *)
LEMMA SignalConcurrency ==
  ASSUME ConcurrencyInv, Inv', NEW e \in Enqueuers, Signal(e)
  PROVE  ConcurrencyInv'
<1> DEFINE c == caller[e]
<1>0. PICK s \in Shards : s = c.shard
  BY DEF ConcurrencyInv, Inv, Types, Calls
<1>1. /\ caller \in [Enqueuers -> Calls] /\ caller' \in [Enqueuers -> Calls] /\ c \in Calls
      /\ c.pc = "signal" /\ UNCHANGED <<queue, stopped, quiescing>>
      /\ c.count \in Nat /\ Inv
  BY DEF ConcurrencyInv, Inv, Types, Signal, Calls
<1>2. PICK ws \in SUBSET Waiting(s) : Wake(ws) \/ (ws = {} /\ UNCHANGED worker)
  BY <1>0 DEF Signal
<1>3. /\ \A t \in Shards : Processing(t)' = Processing(t)
      /\ Awake(s)' = Awake(s) \cup ws
      /\ ws \cap Awake(s) = {}
      /\ \A t \in Shards : t # s => Awake(t)' = Awake(t)
      /\ \A w \in Workers : worker'[w].pc = "done" => worker[w].pc = "done"
  <2>1. CASE Wake(ws)
    BY <1>1, <2>1, WakeConcurrency
  <2>2. CASE ws = {} /\ UNCHANGED worker
    BY <2>2, SameWorkers
  <2> QED BY <1>2, <2>1, <2>2
<1>4. RunningHolds'
  BY <1>1, <1>3 DEF ConcurrencyInv, RunningHolds
<1>5. \A t \in Shards : queue'[t] = queue[t]
  BY <1>1
<1>6. CASE caller' = [caller EXCEPT ![e] = NextShard(c)] /\ (c.count = 0 \/ Wake(Waiting(s)))
  <2>1. NextShard(c) \in Calls /\ NextShard(c).count = 0
    BY <1>1, <1>6, NextShardCount
  <2>2. /\ \A t : PendingSignals(t)' \subseteq PendingSignals(t)
        /\ \A t : (c.count = 0 \/ t # s) => PendingSignals(t)' = PendingSignals(t)
    BY <1>0, <1>1, <1>6, <2>1, OneCallerMoves
  <2>3. SignalsFinite'
    BY <2>2, FS_Subset DEF ConcurrencyInv, SignalsFinite
  <2>4. CountsHold'
    BY <1>1, <1>6, <2>1 DEF ConcurrencyInv, CountsHold
  <2>5. ASSUME NEW t \in Shards, EnoughAwake(t), ~quiescing' PROVE EnoughAwake(t)'
    <3>1. CASE t # s
      BY <1>3, <1>5, <2>2, <2>5, <3>1, SameNumbers
    <3>2. CASE t = s /\ Wake(Waiting(s))
      <4>1. Waiting(s) \in SUBSET Waiting(s)
        OBVIOUS
      <4>2. Awake(s)' = Awake(s) \cup Waiting(s)
        BY <1>1, <3>2, <4>1, WakeConcurrency
      <4>3. Awake(s) \cup Waiting(s) = WorkersOf(s)
        BY <1>1, <2>5 DEF ConcurrencyInv, RunningHolds, Awake, Asleep, Waiting, WorkersOf
      <4>4. Cardinality(Awake(s)') = ShardWorkers(s) /\ ShardWorkers(s) \in Nat
        BY <4>2, <4>3, WorkersOfShard
      <4>5. Cardinality(PendingSignals(s)') \in Nat
        BY <1>1, <2>3, Numbers DEF ConcurrencyInv
      <4>6. EnoughAwake(s)'
        BY <4>4, <4>5 DEF EnoughAwake
      <4> QED BY <3>2, <4>6
    <3>3. CASE t = s /\ c.count = 0
      <4>1. PendingSignals(s)' = PendingSignals(s)
        BY <2>2, <3>3
      <4>2. Awake(s) \in SUBSET Awake(s)'
        BY <1>3
      <4>3. /\ Cardinality(Awake(s)) \in Nat /\ Cardinality(Awake(s)') \in Nat
            /\ IsFiniteSet(Awake(s)')
            /\ Cardinality(Processing(s)) \in Nat
            /\ Cardinality(PendingSignals(s)) \in Nat /\ Len(queue[s]) \in Nat
            /\ ShardWorkers(s) \in Nat
        BY <2>3, Numbers DEF ConcurrencyInv
      <4>4. Cardinality(Awake(s)) <= Cardinality(Awake(s)')
        BY <4>2, <4>3, FS_Subset
      <4>5. /\ Cardinality(PendingSignals(s)') = Cardinality(PendingSignals(s))
            /\ Cardinality(Processing(s)') = Cardinality(Processing(s))
            /\ Len(queue'[s]) = Len(queue[s]) /\ EnoughAwake(s)
        BY <1>3, <1>5, <2>5, <3>3, <4>1
      <4>6. EnoughAwake(s)'
        BY <4>3, <4>4, <4>5 DEF EnoughAwake
      <4> QED BY <3>3, <4>6
    <3> QED BY <1>6, <3>1, <3>2, <3>3
  <2> QED BY <1>1, <1>4, <2>3, <2>4, <2>5, ConcurrencyKept
<1>7. CASE /\ c.count > 0
           /\ (\E w \in Waiting(s) : Wake({w})) \/ (Waiting(s) = {} /\ UNCHANGED worker)
           /\ caller' = [caller EXCEPT ![e].count = @ - 1]
  <2> DEFINE n == [c EXCEPT !.count = @ - 1]
  <2>1. caller' = [caller EXCEPT ![e] = n]
    BY <1>1, <1>7
  <2>2. n \in Calls
    <3> HIDE DEF n
    <3> QED BY <1>1, <2>1
  <2>3. n.shard = caller[e].shard /\ n.shard = s /\ n.count = caller[e].count - 1 /\ n.pc = "signal"
    <3>1. n.shard = c.shard /\ n.count = c.count - 1 /\ n.pc = c.pc
      <4> HIDE DEF c
      <4> QED BY <1>1 DEF Calls
    <3> QED BY <1>0, <1>1, <3>1
  <2> HIDE DEF n
  <2>4. /\ PendingSignals(s)' = PendingSignals(s) \ {<<e, caller[e].count>>}
        /\ <<e, caller[e].count>> \in PendingSignals(s)
        /\ \A t : t # s => PendingSignals(t)' = PendingSignals(t)
    <3> HIDE DEF c
    <3> QED BY <1>1, <2>1, <2>2, <2>3, OneCallerMoves
  <2>5. /\ IsFiniteSet(PendingSignals(s)')
        /\ Cardinality(PendingSignals(s)') = Cardinality(PendingSignals(s)) - 1
    <3>1. IsFiniteSet(PendingSignals(s))
      BY DEF ConcurrencyInv, SignalsFinite
    <3>2. PICK x : PendingSignals(s)' = PendingSignals(s) \ {x} /\ x \in PendingSignals(s)
      BY <2>4
    <3> QED BY <3>1, <3>2, FS_RemoveElement
  <2>6. SignalsFinite'
    BY <2>4, <2>5 DEF ConcurrencyInv, SignalsFinite
  <2>7. CountsHold'
    BY <1>1, <2>1, <2>3 DEF ConcurrencyInv, CountsHold
  <2>8. ASSUME NEW t \in Shards, EnoughAwake(t), ~quiescing' PROVE EnoughAwake(t)'
    <3>1. CASE t # s
      BY <1>3, <1>5, <2>4, <2>8, <3>1, SameNumbers
    <3>2. CASE t = s
      <4>1. /\ Cardinality(Awake(s)) \in Nat /\ Cardinality(Awake(s)') \in Nat
            /\ IsFiniteSet(Awake(s)) /\ Cardinality(Processing(s)) \in Nat
            /\ Cardinality(PendingSignals(s)) \in Nat /\ Cardinality(PendingSignals(s)') \in Nat
            /\ Len(queue[s]) \in Nat /\ ShardWorkers(s) \in Nat
        BY <2>6, Numbers DEF ConcurrencyInv
      <4>2. CASE \E w \in Waiting(s) : Wake({w})
        <5>1. PICK w \in Waiting(s) : Wake({w})
          BY <4>2
        <5>2. Awake(s)' = Awake(s) \cup {w} /\ w \notin Awake(s)
          <6>1. {w} \in SUBSET Waiting(s)
            OBVIOUS
          <6> QED BY <1>1, <5>1, <6>1, WakeConcurrency
        <5>3. Cardinality(Awake(s)') = Cardinality(Awake(s)) + 1
          BY <4>1, <5>2, FS_AddElement
        <5>4. /\ Cardinality(Processing(s)') = Cardinality(Processing(s))
              /\ Len(queue'[s]) = Len(queue[s]) /\ EnoughAwake(s)
          BY <1>3, <1>5, <2>8, <3>2
        <5>5. EnoughAwake(s)'
          BY <2>5, <4>1, <5>3, <5>4 DEF EnoughAwake
        <5> QED BY <3>2, <5>5
      <4>3. CASE Waiting(s) = {} /\ UNCHANGED worker
        <5>1. Awake(s) = WorkersOf(s) /\ Awake(s)' = Awake(s)
          BY <1>1, <2>8, <4>3, AllAwake, SameWorkers DEF ConcurrencyInv
        <5>2. Cardinality(Awake(s)') = ShardWorkers(s)
          BY <5>1, WorkersOfShard
        <5>3. EnoughAwake(s)'
          BY <4>1, <5>2 DEF EnoughAwake
        <5> QED BY <3>2, <5>3
      <4> QED BY <1>7, <4>2, <4>3
    <3> QED BY <3>1, <3>2
  <2> QED BY <1>1, <1>4, <2>6, <2>7, <2>8, ConcurrencyKept
<1> QED BY <1>0, <1>6, <1>7 DEF Signal

(* One worker moves from an awake place to an awake place, and neither     *)
(* begins nor ends to process.                                             *)
LEMMA AwakeWorkerStep ==
  ASSUME ConcurrencyInv, Inv', NEW w \in Workers,
         UNCHANGED <<queue, caller, stopped, quiescing>>,
         \A v \in Workers : v # w => worker'[v] = worker[v],
         \/ worker'[w].pc = worker[w].pc
         \/ {worker[w].pc, worker'[w].pc} \cap {"process", "wait", "done"} = {}
  PROVE  ConcurrencyInv'
<1>1. \A s : Awake(s)' = Awake(s) /\ Processing(s)' = Processing(s)
  BY DEF Awake, Asleep, Processing, WorkersOf
<1>2. RunningHolds'
  BY DEF ConcurrencyInv, RunningHolds
<1>3. ASSUME NEW s \in Shards, EnoughAwake(s) PROVE EnoughAwake(s)'
  BY <1>1, <1>3, SameCallers, SameNumbers
<1> QED BY <1>2, <1>3, SameCallers, ConcurrencyKept DEF ConcurrencyInv

(* A worker of shard s is awake before and after. *)
LEMMA StaysAwake ==
  ASSUME ConcurrencyInv, Inv', NEW w \in Workers,
         UNCHANGED <<caller, stopped, quiescing>>,
         \A v \in Workers : v # w => worker'[v] = worker[v],
         {worker[w].pc, worker'[w].pc} \cap {"wait", "done"} = {},
         \A t \in Shards : t # w[1] => queue'[t] = queue[t],
         Len(queue'[w[1]]) + Cardinality(Processing(w[1])')
           <= Len(queue[w[1]]) + Cardinality(Processing(w[1]))
  PROVE  ConcurrencyInv'
<1>1. PICK s \in Shards : s = w[1]
  BY WorkerTypes
<1>2. /\ \A t : Awake(t)' = Awake(t)
      /\ \A t : t # s => Processing(t)' = Processing(t)
  BY <1>1 DEF Awake, Asleep, Processing, WorkersOf
<1>3. RunningHolds'
  BY DEF ConcurrencyInv, RunningHolds
<1>4. CountsHold' /\ SignalsFinite' /\ \A t : PendingSignals(t)' = PendingSignals(t)
  BY SameCallers DEF ConcurrencyInv
<1>5. ASSUME NEW t \in Shards, EnoughAwake(t) PROVE EnoughAwake(t)'
  <2>1. CASE t # s
    BY <1>1, <1>2, <1>4, <1>5, <2>1, SameNumbers
  <2>2. CASE t = s
    <3>1. /\ Cardinality(Awake(s)) \in Nat /\ Cardinality(PendingSignals(s)) \in Nat
          /\ Cardinality(Processing(s)) \in Nat /\ Cardinality(Processing(s)') \in Nat
          /\ Len(queue[s]) \in Nat /\ Len(queue'[s]) \in Nat /\ ShardWorkers(s) \in Nat
      BY <1>4, Numbers DEF ConcurrencyInv
    <3>2. /\ Cardinality(Awake(s)') = Cardinality(Awake(s))
          /\ Cardinality(PendingSignals(s)') = Cardinality(PendingSignals(s))
      BY <1>2, <1>4
    <3>3. Len(queue'[s]) + Cardinality(Processing(s)') <= Len(queue[s]) + Cardinality(Processing(s))
      BY <1>1
    <3>4. EnoughAwake(s)'
      BY <1>5, <2>2, <3>1, <3>2, <3>3 DEF EnoughAwake
    <3> QED BY <2>2, <3>4
  <2> QED BY <2>1, <2>2
<1> QED BY <1>3, <1>4, <1>5, ConcurrencyKept

(* A worker sleeps when the queue is empty: those that process are enough. *)
LEMMA FallsAsleep ==
  ASSUME ConcurrencyInv, Inv', NEW w \in Workers, worker[w].pc \in {"lock", "loop"},
         UNCHANGED <<queue, caller, stopped, quiescing>>, queue[w[1]] = <<>>,
         worker' = [worker EXCEPT ![w].pc = "wait"]
  PROVE  ConcurrencyInv'
<1>1. PICK s \in Shards : s = w[1]
  BY WorkerTypes
<1>2. /\ worker'[w].pc = "wait" /\ \A v \in Workers : v # w => worker'[v] = worker[v]
  BY DEF ConcurrencyInv, Inv, Types, WorkerStates
<1>3. /\ \A t : t # s => Awake(t)' = Awake(t)
      /\ \A t : Processing(t)' = Processing(t)
  BY <1>1, <1>2 DEF Awake, Asleep, Processing, WorkersOf
<1>4. RunningHolds'
  BY <1>2 DEF ConcurrencyInv, RunningHolds
<1>5. CountsHold' /\ SignalsFinite' /\ \A t : PendingSignals(t)' = PendingSignals(t)
  BY SameCallers DEF ConcurrencyInv
<1>6. ASSUME NEW t \in Shards, EnoughAwake(t) PROVE EnoughAwake(t)'
  <2>1. CASE t # s
    BY <1>3, <1>5, <1>6, <2>1, SameNumbers
  <2>2. CASE t = s
    <3>1. /\ Cardinality(Awake(s)') \in Nat /\ Cardinality(PendingSignals(s)') \in Nat
          /\ Cardinality(Processing(s)') \in Nat /\ IsFiniteSet(Awake(s)')
      BY <1>5, Numbers DEF ConcurrencyInv
    <3>2. Processing(s)' \in SUBSET Awake(s)'
      BY DEF Processing, Awake, Asleep
    <3>3. Cardinality(Processing(s)') <= Cardinality(Awake(s)')
      BY <3>1, <3>2, FS_Subset
    <3>4. Len(queue'[s]) = 0
      BY <1>1
    <3>5. EnoughAwake(s)'
      BY <3>1, <3>3, <3>4 DEF EnoughAwake
    <3> QED BY <2>2, <3>5
  <2> QED BY <2>1, <2>2
<1> QED BY <1>4, <1>5, <1>6, ConcurrencyKept

LEMMA WorkerLoopConcurrency ==
  ASSUME ConcurrencyInv, Inv', NEW w \in Workers, WorkerLoop(w)
  PROVE  ConcurrencyInv'
<1>1. PICK s \in Shards : s = w[1]
  BY WorkerTypes
<1>2. /\ UNCHANGED <<caller, stopped, quiescing>> /\ worker[w].pc \in {"lock", "loop"}
      /\ worker \in [Workers -> WorkerStates] /\ queue \in [Shards -> Seq(Ranges)]
  BY DEF WorkerLoop, ConcurrencyInv, Inv, Types
<1>3. CASE /\ stopped[s] /\ worker' = [worker EXCEPT ![w].pc = "done"] /\ UNCHANGED queue
  <2>1. quiescing
    BY <1>3 DEF ConcurrencyInv, RunningHolds
  <2>2. CountsHold' /\ SignalsFinite' /\ RunningHolds'
    BY <1>2, <2>1, SameCallers DEF ConcurrencyInv, RunningHolds
  <2> QED BY <1>2, <2>1, <2>2, ConcurrencyKept
<1>4. CASE /\ queue[s] # <<>>
           /\ queue' = [queue EXCEPT ![s] = Tail(@)]
           /\ worker' = [worker EXCEPT ![w] =
                [pc |-> "process", id |-> Head(queue[s]),
                 flags |-> state[s][Head(queue[s])].flags \ {"Queued"},
                 ticks |-> state[s][Head(queue[s])].ticks]]
  <2>1. Len(queue'[s]) = Len(queue[s]) - 1 /\ Len(queue[s]) \in Nat
        /\ \A t \in Shards : t # s => queue'[t] = queue[t]
    BY <1>2, <1>4
  <2>2. worker'[w].pc = "process" /\ \A v \in Workers : v # w => worker'[v] = worker[v]
    BY <1>2, <1>4
  <2>3. Processing(s)' = Processing(s) \cup {w} /\ w \notin Processing(s)
    BY <1>1, <1>2, <2>2 DEF Processing, WorkersOf
  <2>4. /\ Cardinality(Processing(s)') = Cardinality(Processing(s)) + 1
        /\ Cardinality(Processing(s)) \in Nat
    <3>1. IsFiniteSet(Processing(s)) /\ Cardinality(Processing(s)) \in Nat
      BY ProcessingAwake DEF ConcurrencyInv
    <3> QED BY <2>3, <3>1, FS_AddElement
  <2>5. Len(queue'[s]) + Cardinality(Processing(s)') <= Len(queue[s]) + Cardinality(Processing(s))
    BY <2>1, <2>4
  <2> QED BY <1>1, <1>2, <2>1, <2>2, <2>5, StaysAwake
<1>5. CASE /\ queue[s] = <<>> /\ worker' = [worker EXCEPT ![w].pc = "wait"]
           /\ UNCHANGED queue
  BY <1>1, <1>2, <1>5, FallsAsleep
<1> QED BY <1>1, <1>3, <1>4, <1>5 DEF WorkerLoop

(* A range that is queued again is one that no longer is processed. *)
LEMMA WorkerFinishConcurrency ==
  ASSUME ConcurrencyInv, Inv', NEW w \in Workers, WorkerFinish(w)
  PROVE  ConcurrencyInv'
<1>1. PICK s \in Shards : s = w[1]
  BY WorkerTypes
<1>2. /\ UNCHANGED <<caller, stopped, quiescing>> /\ worker[w].pc = "process"
      /\ worker \in [Workers -> WorkerStates] /\ queue \in [Shards -> Seq(Ranges)]
      /\ worker[w].id \in Ranges
      /\ worker' = [worker EXCEPT ![w] = [pc |-> "loop", id |-> NoRange, flags |-> {}, ticks |-> 0]]
  BY DEF WorkerFinish, ConcurrencyInv, Inv, Types
<1>3. worker'[w].pc = "loop" /\ \A v \in Workers : v # w => worker'[v] = worker[v]
  BY <1>2
<1>4. Processing(s)' = Processing(s) \ {w} /\ w \in Processing(s)
  BY <1>1, <1>2, <1>3 DEF Processing, WorkersOf
<1>5. /\ Cardinality(Processing(s)') = Cardinality(Processing(s)) - 1
      /\ Cardinality(Processing(s)) \in Nat
  <2>1. IsFiniteSet(Processing(s)) /\ Cardinality(Processing(s)) \in Nat
    BY ProcessingAwake DEF ConcurrencyInv
  <2> QED BY <1>4, <2>1, FS_RemoveElement
<1>6. queue' = [queue EXCEPT ![s] = Append(@, worker[w].id)] \/ queue' = queue
  BY <1>1, <1>2 DEF WorkerFinish
<1>7. /\ Len(queue'[s]) <= Len(queue[s]) + 1 /\ Len(queue[s]) \in Nat /\ Len(queue'[s]) \in Nat
      /\ \A t \in Shards : t # s => queue'[t] = queue[t]
  BY <1>2, <1>6
<1>8. Len(queue'[s]) + Cardinality(Processing(s)') <= Len(queue[s]) + Cardinality(Processing(s))
  BY <1>5, <1>7
<1> QED BY <1>1, <1>2, <1>3, <1>7, <1>8, StaysAwake

LEMMA ProcessConcurrency ==
  ASSUME ConcurrencyInv, Inv', NEW w \in Workers,
         \/ ProcessRequestQueue(w) \/ ProcessTick(w)
         \/ ProcessRACv2PiggybackedAdmitted(w) \/ ProcessReady(w)
  PROVE  ConcurrencyInv'
<1>1. PICK kind, flags, ticks : Process(w, kind, flags, ticks)
  BY DEF ProcessRequestQueue, ProcessTick, ProcessRACv2PiggybackedAdmitted, ProcessReady
<1>2. /\ UNCHANGED <<queue, caller, stopped, quiescing>>
      /\ worker' = [worker EXCEPT ![w].flags = flags, ![w].ticks = ticks]
      /\ worker \in [Workers -> WorkerStates]
  BY <1>1 DEF Process, ConcurrencyInv, Inv, Types
<1>3. worker'[w].pc = worker[w].pc /\ \A v \in Workers : v # w => worker'[v] = worker[v]
  BY <1>2 DEF WorkerStates
<1> QED BY <1>2, <1>3, AwakeWorkerStep

LEMMA StartWorkerConcurrency ==
  ASSUME ConcurrencyInv, Inv', NEW w \in Workers, StartWorker(w)
  PROVE  ConcurrencyInv'
<1>1. /\ UNCHANGED <<queue, caller, stopped, quiescing>> /\ worker[w].pc = "new"
      /\ worker' = [worker EXCEPT ![w].pc = IF quiescing THEN "done" ELSE "lock"]
      /\ worker \in [Workers -> WorkerStates]
  BY DEF StartWorker, ConcurrencyInv, Inv, Types
<1>2. CASE quiescing
  <2>1. CountsHold' /\ SignalsFinite' /\ RunningHolds'
    BY <1>1, <1>2, SameCallers DEF ConcurrencyInv, RunningHolds
  <2> QED BY <1>1, <1>2, <2>1, ConcurrencyKept
<1>3. CASE ~quiescing
  <2>1. worker'[w].pc = "lock" /\ \A v \in Workers : v # w => worker'[v] = worker[v]
    BY <1>1, <1>3 DEF WorkerStates
  <2> QED BY <1>1, <2>1, AwakeWorkerStep
<1> QED BY <1>2, <1>3

LEMMA QuiescingConcurrency ==
  ASSUME ConcurrencyInv, Inv', quiescing', UNCHANGED caller
  PROVE  ConcurrencyInv'
<1>1. CountsHold' /\ SignalsFinite' /\ RunningHolds'
  BY SameCallers DEF ConcurrencyInv, RunningHolds
<1> QED BY <1>1, ConcurrencyKept

LEMMA IdleConcurrency ==
  ASSUME ConcurrencyInv, Inv', UNCHANGED <<queue, worker, caller, stopped, quiescing>>
  PROVE  ConcurrencyInv'
<1>1. CountsHold' /\ SignalsFinite' /\ RunningHolds'
  BY SameCallers, RunningKept DEF ConcurrencyInv
<1>2. ASSUME NEW s \in Shards, EnoughAwake(s) PROVE EnoughAwake(s)'
  BY <1>2, SameCallers, SameWorkers, SameNumbers
<1> QED BY <1>1, <1>2, ConcurrencyKept

LEMMA NextConcurrency == ConcurrencyInv /\ [Next]_schedVars => ConcurrencyInv'
<1> SUFFICES ASSUME ConcurrencyInv, [Next]_schedVars PROVE ConcurrencyInv'
  OBVIOUS
<1>0. Inv'
  BY NextInv DEF ConcurrencyInv
<1>1. ASSUME NEW e \in Enqueuers, EnqueueOne(e) \/ EnqueueBatch(e) PROVE ConcurrencyInv'
  <2>1. CASE EnqueueOne(e)
    <3>1. PICK kind \in Kinds \ {"Tick"}, id \in Ranges : BeginCall(e, kind, <<id>>)
      BY <2>1 DEF EnqueueOne
    <3>2. <<id>> \in Seq(Ranges)
      OBVIOUS
    <3> QED BY <1>0, <3>1, <3>2, BeginCallConcurrency
  <2>2. CASE EnqueueBatch(e)
    <3>1. PICK kind \in Kinds, ids \in Batches : BeginCall(e, kind, ids)
      BY <2>2 DEF EnqueueBatch
    <3>2. ids \in Seq(Ranges)
      BY SchedulerAssumption
    <3> QED BY <1>0, <3>1, <3>2, BeginCallConcurrency
  <2> QED BY <1>1, <2>1, <2>2
<1>2. ASSUME NEW e \in Enqueuers, CallerStep(e) PROVE ConcurrencyInv'
  BY <1>0, <1>2, Enqueue1LockedConcurrency, SkipShardConcurrency, SignalConcurrency DEF CallerStep
<1>3. ASSUME NEW w \in Workers, StartWorker(w) \/ WorkerStep(w) PROVE ConcurrencyInv'
  BY <1>0, <1>3, StartWorkerConcurrency, WorkerLoopConcurrency, ProcessConcurrency,
     WorkerFinishConcurrency DEF WorkerStep
<1>4. ASSUME NEW id, AddPriorityID(id) \/ RemovePriorityID(id) PROVE ConcurrencyInv'
  <2>1. UNCHANGED <<queue, worker, caller, stopped, quiescing>>
    BY <1>4 DEF AddPriorityID, RemovePriorityID
  <2> QED BY <1>0, <2>1, IdleConcurrency
<1>5. ASSUME Quiesce \/ StopShard PROVE ConcurrencyInv'
  <2>1. quiescing' /\ UNCHANGED caller
    BY <1>5 DEF Quiesce, StopShard
  <2> QED BY <1>0, <2>1, QuiescingConcurrency
<1>6. ASSUME UNCHANGED schedVars PROVE ConcurrencyInv'
  <2>1. UNCHANGED <<queue, worker, caller, stopped, quiescing>>
    BY <1>6 DEF schedVars
  <2> QED BY <1>0, <2>1, IdleConcurrency
<1> QED BY <1>1, <1>2, <1>3, <1>4, <1>5, <1>6 DEF Next

(* The derivation of "optimal concurrency" in the comment of worker holds  *)
(* for any number of workers and callers, chunked batches included: with   *)
(* the signals on their way there are as many workers awake as the queued  *)
(* and processed ranges can use, although a worker that queues its range   *)
(* again signals nobody (scheduler.go: worker, signal).                    *)
THEOREM ConcurrencyIsOptimal == Spec => []OptimalConcurrency
<1>1. Spec => []ConcurrencyInv
  BY InitConcurrency, NextConcurrency, PTL DEF Spec
<1>2. ConcurrencyInv => OptimalConcurrency
  BY DEF ConcurrencyInv
<1> QED BY <1>1, <1>2, PTL

-----------------------------------------------------------------------------
(* The receive queues. *)

HandlerStates == [pc : {"idle", "append", "enqueue"}, id : Ranges \cup {NoRange}, q : Nat]

DrainerStates ==
  [pc : {"idle", "drain", "step", "deleting"}, id : Ranges \cup {NoRange}, q : Nat]

RecvTypes ==
  /\ created \in 0 .. MaxQueues
  /\ recvQueue \in [1 .. MaxQueues -> [len : Nat, destroyed : BOOLEAN]]
  /\ recvMap \in [Ranges -> 0 .. created]
  /\ handler \in [Enqueuers -> HandlerStates]
  /\ \A e \in Enqueuers : handler[e].pc # "idle" =>
       handler[e].id \in Ranges /\ handler[e].q \in 1 .. created
  /\ drainer \in [Workers -> DrainerStates]

(* A queue object serves one range, and is empty before it is created. *)
QueuesHaveOneRange ==
  /\ \A i, j \in Ranges : recvMap[i] = recvMap[j] /\ recvMap[i] # 0 => i = j
  /\ \A e \in Enqueuers, id \in Ranges :
       handler[e].pc # "idle" /\ recvMap[id] = handler[e].q => id = handler[e].id
  /\ \A q \in 1 .. MaxQueues : q > created => recvQueue[q].len = 0

(* A worker drains while it processes the requests of a range, and has     *)
(* nothing to process otherwise.                                           *)
DrainersProcess ==
  \A w \in Workers :
    /\ drainer[w].pc # "idle" => worker[w].pc = "process" /\ "Request" \in worker[w].flags
    /\ worker[w].pc # "process" => worker[w].flags = {}

RecvInv == Inv /\ RecvTypes /\ QueuesHaveOneRange /\ DrainersProcess /\ NoStrandedMessages

(* Who is going to drain the queue q of the range id: see DrainComes. *)
Handled(q) == \E e \in Enqueuers : handler[e].pc = "enqueue" /\ handler[e].q = q
InState(id) == \E s \in Shards : "Request" \in state[s][id].flags
WillDrain(w, id, q) ==
  /\ worker[w].id = id /\ "Request" \in worker[w].flags
  /\ drainer[w].pc = "idle" \/ (drainer[w].pc = "drain" /\ drainer[w].q = q)

LEMMA DrainComesParts ==
  ASSUME NEW id, NEW q
  PROVE  /\ DrainComes(id, q) <=> \/ Handled(q) \/ Announced("Request", id) \/ InState(id)
                                  \/ \E w \in Workers : WillDrain(w, id, q)
         /\ DrainComes(id, q)' <=> \/ Handled(q)' \/ Announced("Request", id)' \/ InState(id)'
                                   \/ \E w \in Workers : WillDrain(w, id, q)'
BY DEF DrainComes, Handled, Announced, InState, WillDrain

(* The receive queues use the scheduler as its callers and workers may. *)
LEMMA RecvUsesScheduler == ASSUME RecvInv, [RecvNext]_vars PROVE [Next]_schedVars
<1>1. ASSUME NEW w \in Workers, NEW ready \in SUBSET {"Ready"}, RequestsDone(w, ready) PROVE Next
  BY <1>1 DEF RequestsDone, ProcessRequestQueue, WorkerStep, Next
<1>2. ASSUME NEW e \in Enqueuers, EnqueueRaftRequest(e) PROVE Next
  <2>1. handler[e].id \in Ranges /\ "Request" \in Kinds \ {"Tick"}
    BY <1>2, RecvAssumption DEF EnqueueRaftRequest, RecvInv, RecvTypes
  <2> QED BY <1>2, <2>1 DEF EnqueueRaftRequest, EnqueueOne, Next
<1>3. ASSUME NEW e \in Enqueuers,
             (\E id \in Ranges : LoadOrCreate(e, id)) \/ AppendMessage(e)
      PROVE  UNCHANGED schedVars
  BY <1>3 DEF LoadOrCreate, AppendMessage
<1>4. ASSUME NEW w \in Workers, DrainStep(w) PROVE Next \/ UNCHANGED schedVars
  BY <1>1, <1>4 DEF DrainStep, LoadQueue, Drain, StepMessages, ReturnAfterDelete
<1>5. ASSUME NEW w \in Workers, SchedulerStep(w) PROVE Next
  BY <1>5 DEF SchedulerStep, WorkerStep, Next
<1>6. ASSUME NEW e \in Enqueuers, CallerStep(e) PROVE Next
  BY <1>6 DEF Next
<1>7. ASSUME \/ \E d \in Deleters : DeleteQueue(d)
             \/ \E id \in Ranges : UnlinkReplica(id) \/ AddReplica(id)
      PROVE  UNCHANGED schedVars
  BY <1>7 DEF DeleteQueue, UnlinkReplica, AddReplica
<1>8. ASSUME UNCHANGED vars PROVE UNCHANGED schedVars
  BY <1>8 DEF vars
<1> QED BY <1>2, <1>3, <1>4, <1>5, <1>6, <1>7, <1>8 DEF RecvNext, HandlerStep

-----------------------------------------------------------------------------
(* Steps of the scheduler alone. *)

(* What follows when no drain that was to come is lost. *)
LEMMA SchedulerKeeps ==
  ASSUME RecvInv, Inv', UNCHANGED recvVars, DrainersProcess',
         \A id \in Ranges : \A q : DrainComes(id, q) => DrainComes(id, q)'
  PROVE  RecvInv'
<1>1. RecvTypes'
  BY DEF RecvInv, RecvTypes, recvVars
<1>2. QueuesHaveOneRange'
  BY DEF RecvInv, QueuesHaveOneRange, recvVars
<1>3. NoStrandedMessages'
  BY DEF RecvInv, NoStrandedMessages, recvVars
<1> QED BY <1>1, <1>2, <1>3 DEF RecvInv

(* Workers that are not processing only change where they are. *)
Resting ==
  \A w \in Workers :
    worker'[w] = worker[w] \/ (/\ worker[w].pc # "process" /\ worker'[w].pc # "process"
                               /\ worker'[w].id = worker[w].id /\ worker'[w].flags = worker[w].flags)

LEMMA RestingKeeps ==
  ASSUME RecvInv, Resting, UNCHANGED drainer
  PROVE  /\ DrainersProcess'
         /\ \A id, q : \A w \in Workers : WillDrain(w, id, q) => WillDrain(w, id, q)'
<1>1. DrainersProcess'
  BY DEF RecvInv, DrainersProcess, Resting
<1>2. ASSUME NEW id, NEW q, NEW w \in Workers, WillDrain(w, id, q) PROVE WillDrain(w, id, q)'
  BY <1>2 DEF WillDrain, Resting
<1> QED BY <1>1, <1>2

LEMMA WakeRests ==
  ASSUME NEW s, NEW ws \in SUBSET Waiting(s), Wake(ws), RecvInv
  PROVE  Resting
<1>1. \A w \in ws : w \in Workers /\ worker[w].pc = "wait"
  BY DEF Waiting, WorkersOf
<1>2. \A w \in Workers : worker[w] \in WorkerStates
  BY DEF RecvInv, Inv, Types
<1>3. \A w \in Workers : LET v == [worker[w] EXCEPT !.pc = "lock"]
                         IN v.pc = "lock" /\ v.id = worker[w].id /\ v.flags = worker[w].flags
  BY <1>2 DEF WorkerStates
<1>4. \A w \in Workers : worker'[w] = IF w \in ws THEN [worker[w] EXCEPT !.pc = "lock"] ELSE worker[w]
  BY DEF Wake
<1> QED BY <1>1, <1>3, <1>4 DEF Resting

LEMMA CallersKeep ==
  ASSUME NEW e \in Enqueuers, RecvInv, SkipShard(e) \/ Signal(e)
  PROVE  \A id : Announced("Request", id) => Announced("Request", id)'
<1> DEFINE c == caller[e]
<1>1. /\ c \in Calls /\ CallInv(c) /\ c.pc # "idle" /\ Left(c) = {} /\ caller \in [Enqueuers -> Calls]
  BY DEF RecvInv, Inv, Types, CallsHold, CallInv, SkipShard, Signal
<1>2. \/ caller' = [caller EXCEPT ![e] = NextShard(c)]
      \/ caller' = [caller EXCEPT ![e].count = @ - 1]
  BY DEF SkipShard, Signal
<1>3. \A x \in Enqueuers : x # e => caller'[x] = caller[x]
  BY <1>1, <1>2
<1>4. \A id : Announces(c, id) => Announces(caller'[e], id) /\ caller'[e].kind = c.kind
  <2>1. CASE caller' = [caller EXCEPT ![e] = NextShard(c)]
    BY <1>1, <2>1, NextShardCall
  <2>2. CASE caller' = [caller EXCEPT ![e].count = @ - 1]
    <3>1. LET d == caller'[e] IN /\ d.ids = c.ids /\ d.shards = c.shards /\ d.shard = c.shard
                                 /\ d.next = c.next /\ d.kind = c.kind
      BY <1>1, <2>2 DEF Calls
    <3> QED BY <3>1 DEF Announces, Left
  <2> QED BY <1>2, <2>1, <2>2
<1> QED BY <1>3, <1>4 DEF Announced

LEMMA Enqueue1LockedKeeps ==
  ASSUME NEW e \in Enqueuers, RecvInv, Enqueue1Locked(e), NEW id \in Ranges
  PROVE  /\ InState(id) => InState(id)'
         /\ Announced("Request", id) => Announced("Request", id)' \/ InState(id)'
<1> DEFINE c == caller[e]
           s == c.shard
           d == caller'[e]
<1>1. /\ c \in Calls /\ CallInv(c) /\ caller \in [Enqueuers -> Calls]
      /\ state \in [Shards -> [Ranges -> ScheduleStates]] /\ s \in Shards /\ c.pc = "enqueue"
      /\ c.kind \in Kinds
  BY DEF RecvInv, Inv, Types, CallsHold, CallInv, Calls, Enqueue1Locked
<1>2. PICK k \in Left(c) :
        /\ \A j \in Left(c) : k <= j
        /\ state' = [state EXCEPT ![s][c.ids[k]] = Scheduled(state[s][c.ids[k]], c.kind)]
        /\ caller' = [caller EXCEPT ![e] =
             [c EXCEPT !.next = k + 1,
                       !.i = (c.i + 1) % ChunkSize,
                       !.count = IF NewlyQueued(state[s][c.ids[k]], c.kind)
                                 THEN c.count + 1 ELSE c.count,
                       !.pc = IF Left(c) = {k} THEN "signal" ELSE "enqueue"]]
  BY DEF Enqueue1Locked
<1>3. c.ids \in Seq(Ranges) /\ k \in DOMAIN c.ids /\ k \in Nat
  BY <1>1 DEF Left, Calls
<1> DEFINE x == c.ids[k]
<1>4. x \in Ranges
  BY <1>3
<1>5. LET new == Scheduled(state[s][x], c.kind)
      IN c.kind \in new.flags /\ state[s][x].flags \subseteq new.flags
  <2>1. state[s][x] \in ScheduleStates
    BY <1>1, <1>4
  <2>2. /\ state[s][x].flags # {} => "Queued" \in state[s][x].flags
        /\ "Tick" \in state[s][x].flags <=> state[s][x].ticks > 0
    BY <1>1, <1>4 DEF RecvInv, Inv, FlagsHold, TicksHold
  <2> QED BY <1>1, <2>1, <2>2, ScheduledState
<1>6. /\ \A t \in Shards, y \in Ranges : state[t][y].flags \subseteq state'[t][y].flags
      /\ c.kind \in state'[s][x].flags
  BY <1>1, <1>2, <1>4, <1>5
<1>7. /\ d.ids = c.ids /\ d.shards = c.shards /\ d.shard = c.shard /\ d.next = k + 1 /\ d.kind = c.kind
      /\ \A y \in Enqueuers : y # e => caller'[y] = caller[y]
  BY <1>1, <1>2 DEF Calls
<1>8. InState(id) => InState(id)'
  BY <1>6 DEF InState
<1>9. ASSUME c.kind = "Request", Announces(c, id) PROVE Announces(d, id) \/ InState(id)'
  <2>1. PICK j \in DOMAIN c.ids : c.ids[j] = id /\ (c.shards[j] > c.shard \/ j \in Left(c))
    BY <1>9 DEF Announces
  <2>2. CASE c.shards[j] > c.shard
    BY <1>7, <2>1, <2>2 DEF Announces
  <2>3. CASE j \in Left(c) /\ j # k
    <3>1. j \in Nat /\ k <= j /\ c.shards[j] = c.shard
      BY <1>1, <1>2, <2>1, <2>3 DEF Left, Calls
    <3>2. j >= k + 1
      BY <1>3, <2>3, <3>1
    <3>3. j \in Left(d)
      BY <1>7, <2>1, <3>1, <3>2 DEF Left
    <3> QED BY <1>7, <2>1, <3>3 DEF Announces
  <2>4. CASE j = k
    BY <1>1, <1>6, <1>9, <2>1, <2>4 DEF InState
  <2> QED BY <2>1, <2>2, <2>3, <2>4
<1> HIDE DEF c, d
<1>10. ASSUME Announced("Request", id) PROVE Announced("Request", id)' \/ InState(id)'
  <2>1. PICK y \in Enqueuers : caller[y].kind = "Request" /\ Announces(caller[y], id)
    BY <1>10 DEF Announced
  <2>2. CASE y = e
    <3>1. Announces(d, id) \/ InState(id)'
      BY <1>9, <2>1, <2>2 DEF c
    <3>2. d.kind = "Request"
      BY <1>7, <2>1, <2>2 DEF c
    <3> QED BY <3>1, <3>2 DEF Announced, d
  <2>3. CASE y # e
    <3>1. caller'[y] = caller[y]
      BY <1>7, <2>3
    <3> QED BY <2>1, <3>1 DEF Announced
  <2> QED BY <2>2, <2>3
<1> QED BY <1>8, <1>10

-----------------------------------------------------------------------------
(* The steps of callers and workers that do not touch the receive queues. *)

LEMMA CallerStepRecv ==
  ASSUME NEW e \in Enqueuers, RecvInv, Inv', CallerStep(e), UNCHANGED recvVars
  PROVE  RecvInv'
<1>1. UNCHANGED <<handler, drainer>>
  BY DEF recvVars
<1>2. Resting
  <2>1. UNCHANGED worker \/ \E s : \E ws \in SUBSET Waiting(s) : Wake(ws)
    BY DEF CallerStep, Enqueue1Locked, SkipShard, Signal
  <2> QED BY <2>1, WakeRests DEF Resting
<1>3. DrainersProcess' /\ \A id, q : \A w \in Workers : WillDrain(w, id, q) => WillDrain(w, id, q)'
  BY <1>1, <1>2, RestingKeeps
<1>4. \A q : Handled(q) => Handled(q)'
  BY <1>1 DEF Handled
<1>5. ASSUME NEW id \in Ranges
      PROVE  /\ InState(id) => InState(id)'
             /\ Announced("Request", id) => Announced("Request", id)' \/ InState(id)'
  <2>1. CASE Enqueue1Locked(e)
    BY <2>1, Enqueue1LockedKeeps
  <2>2. CASE SkipShard(e) \/ Signal(e)
    <3>1. UNCHANGED state
      BY <2>2 DEF SkipShard, Signal
    <3> QED BY <2>2, <3>1, CallersKeep DEF InState
  <2> QED BY <2>1, <2>2 DEF CallerStep
<1>6. ASSUME NEW id \in Ranges, NEW q, DrainComes(id, q) PROVE DrainComes(id, q)'
  BY <1>3, <1>4, <1>5, <1>6, DrainComesParts
<1> QED BY <1>3, <1>6, SchedulerKeeps

(* A worker takes over the request that it finds in the state, and leaves  *)
(* with none.                                                              *)
LEMMA WorkerLoopKeeps ==
  ASSUME NEW w \in Workers, RecvInv, WorkerLoop(w), UNCHANGED drainer,
         worker' \in [Workers -> WorkerStates]
  PROVE  /\ DrainersProcess'
         /\ \A id, q : \A v \in Workers : WillDrain(v, id, q) => WillDrain(v, id, q)'
         /\ \A id \in Ranges : \A q : InState(id) => InState(id)' \/ WillDrain(w, id, q)'
<1> DEFINE s == w[1]
<1>1. /\ worker[w].pc # "process" /\ worker[w].flags = {} /\ drainer[w].pc = "idle"
      /\ worker \in [Workers -> WorkerStates] /\ s \in Shards
      /\ state \in [Shards -> [Ranges -> ScheduleStates]]
  BY WorkerTypes DEF RecvInv, Inv, Types, DrainersProcess, WorkerLoop
<1>2. CASE UNCHANGED state /\ \E l \in {"done", "wait"} : worker' = [worker EXCEPT ![w].pc = l]
  <2>1. PICK l \in {"done", "wait"} : worker' = [worker EXCEPT ![w].pc = l]
    BY <1>2
  <2>2. Resting
    BY <1>1, <2>1 DEF Resting, WorkerStates
  <2> QED BY <1>2, <2>2, RestingKeeps DEF InState
<1>3. CASE \E x : /\ worker' = [worker EXCEPT ![w] =
                       [pc |-> "process", id |-> x,
                        flags |-> state[s][x].flags \ {"Queued"}, ticks |-> state[s][x].ticks]]
                  /\ state' = [state EXCEPT ![s][x] = [flags |-> {"Queued"}, ticks |-> 0]]
  <2>1. PICK x : /\ worker' = [worker EXCEPT ![w] =
                       [pc |-> "process", id |-> x,
                        flags |-> state[s][x].flags \ {"Queued"}, ticks |-> state[s][x].ticks]]
                 /\ state' = [state EXCEPT ![s][x] = [flags |-> {"Queued"}, ticks |-> 0]]
    BY <1>3
  <2>2. /\ worker'[w].pc = "process" /\ worker'[w].id = x
        /\ worker'[w].flags = state[s][x].flags \ {"Queued"}
        /\ \A v \in Workers : v # w => worker'[v] = worker[v]
    BY <1>1, <2>1
  <2>3. DrainersProcess'
    BY <1>1, <2>2 DEF RecvInv, DrainersProcess
  <2>4. \A id, q : \A v \in Workers : WillDrain(v, id, q) => WillDrain(v, id, q)'
    BY <1>1, <2>2 DEF WillDrain
  <2>5. ASSUME NEW id \in Ranges, NEW q, InState(id) PROVE InState(id)' \/ WillDrain(w, id, q)'
    <3>1. PICK t \in Shards : "Request" \in state[t][id].flags
      BY <2>5 DEF InState
    <3>2. CASE t = s /\ id = x
      BY <1>1, <2>2, <3>1, <3>2 DEF WillDrain
    <3>3. CASE ~(t = s /\ id = x)
      <4>1. state'[t][id] = state[t][id]
        BY <1>1, <2>1, <3>1, <3>3
      <4> QED BY <3>1, <4>1 DEF InState
    <3> QED BY <3>2, <3>3
  <2> QED BY <2>3, <2>4, <2>5
<1> QED BY <1>2, <1>3 DEF WorkerLoop

(* The other steps of a worker that has no request. *)
LEMMA IdleWorkerKeeps ==
  ASSUME NEW w \in Workers, RecvInv, StartWorker(w) \/ ProcessReady(w) \/ WorkerFinish(w),
         UNCHANGED drainer
  PROVE  /\ DrainersProcess'
         /\ \A id, q : \A v \in Workers : WillDrain(v, id, q) => WillDrain(v, id, q)'
         /\ \A id \in Ranges : InState(id) => InState(id)'
<1>1. /\ worker \in [Workers -> WorkerStates] /\ w[1] \in Shards
      /\ state \in [Shards -> [Ranges -> ScheduleStates]]
  BY WorkerTypes DEF RecvInv, Inv, Types
<1>2. CASE StartWorker(w)
  <2>1. Resting
    BY <1>1, <1>2 DEF StartWorker, Resting, WorkerStates
  <2> QED BY <1>2, <2>1, RestingKeeps DEF StartWorker, InState
<1>3. CASE ProcessReady(w) \/ WorkerFinish(w)
  <2>1. worker[w].pc = "process" /\ "Request" \notin worker[w].flags /\ drainer[w].pc = "idle"
    BY <1>3 DEF ProcessReady, WorkerFinish, Process, RecvInv, DrainersProcess
  <2>2. worker'[w].flags = {} /\ \A v \in Workers : v # w => worker'[v] = worker[v]
    BY <1>1, <1>3 DEF ProcessReady, WorkerFinish, Process, WorkerStates
  <2>3. DrainersProcess'
    BY <2>1, <2>2 DEF RecvInv, DrainersProcess
  <2>4. \A id, q : \A v \in Workers : WillDrain(v, id, q) => WillDrain(v, id, q)'
    BY <2>1, <2>2 DEF WillDrain
  <2>5. ASSUME NEW id \in Ranges, InState(id) PROVE InState(id)'
    <3>1. CASE UNCHANGED state
      BY <2>5, <3>1 DEF InState
    <3>2. CASE /\ state[w[1]][worker[w].id].flags = {"Queued"}
               /\ state' = [state EXCEPT ![w[1]][worker[w].id] = NotScheduled]
      <4>1. PICK t \in Shards : "Request" \in state[t][id].flags
        BY <2>5 DEF InState
      <4>2. ~(t = w[1] /\ id = worker[w].id)
        BY <3>2, <4>1
      <4>3. state'[t][id] = state[t][id]
        BY <1>1, <3>2, <4>1, <4>2
      <4> QED BY <4>1, <4>3 DEF InState
    <3> QED BY <1>3, <3>1, <3>2 DEF ProcessReady, Process, WorkerFinish
  <2> QED BY <2>3, <2>4, <2>5
<1> QED BY <1>2, <1>3

LEMMA SchedulerStepRecv ==
  ASSUME NEW w \in Workers, RecvInv, Inv', SchedulerStep(w), UNCHANGED recvVars
  PROVE  RecvInv'
<1>1. /\ UNCHANGED <<handler, drainer, caller>> /\ worker' \in [Workers -> WorkerStates]
  <2>1. UNCHANGED caller
    BY DEF SchedulerStep, StartWorker, WorkerLoop, ProcessReady, Process, WorkerFinish
  <2> QED BY <2>1 DEF recvVars, Inv, Types
<1>2. /\ DrainersProcess'
      /\ \A id, q : \A v \in Workers : WillDrain(v, id, q) => WillDrain(v, id, q)'
      /\ \A id \in Ranges : \A q : InState(id) => InState(id)' \/ WillDrain(w, id, q)'
  BY <1>1, WorkerLoopKeeps, IdleWorkerKeeps DEF SchedulerStep
<1>3. /\ \A q : Handled(q) => Handled(q)'
      /\ \A id : Announced("Request", id) => Announced("Request", id)'
  BY <1>1 DEF Handled, Announced
<1>4. ASSUME NEW id \in Ranges, NEW q, DrainComes(id, q) PROVE DrainComes(id, q)'
  BY <1>2, <1>3, <1>4, DrainComesParts
<1> QED BY <1>2, <1>4, SchedulerKeeps

-----------------------------------------------------------------------------
(* Steps on the receive queues. *)

LEMMA NoStrandedNext ==
  ASSUME \A id \in Ranges : \A q :
           q = recvMap'[id] /\ q # 0 /\ recvQueue'[q].len > 0 => DrainComes(id, q)'
  PROVE  NoStrandedMessages'
BY DEF NoStrandedMessages, DrainComes

(* What follows when a drain comes for every queue that has messages after *)
(* a step that leaves the numbers of the queues alone.                     *)
LEMMA QueuesKept ==
  ASSUME RecvInv, Inv', UNCHANGED <<created, handler>>, DrainersProcess',
         recvQueue' \in [1 .. MaxQueues -> [len : Nat, destroyed : BOOLEAN]],
         \A q \in 1 .. MaxQueues : recvQueue'[q].len \in {0, recvQueue[q].len},
         recvMap' \in [Ranges -> 0 .. created],
         \A id \in Ranges : recvMap'[id] \in {0, recvMap[id]},
         drainer' \in [Workers -> DrainerStates],
         \A id \in Ranges : \A q :
           q = recvMap[id] /\ q # 0 /\ recvQueue'[q].len > 0 /\ DrainComes(id, q) => DrainComes(id, q)'
  PROVE  RecvInv'
<1>1. RecvTypes'
  BY DEF RecvInv, RecvTypes
<1>2. QueuesHaveOneRange'
  <2>1. \A i, j \in Ranges : recvMap'[i] = recvMap'[j] /\ recvMap'[i] # 0 => i = j
    BY DEF RecvInv, QueuesHaveOneRange
  <2>2. \A e \in Enqueuers, id \in Ranges :
          handler[e].pc # "idle" /\ recvMap'[id] = handler[e].q => id = handler[e].id
    BY DEF RecvInv, RecvTypes, QueuesHaveOneRange
  <2>3. \A q \in 1 .. MaxQueues : q > created => recvQueue'[q].len = 0
    BY DEF RecvInv, QueuesHaveOneRange
  <2> QED BY <2>1, <2>2, <2>3 DEF QueuesHaveOneRange
<1>3. NoStrandedMessages'
  <2>1. ASSUME NEW id \in Ranges, NEW q, q = recvMap'[id], q # 0, recvQueue'[q].len > 0
        PROVE  DrainComes(id, q)'
    <3>1. q = recvMap[id] /\ q \in 1 .. MaxQueues
      BY <2>1, RecvAssumption DEF RecvInv, RecvTypes
    <3>2. recvQueue[q].len > 0
      BY <2>1, <3>1
    <3>3. DrainComes(id, q)
      BY <2>1, <3>1, <3>2 DEF RecvInv, NoStrandedMessages
    <3> QED BY <2>1, <3>1, <3>3
  <2> QED BY <2>1, NoStrandedNext
<1> QED BY <1>1, <1>2, <1>3 DEF RecvInv

LEMMA DeleteQueueRecv ==
  ASSUME NEW d \in Deleters, RecvInv, Inv', DeleteQueue(d)
  PROVE  RecvInv'
<1>1. /\ UNCHANGED <<created, handler, drainer, caller, state, worker>>
      /\ recvQueue \in [1 .. MaxQueues -> [len : Nat, destroyed : BOOLEAN]]
      /\ recvMap \in [Ranges -> 0 .. created] /\ drainer \in [Workers -> DrainerStates]
      /\ created \in Nat
  BY DEF RecvInv, RecvTypes, DeleteQueue, schedVars
<1>2. \/ UNCHANGED recvQueue
      \/ \E q : recvQueue' = [recvQueue EXCEPT ![q] = [len |-> 0, destroyed |-> TRUE]]
  BY DEF DeleteQueue
<1>3. /\ recvQueue' \in [1 .. MaxQueues -> [len : Nat, destroyed : BOOLEAN]]
      /\ \A q \in 1 .. MaxQueues : recvQueue'[q].len \in {0, recvQueue[q].len}
  <2>1. CASE UNCHANGED recvQueue
    BY <1>1, <2>1
  <2>2. CASE \E q : recvQueue' = [recvQueue EXCEPT ![q] = [len |-> 0, destroyed |-> TRUE]]
    <3>1. PICK q : recvQueue' = [recvQueue EXCEPT ![q] = [len |-> 0, destroyed |-> TRUE]]
      BY <2>2
    <3> DEFINE n == [len |-> 0, destroyed |-> TRUE]
    <3>2. n \in [len : Nat, destroyed : BOOLEAN] /\ n.len = 0
      OBVIOUS
    <3>3. recvQueue' = [recvQueue EXCEPT ![q] = n]
      BY <3>1
    <3> HIDE DEF n
    <3>4. recvQueue' \in [1 .. MaxQueues -> [len : Nat, destroyed : BOOLEAN]]
      BY <1>1, <3>2, <3>3
    <3>5. \A o \in 1 .. MaxQueues : recvQueue'[o] \in {n, recvQueue[o]}
      BY <1>1, <3>3
    <3> QED BY <3>2, <3>4, <3>5
  <2> QED BY <1>2, <2>1, <2>2
<1>4. UNCHANGED recvMap \/ \E id : recvMap' = [recvMap EXCEPT ![id] = 0]
  BY DEF DeleteQueue
<1>5. recvMap' \in [Ranges -> 0 .. created] /\ \A id \in Ranges : recvMap'[id] \in {0, recvMap[id]}
  BY <1>1, <1>4
<1>6. DrainersProcess'
  BY <1>1 DEF RecvInv, DrainersProcess
<1>7. \A id, q : DrainComes(id, q) => DrainComes(id, q)'
  BY <1>1 DEF DrainComes
<1> QED BY <1>1, <1>3, <1>5, <1>6, <1>7, QueuesKept

(* The return of processRequestQueue takes a drain from nobody else. *)
LEMMA RequestsDoneKeeps ==
  ASSUME NEW w \in Workers, NEW ready, RecvInv, RequestsDone(w, ready), UNCHANGED handler,
         drainer' = [drainer EXCEPT ![w] = Idle]
  PROVE  /\ DrainersProcess'
         /\ drainer' \in [Workers -> DrainerStates]
         /\ \A id, q : DrainComes(id, q) => DrainComes(id, q)' \/ WillDrain(w, id, q)
<1>1. /\ worker \in [Workers -> WorkerStates] /\ drainer \in [Workers -> DrainerStates]
      /\ UNCHANGED <<caller, state>> /\ worker[w].pc = "process"
  BY DEF RecvInv, Inv, Types, RecvTypes, RequestsDone, Process
<1>2. /\ worker'[w].pc = "process"
      /\ \A v \in Workers : v # w => worker'[v] = worker[v]
  BY <1>1 DEF RequestsDone, Process, WorkerStates
<1>3. Idle \in DrainerStates /\ Idle.pc = "idle"
  BY DEF Idle, DrainerStates
<1>4. /\ drainer' \in [Workers -> DrainerStates] /\ drainer'[w].pc = "idle"
      /\ \A v \in Workers : v # w => drainer'[v] = drainer[v]
  BY <1>1, <1>3
<1>5. DrainersProcess'
  BY <1>2, <1>4 DEF RecvInv, DrainersProcess
<1>6. /\ \A q : Handled(q) => Handled(q)'
      /\ \A id : Announced("Request", id) => Announced("Request", id)'
      /\ \A id : InState(id) => InState(id)'
  BY <1>1 DEF Handled, Announced, InState
<1>7. \A id, q : \A v \in Workers : v # w /\ WillDrain(v, id, q) => WillDrain(v, id, q)'
  BY <1>2, <1>4 DEF WillDrain
<1>8. ASSUME NEW id, NEW q, DrainComes(id, q) PROVE DrainComes(id, q)' \/ WillDrain(w, id, q)
  BY <1>6, <1>7, <1>8, DrainComesParts
<1> QED BY <1>4, <1>5, <1>8

(* A drainer that moves on, without a return to the worker. *)
LEMMA DrainerMoves ==
  ASSUME NEW w \in Workers, NEW n \in DrainerStates, RecvInv, UNCHANGED <<schedVars, handler>>,
         drainer' = [drainer EXCEPT ![w] = n],
         worker[w].pc = "process", "Request" \in worker[w].flags
  PROVE  /\ DrainersProcess'
         /\ drainer' \in [Workers -> DrainerStates]
         /\ \A id, q : DrainComes(id, q) => DrainComes(id, q)' \/ WillDrain(w, id, q)
         /\ \A id, q : id = worker[w].id /\ n.pc = "drain" /\ n.q = q => DrainComes(id, q)'
<1>1. /\ drainer \in [Workers -> DrainerStates] /\ UNCHANGED <<caller, state, worker>>
  BY DEF RecvInv, RecvTypes, schedVars
<1>2. /\ drainer' \in [Workers -> DrainerStates] /\ drainer'[w] = n
      /\ \A v \in Workers : v # w => drainer'[v] = drainer[v]
  BY <1>1
<1>3. DrainersProcess'
  BY <1>1, <1>2 DEF RecvInv, DrainersProcess
<1>4. /\ \A q : Handled(q) => Handled(q)'
      /\ \A id : Announced("Request", id) => Announced("Request", id)'
      /\ \A id : InState(id) => InState(id)'
  BY <1>1 DEF Handled, Announced, InState
<1>5. \A id, q : \A v \in Workers : v # w /\ WillDrain(v, id, q) => WillDrain(v, id, q)'
  BY <1>1, <1>2 DEF WillDrain
<1>6. ASSUME NEW id, NEW q, DrainComes(id, q) PROVE DrainComes(id, q)' \/ WillDrain(w, id, q)
  BY <1>4, <1>5, <1>6, DrainComesParts
<1>7. ASSUME NEW id, NEW q, id = worker[w].id, n.pc = "drain", n.q = q PROVE DrainComes(id, q)'
  <2>1. WillDrain(w, id, q)'
    BY <1>1, <1>2, <1>7 DEF WillDrain
  <2> QED BY <2>1, DrainComesParts
<1> QED BY <1>2, <1>3, <1>6, <1>7

LEMMA DrainStepRecv ==
  ASSUME NEW w \in Workers, RecvInv, Inv', DrainStep(w)
  PROVE  RecvInv'
<1> DEFINE q == drainer[w].q
<1>1. /\ recvQueue \in [1 .. MaxQueues -> [len : Nat, destroyed : BOOLEAN]]
      /\ recvMap \in [Ranges -> 0 .. created] /\ created \in Nat
      /\ drainer \in [Workers -> DrainerStates]
      /\ \A id \in Ranges : recvMap[id] # 0 => recvMap[id] \in 1 .. MaxQueues
  BY RecvAssumption DEF RecvInv, RecvTypes
<1>2. UNCHANGED <<created, recvMap, handler>>
  BY DEF DrainStep, LoadQueue, Drain, StepMessages, ReturnAfterDelete
<1>3. worker[w].pc = "process" /\ "Request" \in worker[w].flags /\ worker[w].id \in Ranges
  <2>1. worker[w].pc = "process" /\ "Request" \in worker[w].flags
    BY DEF DrainStep, LoadQueue, Drain, StepMessages, ReturnAfterDelete, RecvInv, DrainersProcess
  <2> QED BY <2>1 DEF RecvInv, Inv, Types
<1>4. ASSUME DrainersProcess', drainer' \in [Workers -> DrainerStates], UNCHANGED recvQueue,
             \A id \in Ranges : \A o :
               o = recvMap[id] /\ o # 0 /\ DrainComes(id, o) => DrainComes(id, o)'
      PROVE  RecvInv'
  BY <1>1, <1>2, <1>4, QueuesKept
<1>5. CASE LoadQueue(w)
  <2>1. drainer[w].pc = "idle" /\ UNCHANGED recvQueue
    BY <1>5 DEF LoadQueue
  <2>2. CASE recvMap[worker[w].id] = 0 /\ RequestsDone(w, {}) /\ UNCHANGED drainer
    <3>1. \A id : \A o : WillDrain(w, id, o) => id = worker[w].id
      BY DEF WillDrain
    <3>2. DrainersProcess' /\ drainer' \in [Workers -> DrainerStates]
      <4>1. worker'[w].pc = "process" /\ \A v \in Workers : v # w => worker'[v] = worker[v]
        BY <1>3, <2>2 DEF RequestsDone, Process, RecvInv, Inv, Types, WorkerStates
      <4> QED BY <1>1, <2>1, <2>2, <4>1 DEF RecvInv, DrainersProcess
    <3>3. ASSUME NEW id \in Ranges, NEW o, id # worker[w].id, DrainComes(id, o)
          PROVE  DrainComes(id, o)'
      <4>1. /\ UNCHANGED <<caller, state, drainer, handler>>
            /\ \A v \in Workers : v # w => worker'[v] = worker[v]
        BY <1>2, <2>2 DEF RequestsDone, Process, RecvInv, Inv, Types
      <4>2. \A v \in Workers : WillDrain(v, id, o) => WillDrain(v, id, o)'
        BY <3>3, <4>1 DEF WillDrain
      <4>3. /\ Handled(o) => Handled(o)'
            /\ Announced("Request", id) => Announced("Request", id)'
            /\ InState(id) => InState(id)'
        BY <4>1 DEF Handled, Announced, InState
      <4> QED BY <3>3, <4>2, <4>3, DrainComesParts
    <3> QED BY <1>4, <2>1, <2>2, <3>2, <3>3
  <2>3. CASE /\ recvMap[worker[w].id] # 0 /\ UNCHANGED schedVars
             /\ drainer' = [drainer EXCEPT ![w] =
                              [pc |-> "drain", id |-> worker[w].id, q |-> recvMap[worker[w].id]]]
    <3> DEFINE n == [pc |-> "drain", id |-> worker[w].id, q |-> recvMap[worker[w].id]]
    <3>1. n \in DrainerStates /\ n.pc = "drain" /\ n.q = recvMap[worker[w].id]
      BY <1>1, <1>3 DEF DrainerStates
    <3>2. drainer' = [drainer EXCEPT ![w] = n]
      BY <2>3
    <3> HIDE DEF n
    <3>3. /\ DrainersProcess' /\ drainer' \in [Workers -> DrainerStates]
          /\ \A id, o : DrainComes(id, o) => DrainComes(id, o)' \/ WillDrain(w, id, o)
          /\ \A id, o : id = worker[w].id /\ n.pc = "drain" /\ n.q = o => DrainComes(id, o)'
      BY <1>2, <1>3, <2>3, <3>1, <3>2, DrainerMoves
    <3>4. ASSUME NEW id \in Ranges, NEW o, o = recvMap[id], DrainComes(id, o)
          PROVE  DrainComes(id, o)'
      <4>1. CASE WillDrain(w, id, o)
        <5>1. id = worker[w].id
          BY <4>1 DEF WillDrain
        <5> QED BY <3>1, <3>3, <3>4, <5>1
      <4> QED BY <3>3, <3>4, <4>1
    <3> QED BY <1>4, <2>1, <3>3, <3>4
  <2> QED BY <1>5, <2>2, <2>3 DEF LoadQueue
<1>6. CASE Drain(w)
  <2>1. drainer[w].pc = "drain" /\ recvQueue' = [recvQueue EXCEPT ![q].len = 0]
    BY <1>6 DEF Drain
  <2>2. /\ recvQueue' \in [1 .. MaxQueues -> [len : Nat, destroyed : BOOLEAN]]
        /\ \A o \in 1 .. MaxQueues : recvQueue'[o].len \in {0, recvQueue[o].len}
        /\ \A o \in 1 .. MaxQueues : o = q => recvQueue'[o].len = 0
    BY <1>1, <2>1
  <2>3. \A id, o : WillDrain(w, id, o) => o = q
    BY <2>1 DEF WillDrain
  <2>4. /\ DrainersProcess' /\ drainer' \in [Workers -> DrainerStates]
        /\ \A id, o : DrainComes(id, o) => DrainComes(id, o)' \/ WillDrain(w, id, o)
    <3>1. CASE RequestsDone(w, {}) /\ drainer' = [drainer EXCEPT ![w] = Idle]
      BY <1>2, <3>1, RequestsDoneKeeps
    <3>2. CASE drainer' = [drainer EXCEPT ![w].pc = "step"] /\ UNCHANGED schedVars
      <4> DEFINE n == [drainer[w] EXCEPT !.pc = "step"]
      <4>1. n \in DrainerStates /\ drainer' = [drainer EXCEPT ![w] = n]
        BY <1>1, <3>2 DEF DrainerStates
      <4> HIDE DEF n
      <4> QED BY <1>2, <1>3, <3>2, <4>1, DrainerMoves
    <3> QED BY <1>6, <3>1, <3>2 DEF Drain
  <2>5. ASSUME NEW id \in Ranges, NEW o, o = recvMap[id], o # 0, recvQueue'[o].len > 0,
               DrainComes(id, o)
        PROVE  DrainComes(id, o)'
    <3>1. o # q
      BY <1>1, <2>2, <2>5
    <3> QED BY <2>3, <2>4, <2>5, <3>1
  <2>6. recvMap' \in [Ranges -> 0 .. created] /\ \A id \in Ranges : recvMap'[id] \in {0, recvMap[id]}
    BY <1>1, <1>2
  <2> QED BY <1>2, <2>2, <2>4, <2>5, <2>6, QueuesKept
<1>7. CASE StepMessages(w) \/ ReturnAfterDelete(w)
  <2>1. drainer[w].pc \in {"step", "deleting"} /\ UNCHANGED recvQueue
    BY <1>7 DEF StepMessages, ReturnAfterDelete
  <2>2. \A id, o : ~WillDrain(w, id, o)
    BY <2>1 DEF WillDrain
  <2>3. /\ DrainersProcess' /\ drainer' \in [Workers -> DrainerStates]
        /\ \A id, o : DrainComes(id, o) => DrainComes(id, o)' \/ WillDrain(w, id, o)
    <3>1. CASE RequestsDone(w, {"Ready"}) /\ drainer' = [drainer EXCEPT ![w] = Idle]
      BY <1>2, <3>1, RequestsDoneKeeps
    <3>2. CASE drainer' = [drainer EXCEPT ![w].pc = "deleting"] /\ UNCHANGED schedVars
      <4> DEFINE n == [drainer[w] EXCEPT !.pc = "deleting"]
      <4>1. n \in DrainerStates /\ drainer' = [drainer EXCEPT ![w] = n]
        BY <1>1, <3>2 DEF DrainerStates
      <4> HIDE DEF n
      <4> QED BY <1>2, <1>3, <3>2, <4>1, DrainerMoves
    <3> QED BY <1>7, <3>1, <3>2 DEF StepMessages, ReturnAfterDelete
  <2> QED BY <1>4, <2>1, <2>2, <2>3
<1> QED BY <1>5, <1>6, <1>7 DEF DrainStep

-----------------------------------------------------------------------------
(* Steps of HandleRaftRequest. *)

(* Another handler that is going to enqueue still is. *)
LEMMA HandlerMoves ==
  ASSUME NEW e \in Enqueuers, NEW n \in HandlerStates, RecvInv,
         handler' = [handler EXCEPT ![e] = n]
  PROVE  /\ handler' \in [Enqueuers -> HandlerStates] /\ handler'[e] = n
         /\ \A x \in Enqueuers : x # e => handler'[x] = handler[x]
         /\ \A q : Handled(q) => Handled(q)' \/ (handler[e].pc = "enqueue" /\ handler[e].q = q)
<1>1. handler \in [Enqueuers -> HandlerStates]
  BY DEF RecvInv, RecvTypes
<1>2. /\ handler' \in [Enqueuers -> HandlerStates] /\ handler'[e] = n
      /\ \A x \in Enqueuers : x # e => handler'[x] = handler[x]
  BY <1>1
<1>3. \A q : Handled(q) => Handled(q)' \/ (handler[e].pc = "enqueue" /\ handler[e].q = q)
  BY <1>2 DEF Handled
<1> QED BY <1>2, <1>3

(* Drains that come with an enqueued range, and drainers, stay. *)
LEMMA RestStays ==
  ASSUME RecvInv, UNCHANGED <<schedVars, drainer>>
  PROVE  /\ DrainersProcess' /\ drainer' \in [Workers -> DrainerStates]
         /\ \A id, q : DrainComes(id, q) => DrainComes(id, q)' \/ Handled(q)
<1>1. UNCHANGED <<caller, state, worker, drainer>>
  BY DEF schedVars
<1>2. DrainersProcess' /\ drainer' \in [Workers -> DrainerStates]
  BY <1>1 DEF RecvInv, RecvTypes, DrainersProcess
<1>3. /\ \A id : Announced("Request", id) => Announced("Request", id)'
      /\ \A id : InState(id) => InState(id)'
      /\ \A id, q : \A v \in Workers : WillDrain(v, id, q) => WillDrain(v, id, q)'
  BY <1>1 DEF Announced, InState, WillDrain
<1>4. ASSUME NEW id, NEW q, DrainComes(id, q) PROVE DrainComes(id, q)' \/ Handled(q)
  BY <1>3, <1>4, DrainComesParts
<1> QED BY <1>2, <1>4

LEMMA HandledDrains == \A id, q : Handled(q)' => DrainComes(id, q)'
<1> SUFFICES ASSUME NEW id, NEW q, Handled(q)' PROVE DrainComes(id, q)'
  OBVIOUS
<1> QED BY DrainComesParts

LEMMA LoadOrCreateRecv ==
  ASSUME NEW e \in Enqueuers, NEW id \in Ranges, RecvInv, Inv', LoadOrCreate(e, id)
  PROVE  RecvInv'
<1> DEFINE q == IF recvMap[id] # 0 THEN recvMap[id] ELSE created + 1
           n == [pc |-> "append", id |-> id, q |-> q]
<1>1. /\ handler[e].pc = "idle"
      /\ recvMap[id] # 0 \/ created < MaxQueues
      /\ handler' = [handler EXCEPT ![e] = n]
      /\ recvMap' = [recvMap EXCEPT ![id] = q]
      /\ created' = IF recvMap[id] # 0 THEN created ELSE created + 1
      /\ UNCHANGED <<schedVars, recvQueue, drainer>>
  BY DEF LoadOrCreate
<1>2. /\ created \in 0 .. MaxQueues /\ MaxQueues \in Nat /\ recvMap \in [Ranges -> 0 .. created]
      /\ recvQueue \in [1 .. MaxQueues -> [len : Nat, destroyed : BOOLEAN]]
      /\ \A x \in Enqueuers : handler[x].pc # "idle" =>
           handler[x].id \in Ranges /\ handler[x].q \in 1 .. created
  BY RecvAssumption DEF RecvInv, RecvTypes
<1>3. /\ created' \in 0 .. MaxQueues /\ created <= created' /\ q \in 1 .. created' /\ q \in Nat
      /\ q = recvMap[id] \/ (recvMap[id] = 0 /\ q = created + 1)
  BY <1>1, <1>2
<1> HIDE DEF q
<1>4. n \in HandlerStates /\ n.pc = "append" /\ n.id = id /\ n.q = q
  BY <1>3 DEF HandlerStates
<1> HIDE DEF n
<1>5. /\ handler' \in [Enqueuers -> HandlerStates] /\ handler'[e] = n
      /\ \A x \in Enqueuers : x # e => handler'[x] = handler[x]
      /\ \A o : Handled(o) => Handled(o)'
  BY <1>1, <1>4, HandlerMoves
<1>6. recvMap' \in [Ranges -> 0 .. created'] /\ recvMap'[id] = q
      /\ \A x \in Ranges : x # id => recvMap'[x] = recvMap[x]
  <2>1. \A x \in Ranges : recvMap[x] \in 0 .. created'
    BY <1>2, <1>3
  <2> QED BY <1>1, <1>2, <1>3, <2>1
<1>7. RecvTypes'
  <2>1. \A k \in 1 .. created : k \in 1 .. created'
    BY <1>2, <1>3
  <2>2. \A x \in Enqueuers : handler'[x].pc # "idle" =>
          handler'[x].id \in Ranges /\ handler'[x].q \in 1 .. created'
    BY <1>2, <1>3, <1>4, <1>5, <2>1
  <2> QED BY <1>1, <1>3, <1>5, <1>6, <2>2 DEF RecvInv, RecvTypes
<1>8. QueuesHaveOneRange'
  <2>1. ASSUME NEW x \in Ranges, x # id PROVE recvMap'[x] # q
    BY <1>2, <1>3, <1>6, <2>1 DEF RecvInv, QueuesHaveOneRange
  <2>2. \A i, j \in Ranges : recvMap'[i] = recvMap'[j] /\ recvMap'[i] # 0 => i = j
    BY <1>6, <2>1 DEF RecvInv, QueuesHaveOneRange
  <2>3. ASSUME NEW y \in Enqueuers, NEW x \in Ranges,
               handler'[y].pc # "idle", recvMap'[x] = handler'[y].q
        PROVE  x = handler'[y].id
    <3>1. CASE y = e
      BY <1>4, <1>5, <2>1, <2>3, <3>1
    <3>2. CASE y # e
      <4>1. handler'[y] = handler[y] /\ handler[y].q \in 1 .. created
        BY <1>2, <1>5, <2>3, <3>2
      <4>2. recvMap[x] = handler[y].q
        BY <1>2, <1>3, <1>6, <2>3, <4>1
      <4> QED BY <2>3, <4>1, <4>2 DEF RecvInv, QueuesHaveOneRange
    <3> QED BY <3>1, <3>2
  <2>4. \A o \in 1 .. MaxQueues : o > created' => recvQueue'[o].len = 0
    BY <1>1, <1>2, <1>3 DEF RecvInv, QueuesHaveOneRange
  <2> QED BY <2>2, <2>3, <2>4 DEF QueuesHaveOneRange
<1>9. /\ DrainersProcess'
      /\ \A x, o : DrainComes(x, o) => DrainComes(x, o)'
  BY <1>1, <1>5, RestStays, HandledDrains
<1>10. ASSUME NEW x \in Ranges, NEW o, o = recvMap'[x], o # 0, recvQueue'[o].len > 0
       PROVE  DrainComes(x, o)'
  <2>1. recvMap[x] = o
    <3>1. q = created + 1 => recvQueue'[q].len = 0 \/ ~(created < MaxQueues)
      BY <1>1, <1>2, <1>3 DEF RecvInv, QueuesHaveOneRange
    <3> QED BY <1>1, <1>2, <1>3, <1>6, <1>10, <3>1
  <2> QED BY <1>1, <1>9, <1>10, <2>1 DEF RecvInv, NoStrandedMessages
<1>11. NoStrandedMessages'
  BY <1>10, NoStrandedNext
<1> QED BY <1>7, <1>8, <1>9, <1>11 DEF RecvInv

LEMMA AppendMessageRecv ==
  ASSUME NEW e \in Enqueuers, RecvInv, Inv', AppendMessage(e)
  PROVE  RecvInv'
<1> DEFINE q == handler[e].q
<1>1. /\ handler[e].pc = "append" /\ UNCHANGED <<schedVars, created, recvMap, drainer>>
  BY DEF AppendMessage
<1>2. /\ created \in 0 .. MaxQueues /\ MaxQueues \in Nat /\ recvMap \in [Ranges -> 0 .. created]
      /\ recvQueue \in [1 .. MaxQueues -> [len : Nat, destroyed : BOOLEAN]]
      /\ handler \in [Enqueuers -> HandlerStates]
      /\ handler[e].id \in Ranges /\ q \in 1 .. created /\ q \in 1 .. MaxQueues
  BY <1>1, RecvAssumption DEF RecvInv, RecvTypes
<1>3. Idle \in HandlerStates /\ Idle.pc = "idle"
  BY DEF Idle, HandlerStates
<1> DEFINE a == [handler[e] EXCEPT !.pc = "enqueue"]
<1>4. a \in HandlerStates /\ a.pc = "enqueue" /\ a.q = q /\ a.id = handler[e].id
  BY <1>2 DEF HandlerStates
<1>5. PICK n \in {Idle, a} :
        /\ handler' = [handler EXCEPT ![e] = n]
        /\ \/ UNCHANGED recvQueue
           \/ /\ recvQueue' = [recvQueue EXCEPT ![q].len = @ + 1]
              /\ recvQueue[q].len = 0 => n = a
  BY DEF AppendMessage
<1> HIDE DEF a
<1>6. /\ handler' \in [Enqueuers -> HandlerStates] /\ handler'[e] = n
      /\ \A x \in Enqueuers : x # e => handler'[x] = handler[x]
      /\ \A o : Handled(o) => Handled(o)'
  BY <1>1, <1>3, <1>4, <1>5, HandlerMoves
<1>7. /\ recvQueue' \in [1 .. MaxQueues -> [len : Nat, destroyed : BOOLEAN]]
      /\ \A o \in 1 .. MaxQueues : o # q => recvQueue'[o] = recvQueue[o]
      /\ recvQueue[q].len > 0 \/ n = a \/ recvQueue'[q] = recvQueue[q]
  <2>1. CASE UNCHANGED recvQueue
    BY <1>2, <2>1
  <2>2. CASE /\ recvQueue' = [recvQueue EXCEPT ![q].len = @ + 1]
             /\ recvQueue[q].len = 0 => n = a
    <3> DEFINE m == [recvQueue[q] EXCEPT !.len = @ + 1]
    <3>1. m \in [len : Nat, destroyed : BOOLEAN] /\ recvQueue[q].len \in Nat
      <4>1. recvQueue[q] \in [len : Nat, destroyed : BOOLEAN]
        BY <1>2
      <4> HIDE DEF q
      <4> QED BY <4>1
    <3>2. recvQueue' = [recvQueue EXCEPT ![q] = m]
      BY <1>2, <2>2
    <3> HIDE DEF m, q
    <3>3. recvQueue' \in [1 .. MaxQueues -> [len : Nat, destroyed : BOOLEAN]]
      BY <1>2, <3>1, <3>2
    <3>4. \A o \in 1 .. MaxQueues : o # q => recvQueue'[o] = recvQueue[o]
      BY <1>2, <3>2
    <3>5. recvQueue[q].len > 0 \/ n = a
      BY <2>2, <3>1
    <3> QED BY <3>3, <3>4, <3>5
  <2> QED BY <1>5, <2>1, <2>2
<1>8. RecvTypes'
  <2>1. \A x \in Enqueuers : handler'[x].pc # "idle" =>
          handler'[x].id \in Ranges /\ handler'[x].q \in 1 .. created
    BY <1>2, <1>3, <1>4, <1>5, <1>6 DEF RecvInv, RecvTypes
  <2> QED BY <1>1, <1>6, <1>7, <2>1 DEF RecvInv, RecvTypes
<1>9. QueuesHaveOneRange'
  <2>1. \A y \in Enqueuers, x \in Ranges :
          handler'[y].pc # "idle" /\ recvMap[x] = handler'[y].q => x = handler'[y].id
    BY <1>1, <1>3, <1>4, <1>5, <1>6 DEF RecvInv, QueuesHaveOneRange
  <2>2. \A o \in 1 .. MaxQueues : o > created => recvQueue'[o].len = 0
    <3>1. \A o \in 1 .. MaxQueues : o > created => o # q
      BY <1>2
    <3> QED BY <1>7, <3>1 DEF RecvInv, QueuesHaveOneRange
  <2> QED BY <1>1, <2>1, <2>2 DEF RecvInv, QueuesHaveOneRange
<1>10. DrainersProcess' /\ \A x, o : DrainComes(x, o) => DrainComes(x, o)'
  BY <1>1, <1>6, RestStays, HandledDrains
<1>11. ASSUME NEW x \in Ranges, NEW o, o = recvMap'[x], o # 0, recvQueue'[o].len > 0
       PROVE  DrainComes(x, o)'
  <2>1. o = recvMap[x] /\ o \in 1 .. MaxQueues /\ recvQueue[o].len \in Nat
    BY <1>1, <1>2, <1>11
  <2>2. CASE recvQueue[o].len > 0
    BY <1>10, <1>11, <2>1, <2>2 DEF RecvInv, NoStrandedMessages
  <2>3. CASE ~(recvQueue[o].len > 0)
    <3>1. o = q /\ n = a
      BY <1>7, <1>11, <2>1, <2>3
    <3>2. Handled(o)'
      BY <1>4, <1>6, <3>1 DEF Handled
    <3> QED BY <3>2, HandledDrains
  <2> QED BY <2>2, <2>3
<1>12. NoStrandedMessages'
  BY <1>11, NoStrandedNext
<1> QED BY <1>8, <1>9, <1>10, <1>12 DEF RecvInv

LEMMA EnqueueRaftRequestRecv ==
  ASSUME NEW e \in Enqueuers, RecvInv, Inv', EnqueueRaftRequest(e)
  PROVE  RecvInv'
<1> DEFINE h == handler[e]
<1>1. /\ h.pc = "enqueue" /\ BeginCall(e, "Request", <<h.id>>)
      /\ handler' = [handler EXCEPT ![e] = Idle]
      /\ UNCHANGED <<created, recvQueue, recvMap, drainer>>
  BY DEF EnqueueRaftRequest
<1>2. h.id \in Ranges
  BY <1>1 DEF RecvInv, RecvTypes
<1>3. Idle \in HandlerStates /\ Idle.pc = "idle"
  BY DEF Idle, HandlerStates
<1>4. /\ handler' \in [Enqueuers -> HandlerStates] /\ handler'[e] = Idle
      /\ \A x \in Enqueuers : x # e => handler'[x] = handler[x]
      /\ \A q : Handled(q) => Handled(q)' \/ (h.pc = "enqueue" /\ h.q = q)
  BY <1>1, <1>3, HandlerMoves
<1>5. UNCHANGED <<state, worker>> /\ caller[e].pc = "idle" /\ caller \in [Enqueuers -> Calls]
  BY <1>1 DEF BeginCall, RecvInv, Inv, Types
<1>6. \A id \in Ranges : Announced("Request", id) => Announced("Request", id)'
  <2>1. \A id : ~Announces(caller[e], id)
    BY <1>5 DEF RecvInv, Inv, CallsHold, CallInv, Announces
  <2>2. \A x \in Enqueuers : x # e => caller'[x] = caller[x]
    BY <1>1, <1>5 DEF BeginCall
  <2> QED BY <2>1, <2>2 DEF Announced
<1>7. \A id \in Ranges : id = h.id => Announced("Request", id)'
  <2> DEFINE i == h.id
             s == ShardIndex(i, priorityIDs)
             sh == [k \in DOMAIN <<i>> |-> ShardIndex(<<i>>[k], priorityIDs)]
             c == [NoCall EXCEPT !.pc = "enqueue", !.kind = "Request", !.ids = <<i>>, !.shards = sh]
  <2>1. caller'[e] = c
    BY <1>1, <1>5 DEF BeginCall
  <2>2. /\ c.ids = <<i>> /\ c.shards = sh /\ c.shard = 0 /\ c.next = 1 /\ c.kind = "Request"
    BY DEF NoCall
  <2>3. DOMAIN <<i>> = {1} /\ <<i>>[1] = i /\ sh[1] = s
    OBVIOUS
  <2>4. s \in Nat
    BY <1>2, ShardTypes DEF Shards
  <2> HIDE DEF c, s, sh, i
  <2>5. s > 0 \/ s = 0
    BY <2>4
  <2>6. 1 \in DOMAIN c.ids /\ c.ids[1] = i /\ (c.shards[1] > c.shard \/ 1 \in Left(c))
    BY <2>2, <2>3, <2>5 DEF Left
  <2>7. Announces(c, i)
    BY <2>6 DEF Announces
  <2>8. ASSUME NEW id, id = h.id PROVE Announced("Request", id)'
    BY <2>1, <2>2, <2>7, <2>8 DEF Announced, i
  <2> QED BY <2>8
<1>8. RecvTypes'
  BY <1>1, <1>3, <1>4 DEF RecvInv, RecvTypes
<1>9. QueuesHaveOneRange'
  BY <1>1, <1>3, <1>4 DEF RecvInv, QueuesHaveOneRange
<1>10. DrainersProcess'
  BY <1>1, <1>5 DEF RecvInv, DrainersProcess
<1>11. ASSUME NEW x \in Ranges, NEW o, o = recvMap'[x], o # 0, recvQueue'[o].len > 0
       PROVE  DrainComes(x, o)'
  <2>1. o = recvMap[x] /\ DrainComes(x, o)
    BY <1>1, <1>11 DEF RecvInv, NoStrandedMessages
  <2>2. CASE h.q = o
    <3>1. x = h.id
      BY <1>1, <2>1, <2>2 DEF RecvInv, QueuesHaveOneRange
    <3> QED BY <1>7, <3>1, DrainComesParts
  <2>3. CASE h.q # o
    <3>1. /\ Handled(o) => Handled(o)'
          /\ InState(x) => InState(x)'
          /\ \A v \in Workers : WillDrain(v, x, o) => WillDrain(v, x, o)'
      BY <1>1, <1>4, <1>5, <2>3 DEF InState, WillDrain
    <3> QED BY <1>6, <2>1, <3>1, DrainComesParts
  <2> QED BY <2>2, <2>3
<1>12. NoStrandedMessages'
  BY <1>11, NoStrandedNext
<1> QED BY <1>8, <1>9, <1>10, <1>12 DEF RecvInv

-----------------------------------------------------------------------------

LEMMA RecvInitInv == RecvInit => RecvInv
<1> SUFFICES ASSUME RecvInit PROVE RecvInv
  OBVIOUS
<1>1. Inv
  BY InitInv DEF RecvInit
<1>2. Idle \in HandlerStates /\ Idle \in DrainerStates /\ Idle.pc = "idle"
  BY DEF Idle, HandlerStates, DrainerStates
<1>3. RecvTypes
  BY <1>2, RecvAssumption DEF RecvInit, RecvTypes
<1>4. QueuesHaveOneRange
  BY <1>2 DEF RecvInit, QueuesHaveOneRange
<1>5. DrainersProcess
  BY <1>2 DEF RecvInit, Init, DrainersProcess
<1>6. NoStrandedMessages
  BY DEF RecvInit, NoStrandedMessages
<1> QED BY <1>1, <1>3, <1>4, <1>5, <1>6 DEF RecvInv

LEMMA RecvNextInv == RecvInv /\ [RecvNext]_vars => RecvInv'
<1> SUFFICES ASSUME RecvInv, [RecvNext]_vars PROVE RecvInv'
  OBVIOUS
<1>1. Inv'
  BY RecvUsesScheduler, NextInv DEF RecvInv
<1>2. ASSUME NEW e \in Enqueuers,
             (\E id \in Ranges : LoadOrCreate(e, id)) \/ HandlerStep(e)
      PROVE  RecvInv'
  BY <1>1, <1>2, LoadOrCreateRecv, AppendMessageRecv, EnqueueRaftRequestRecv DEF HandlerStep
<1>3. ASSUME NEW e \in Enqueuers, CallerStep(e), UNCHANGED recvVars PROVE RecvInv'
  BY <1>1, <1>3, CallerStepRecv
<1>4. ASSUME NEW w \in Workers, DrainStep(w) PROVE RecvInv'
  BY <1>1, <1>4, DrainStepRecv
<1>5. ASSUME NEW w \in Workers, SchedulerStep(w), UNCHANGED recvVars PROVE RecvInv'
  BY <1>1, <1>5, SchedulerStepRecv
<1>6. ASSUME NEW d \in Deleters, DeleteQueue(d) PROVE RecvInv'
  BY <1>1, <1>6, DeleteQueueRecv
<1>7. ASSUME UNCHANGED <<schedVars, created, recvQueue, recvMap, handler, drainer>> PROVE RecvInv'
  <2>1. UNCHANGED <<caller, state, worker>>
    BY <1>7 DEF schedVars
  <2>2. RecvTypes' /\ QueuesHaveOneRange' /\ DrainersProcess'
    BY <1>7, <2>1 DEF RecvInv, RecvTypes, QueuesHaveOneRange, DrainersProcess
  <2>3. NoStrandedMessages'
    BY <1>7, <2>1 DEF RecvInv, NoStrandedMessages, DrainComes
  <2> QED BY <1>1, <2>2, <2>3 DEF RecvInv
<1>8. ASSUME NEW id \in Ranges, UnlinkReplica(id) \/ AddReplica(id) PROVE RecvInv'
  BY <1>7, <1>8 DEF UnlinkReplica, AddReplica
<1>9. ASSUME UNCHANGED vars PROVE RecvInv'
  BY <1>7, <1>9 DEF vars, recvVars
<1> QED BY <1>2, <1>3, <1>4, <1>5, <1>6, <1>8, <1>9 DEF RecvNext

(* No message is stranded in a receive queue: although only the append     *)
(* that finds a queue empty enqueues its range, somebody is going to drain *)
(* a queue that has messages, however appends, drains, deletions and the   *)
(* scheduler interleave (store_raft.go: HandleRaftRequest,                 *)
(* processRequestQueue, raftReceiveQueues.Delete).                         *)
THEOREM MessagesAreDrained == RecvSpec => []NoStrandedMessages
<1>1. RecvSpec => []RecvInv
  BY RecvInitInv, RecvNextInv, PTL DEF RecvSpec
<1>2. RecvInv => NoStrandedMessages
  BY DEF RecvInv
<1> QED BY <1>1, <1>2, PTL
=============================================================================
