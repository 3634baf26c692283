--------------------- MODULE StoreLivenessTransportProofs ---------------------
(***************************************************************************)
(* Proofs about StoreLivenessTransport: its types, that every queue has one *)
(* worker and every worker its queue, and that no wake-up is lost.          *)
(***************************************************************************)
EXTENDS StoreLivenessTransport, TLAPS

\* A SendAsync in progress has its message, and its queue once it found or created one.
CallsAreComplete ==
  \A s \in Stores :
    /\ loop[s] \in {"store", "start", "enqueue"} => call[s] \in Call
    /\ loop[s] \in {"start", "enqueue"} => call[s].queue \in Queues

\* A caller that is about to start a worker is the only one for its queue, which
\* nobody has deleted or replaced since it was created.
StartersOwnTheirQueue ==
  \A s \in Stores :
    loop[s] = "start" =>
      /\ queues[NodeOf[s]][call[s].msg.to.node] = call[s].queue
      /\ worker[call[s].queue].pc = "none"
      /\ \A r \in Stores : loop[r] = "start" /\ call[r].queue = call[s].queue => r = s

\* A queue serves one link.
QueuesAreDistinct ==
  \A n, d, m, e \in Nodes :
    queues[n][d] = queues[m][e] /\ queues[n][d] # NoQueue => n = m /\ d = e

\* The inductive invariant.
Inv ==
  /\ TypeOK
  /\ CallsAreComplete
  /\ StartersOwnTheirQueue
  /\ QueuesAreDistinct
  /\ QueueIsServed
  /\ WorkerFindsQueue

\* What the first element and the rest of a sequence of messages are.
LEMMA MessageSeq ==
  ASSUME NEW q \in Seq(Message), q # <<>>
  PROVE  /\ Head(q) \in Message
         /\ Tail(q) \in Seq(Message)
         /\ Len(Tail(q)) = Len(q) - 1
OBVIOUS

\* What messages are made of.
LEMMA MessageParts ==
  ASSUME NEW m \in Message
  PROVE  /\ m.to \in StoreIdent /\ m.from \in StoreIdent
         /\ m.to.node \in Nodes
         /\ m.sender \in Stores
         /\ m.number \in 0..MaxNumber
BY DEF Message, StoreIdent

\* What the steps of a worker make of its record.
LEMMA WorkerParts ==
  ASSUME NEW x \in Worker, NEW pc \in {"spawned", "dialing", "streaming", "closing", "broken"},
         NEW q \in Queues \cup {NoQueue}, NEW b \in Seq(Message)
  PROVE  /\ [x EXCEPT !.pc = pc] \in Worker
         /\ [x EXCEPT !.batch = b] \in Worker
         /\ [x EXCEPT !.pc = pc, !.queue = q] \in Worker
         /\ [x EXCEPT !.pc = pc, !.batch = b] \in Worker
BY DEF Worker

\* The initial states have the types of the variables and satisfy the invariant.
LEMMA InitInv == Init => Inv
<1> SUFFICES ASSUME Init PROVE Inv
  OBVIOUS
<1>1. TypeOK
  BY TransportAssumption DEF Init, TypeOK
<1>2. \A s \in Stores : loop[s] = "created"
  BY DEF Init
<1>3. \A n, d \in Nodes : queues[n][d] = NoQueue
  BY DEF Init
<1>4. \A w \in Queues : worker[w].pc = "none"
  BY DEF Init, NoWorker
<1> QED
  BY <1>1, <1>2, <1>3, <1>4
  DEF Inv, CallsAreComplete, StartersOwnTheirQueue, QueuesAreDistinct, QueueIsServed, WorkerFindsQueue

\* The steps of a main loop leave well-typed variables and complete calls.
LEMMA LoopTypes ==
  ASSUME Inv, NEW s \in Stores,
         LoopStep(s) \/ SendHeartbeats(s) \/ ReceiveSig(s) \/ BreakerTrips(s)
  PROVE  TypeOK' /\ CallsAreComplete'
<1> TypeOK /\ CallsAreComplete
  BY DEF Inv
<1> USE TransportAssumption
<1>1. CASE ListenMessages(s)
  BY <1>1 DEF ListenMessages, TypeOK, CallsAreComplete
<1>2. CASE StartLoop(s)
  BY <1>2 DEF StartLoop, TypeOK, CallsAreComplete
<1>3. CASE Drain(s)
  <2>1. \A i \in DOMAIN received[s] : received[s][i] \in Message
    BY DEF TypeOK
  <2>2. \A i \in DOMAIN received[s] :
          [type |-> "MsgHeartbeatResp", from |-> received[s][i].to, to |-> received[s][i].from] \in Outgoing
    BY <2>1, MessageParts DEF Outgoing
  <2>3. outgoing' \in [Stores -> SUBSET Outgoing]
    BY <1>3, <2>2 DEF Drain, TypeOK
  <2>4. received' \in [Stores -> Seq(Message)]
    BY <1>3 DEF Drain, TypeOK
  <2> QED
    BY <1>3, <2>3, <2>4 DEF Drain, TypeOK, CallsAreComplete
<1>4. CASE BreakerTripped(s) \/ BreakerTrips(s)
  <2>1. PICK o \in outgoing[s] : outgoing' = [outgoing EXCEPT ![s] = @ \ {o}]
    BY <1>4 DEF BreakerTripped, BreakerTrips
  <2>2. outgoing' \in [Stores -> SUBSET Outgoing]
    BY <2>1 DEF TypeOK
  <2>3. failures' \in Nat
    BY <1>4 DEF BreakerTripped, BreakerTrips, Fail, TypeOK
  <2> QED
    BY <1>4, <2>2, <2>3 DEF BreakerTripped, BreakerTrips, TypeOK, CallsAreComplete
<1>5. CASE SendAsync(s)
  <2>1. PICK o \in outgoing[s] : SendAsync(s)!2!(o)
    BY <1>5 DEF SendAsync
  <2> DEFINE q == queues[NodeOf[s]][o.to.node]
             n == IF count[s] < MaxNumber THEN count[s] + 1 ELSE MaxNumber
             m == [type |-> o.type, from |-> o.from, to |-> o.to, sender |-> s, number |-> n]
  <2>2. o \in Outgoing /\ o.to.node \in Nodes /\ NodeOf[s] \in Nodes
    BY DEF TypeOK, Outgoing, StoreIdent
  <2>3. q \in Queues \cup {NoQueue} /\ n \in 0..MaxNumber
    BY <2>2 DEF TypeOK
  <2>4. [msg |-> m, queue |-> q] \in Call
    BY <2>2, <2>3 DEF Outgoing, Message, Call
  <2>5. call' = [call EXCEPT ![s] = [msg |-> m, queue |-> q]]
    BY <2>1
  <2>6. call' \in [Stores -> Call \cup {NoCall}] /\ count' \in [Stores -> 0..MaxNumber]
    BY <2>1, <2>3, <2>4, <2>5 DEF TypeOK
  <2>7. loop' = [loop EXCEPT ![s] = IF q = NoQueue THEN "store" ELSE "enqueue"]
    BY <2>1
  <2>8. CallsAreComplete'
    BY <2>3, <2>4, <2>5, <2>7 DEF CallsAreComplete, TypeOK
  <2>9. outgoing' \in [Stores -> SUBSET Outgoing]
    BY <2>1 DEF TypeOK
  <2> QED
    BY <1>5, <2>6, <2>7, <2>8, <2>9 DEF SendAsync, TypeOK
<1>6. CASE LoadOrStore(s)
  <2>1. call[s] \in Call /\ call[s].msg.to.node \in Nodes /\ NodeOf[s] \in Nodes
    BY <1>6, MessageParts DEF LoadOrStore, CallsAreComplete, Call
  <2>2. \A q \in Queues : [call[s] EXCEPT !.queue = q] \in Call
    BY <2>1 DEF Call
  <2>3. \A q \in Queues : call' = [call EXCEPT ![s].queue = q] /\ loop[s] = "store" =>
           call' \in [Stores -> Call \cup {NoCall}] /\ call'[s] \in Call /\ call'[s].queue = q
    BY <2>1, <2>2 DEF TypeOK, Call
  <2>4. CASE queues[NodeOf[s]][call[s].msg.to.node] # NoQueue
    <3> DEFINE q == queues[NodeOf[s]][call[s].msg.to.node]
    <3>1. q \in Queues
      BY <2>1, <2>4 DEF TypeOK
    <3>2. /\ call' = [call EXCEPT ![s].queue = q]
          /\ loop[s] = "store" /\ loop' = [loop EXCEPT ![s] = "enqueue"]
          /\ UNCHANGED <<queues, messages>>
      BY <1>6, <2>4 DEF LoadOrStore
    <3>3. call' \in [Stores -> Call \cup {NoCall}] /\ call'[s] \in Call /\ call'[s].queue = q
      BY <2>3, <3>1, <3>2
    <3>4. CallsAreComplete'
      BY <3>1, <3>2, <3>3 DEF CallsAreComplete, TypeOK
    <3> QED
      BY <1>6, <3>2, <3>3, <3>4 DEF LoadOrStore, TypeOK
  <2>5. CASE queues[NodeOf[s]][call[s].msg.to.node] = NoQueue
    <3>1. PICK q \in Queues :
            /\ queues' = [queues EXCEPT ![NodeOf[s]][call[s].msg.to.node] = q]
            /\ messages' = [messages EXCEPT ![q] = <<>>]
            /\ call' = [call EXCEPT ![s].queue = q]
      BY <1>6, <2>5 DEF LoadOrStore
    <3>2. loop[s] = "store" /\ loop' = [loop EXCEPT ![s] = "start"]
      BY <1>6, <2>5 DEF LoadOrStore
    <3>3. call' \in [Stores -> Call \cup {NoCall}] /\ call'[s] \in Call /\ call'[s].queue = q
      BY <2>3, <3>1, <3>2
    <3>4. CallsAreComplete'
      BY <3>1, <3>2, <3>3 DEF CallsAreComplete, TypeOK
    <3>5. queues' \in [Nodes -> [Nodes -> Queues \cup {NoQueue}]]
      BY <2>1, <3>1 DEF TypeOK
    <3>6. messages' \in [Queues -> Seq(Message)] /\ \A p \in Queues : Len(messages'[p]) <= SendBufferSize
      <4>1. <<>> \in Seq(Message) /\ Len(<<>>) = 0
        OBVIOUS
      <4> QED
        BY <3>1, <4>1 DEF TypeOK
    <3> QED
      BY <1>6, <3>2, <3>3, <3>4, <3>5, <3>6 DEF LoadOrStore, TypeOK
  <2> QED
    BY <2>4, <2>5
<1>7. CASE StartProcessNewQueue(s)
  <2>1. call[s] \in Call /\ call[s].msg.to.node \in Nodes /\ call[s].queue \in Queues /\ NodeOf[s] \in Nodes
    BY <1>7, MessageParts DEF StartProcessNewQueue, CallsAreComplete, Call
  <2>2. worker' \in [Queues -> Worker \cup {NoWorker}]
    BY <1>7, <2>1 DEF StartProcessNewQueue, TypeOK, Worker
  <2> QED
    BY <1>7, <2>1, <2>2 DEF StartProcessNewQueue, TypeOK, CallsAreComplete
<1>8. CASE StartRefused(s)
  <2>1. call[s].msg.to.node \in Nodes /\ NodeOf[s] \in Nodes
    BY <1>8, MessageParts DEF StartRefused, CallsAreComplete, Call
  <2>2. queues' \in [Nodes -> [Nodes -> Queues \cup {NoQueue}]]
    BY <1>8, <2>1 DEF StartRefused, TypeOK
  <2> QED
    BY <1>8, <2>2 DEF StartRefused, Return, TypeOK, CallsAreComplete
<1>9. CASE Enqueue(s)
  <2>1. call[s].msg \in Message /\ call[s].queue \in Queues
    BY <1>9 DEF Enqueue, CallsAreComplete, Call
  <2>2. messages' \in [Queues -> Seq(Message)]
    BY <1>9, <2>1 DEF Enqueue, TypeOK
  <2>3. \A q \in Queues : Len(messages'[q]) <= SendBufferSize
    BY <1>9, <2>1 DEF Enqueue, TypeOK
  <2> QED
    BY <1>9, <2>2, <2>3 DEF Enqueue, Return, TypeOK, CallsAreComplete
<1>10. CASE SendHeartbeats(s)
  <2>1. \A t \in Remotes[s] :
          [type |-> "MsgHeartbeat", from |-> ManagerIdent(s), to |-> RemoteIdent(t)] \in Outgoing
    BY DEF Outgoing, ManagerIdent, RemoteIdent, StoreIdent
  <2>2. outgoing' \in [Stores -> SUBSET Outgoing]
    BY <1>10, <2>1 DEF SendHeartbeats, TypeOK
  <2> QED
    BY <1>10, <2>2 DEF SendHeartbeats, TypeOK, CallsAreComplete
<1>11. CASE ReceiveSig(s)
  BY <1>11 DEF ReceiveSig, TypeOK, CallsAreComplete
<1> QED
  BY <1>1, <1>2, <1>3, <1>4, <1>5, <1>6, <1>7, <1>8, <1>9, <1>10, <1>11 DEF LoopStep

\* So do the steps of a worker and of the receiver of its stream.
LEMMA WorkerTypes ==
  ASSUME Inv, NEW w \in Queues,
         \/ WorkerStep(w) \/ PullMessage(w) \/ HandleMessage(w)
         \/ ConnectError(w) \/ IdleTimeout(w) \/ StreamError(w)
  PROVE  TypeOK' /\ CallsAreComplete'
<1> TypeOK /\ CallsAreComplete /\ WorkerFindsQueue
  BY DEF Inv
<1> USE TransportAssumption
<1>0. worker[w].pc # "none" =>
        /\ worker[w] \in Worker
        /\ worker[w].from \in Nodes /\ worker[w].to \in Nodes /\ worker[w].batch \in Seq(Message)
        /\ worker[w].pc # "spawned" => worker[w].queue \in Queues
  BY DEF TypeOK, Worker, NoWorker, WorkerFindsQueue
<1>1. CASE WorkerGetQueue(w)
  <2>1. [worker[w] EXCEPT !.pc = "dialing", !.queue = queues[worker[w].from][worker[w].to]] \in Worker
    <3>1. queues[worker[w].from][worker[w].to] \in Queues \cup {NoQueue}
      BY <1>0, <1>1 DEF WorkerGetQueue, TypeOK
    <3> QED
      BY <1>0, <1>1, <3>1, WorkerParts DEF WorkerGetQueue
  <2>2. worker' \in [Queues -> Worker \cup {NoWorker}]
    BY <1>1, <2>1 DEF WorkerGetQueue, TypeOK
  <2> QED
    BY <1>1, <2>2 DEF WorkerGetQueue, TypeOK, CallsAreComplete
<1>2. CASE Connect(w) \/ ConnectError(w) \/ IdleTimeout(w) \/ WorkerQuiesces(w)
  <2>1. \A pc \in {"streaming", "broken", "closing"} : worker[w].pc # "none" => [worker[w] EXCEPT !.pc = pc] \in Worker
    BY <1>0, WorkerParts
  <2>2. worker' \in [Queues -> Worker \cup {NoWorker}]
    BY <1>2, <2>1 DEF Connect, ConnectError, IdleTimeout, WorkerQuiesces, TypeOK
  <2> QED
    BY <1>2, <2>2 DEF Connect, ConnectError, IdleTimeout, WorkerQuiesces, Fail, TypeOK, CallsAreComplete
<1>3. CASE PullMessage(w)
  <2> DEFINE q == worker[w].queue
  <2>1. q \in Queues /\ worker[w] \in Worker
    BY <1>0, <1>3 DEF PullMessage
  <2>2. Head(messages[q]) \in Message /\ Tail(messages[q]) \in Seq(Message) /\ Len(Tail(messages[q])) <= SendBufferSize
    BY <1>3, <2>1, MessageSeq DEF PullMessage, TypeOK
  <2>3. [worker[w] EXCEPT !.batch = Append(@, Head(messages[q]))] \in Worker
    <3>1. Append(worker[w].batch, Head(messages[q])) \in Seq(Message)
      BY <1>0, <1>3, <2>2 DEF PullMessage
    <3> QED
      BY <2>1, <3>1, WorkerParts
  <2>4. worker' \in [Queues -> Worker \cup {NoWorker}]
    BY <1>3, <2>3 DEF PullMessage, TypeOK
  <2>5. messages' \in [Queues -> Seq(Message)] /\ \A p \in Queues : Len(messages'[p]) <= SendBufferSize
    BY <1>3, <2>1, <2>2 DEF PullMessage, TypeOK
  <2> QED
    BY <1>3, <2>4, <2>5 DEF PullMessage, TypeOK, CallsAreComplete
<1>4. CASE SendBatch(w)
  <2>1. worker[w] \in Worker /\ worker[w].batch \in Seq(Message)
    BY <1>0, <1>4 DEF SendBatch
  <2>2. [worker[w] EXCEPT !.batch = <<>>] \in Worker /\ stream[w] \o worker[w].batch \in Seq(Message)
    <3>1. <<>> \in Seq(Message) /\ stream[w] \in Seq(Message)
      BY DEF TypeOK
    <3>2. [worker[w] EXCEPT !.batch = <<>>] \in Worker
      BY <2>1, <3>1, WorkerParts
    <3>3. stream[w] \o worker[w].batch \in Seq(Message)
      BY <2>1, <3>1
    <3> QED
      BY <3>2, <3>3
  <2>3. worker' \in [Queues -> Worker \cup {NoWorker}] /\ stream' \in [Queues -> Seq(Message)]
    BY <1>4, <2>2 DEF SendBatch, TypeOK
  <2> QED
    BY <1>4, <2>3 DEF SendBatch, TypeOK, CallsAreComplete
<1>5. CASE StreamError(w)
  <2>1. [worker[w] EXCEPT !.pc = "broken", !.batch = <<>>] \in Worker
    <3>1. <<>> \in Seq(Message)
      OBVIOUS
    <3> QED
      BY <1>0, <1>5, <3>1, WorkerParts DEF StreamError
  <2>2. worker' \in [Queues -> Worker \cup {NoWorker}]
    BY <1>5, <2>1 DEF StreamError, TypeOK
  <2>3. \A k \in 0..Len(stream[w]) : SubSeq(stream[w], 1, k) \in Seq(Message)
    BY DEF TypeOK
  <2>4. stream' \in [Queues -> Seq(Message)]
    BY <1>5, <2>3 DEF StreamError, TypeOK
  <2> QED
    <3>1. failures' \in Nat
      BY <1>5 DEF StreamError, Fail, TypeOK
    <3> QED
      BY <1>5, <2>2, <2>4, <3>1 DEF StreamError, TypeOK, CallsAreComplete
<1>6. CASE WorkerDone(w)
  <2>1. worker[w].from \in Nodes /\ worker[w].to \in Nodes
    BY <1>0, <1>6 DEF WorkerDone, CloseAndRecv
  <2>2. queues' \in [Nodes -> [Nodes -> Queues \cup {NoQueue}]]
    BY <1>6, <2>1 DEF WorkerDone, TypeOK
  <2> QED
    BY <1>6, <2>2 DEF WorkerDone, TypeOK, CallsAreComplete
<1>7. CASE HandleMessage(w)
  <2> DEFINE m == Head(stream[w])
             t == m.to.store
  <2>1. m \in Message /\ Tail(stream[w]) \in Seq(Message)
    BY <1>7, MessageSeq DEF HandleMessage, TypeOK
  <2>2. m.to.node \in Nodes /\ m.sender \in Stores /\ m.number \in 0..MaxNumber
    BY <2>1, MessageParts
  <2>3. stream' \in [Queues -> Seq(Message)]
    BY <1>7, <2>1 DEF HandleMessage, TypeOK
  <2>4. CASE t \in handlers[m.to.node]
    <3>1. t \in Stores
      BY <2>2, <2>4 DEF TypeOK
    <3>0. /\ received' = [received EXCEPT ![t] = Append(@, m)]
          /\ last' = [last EXCEPT ![t][m.sender] = m.number]
      BY <1>7, <2>4 DEF HandleMessage
    <3>2. received' \in [Stores -> Seq(Message)]
      <4>1. Append(received[t], m) \in Seq(Message)
        BY <2>1, <3>1 DEF TypeOK
      <4> QED
        BY <3>0, <4>1 DEF TypeOK
    <3>3. last' \in [Stores -> [Stores -> 0..MaxNumber]]
      BY <2>2, <3>0, <3>1 DEF TypeOK
    <3>4. sig' \in [Stores -> BOOLEAN]
      BY <1>7, <2>4, <3>1 DEF HandleMessage, Signal, TypeOK
    <3> QED
      BY <1>7, <2>3, <3>2, <3>3, <3>4 DEF HandleMessage, TypeOK, CallsAreComplete
  <2>5. CASE t \notin handlers[m.to.node]
    BY <1>7, <2>3, <2>5 DEF HandleMessage, TypeOK, CallsAreComplete
  <2> QED
    BY <2>4, <2>5
<1> QED
  BY <1>1, <1>2, <1>3, <1>4, <1>5, <1>6, <1>7 DEF WorkerStep

\* A step that leaves queues and workers alone, and lets no caller start a worker
\* that was not about to, keeps the rest of the invariant.
LEMMA SameQueues ==
  ASSUME Inv, UNCHANGED <<queues, worker>>,
         \A s \in Stores :
           loop'[s] = "start" <=> loop[s] = "start",
         \A s \in Stores : loop[s] = "start" => call'[s] = call[s]
  PROVE  StartersOwnTheirQueue' /\ QueuesAreDistinct' /\ QueueIsServed' /\ WorkerFindsQueue'
<1>1. StartersOwnTheirQueue'
  BY DEF Inv, StartersOwnTheirQueue
<1>2. QueuesAreDistinct' /\ WorkerFindsQueue'
  BY DEF Inv, QueuesAreDistinct, WorkerFindsQueue
<1>3. QueueIsServed'
  <2> SUFFICES ASSUME NEW n \in Nodes, NEW d \in Nodes, queues[n][d] # NoQueue
               PROVE  \/ Serves(queues[n][d], n, d)'
                      \/ \E s \in Stores : Starts(s, queues[n][d], n, d)'
    BY DEF QueueIsServed
  <2>1. Serves(queues[n][d], n, d) \/ \E s \in Stores : Starts(s, queues[n][d], n, d)
    BY DEF Inv, QueueIsServed
  <2> QED
    BY <2>1 DEF Serves, Starts
<1> QED
  BY <1>1, <1>2, <1>3

\* The part of the invariant that is about queues and their workers.
QueuesInv == StartersOwnTheirQueue /\ QueuesAreDistinct /\ QueueIsServed /\ WorkerFindsQueue

\* getQueue keeps it: a queue is created only for a link that has none.
LEMMA LoadOrStoreQueues ==
  ASSUME Inv, NEW s \in Stores, LoadOrStore(s)
  PROVE  QueuesInv'
<1> DEFINE n == NodeOf[s]
           d == call[s].msg.to.node
<1>0. TypeOK /\ n \in Nodes /\ d \in Nodes /\ loop[s] = "store"
  BY TransportAssumption, MessageParts DEF LoadOrStore, Inv, CallsAreComplete, Call
<1>1. CASE queues[n][d] # NoQueue
  <2>1. /\ UNCHANGED <<queues, worker>>
        /\ loop' = [loop EXCEPT ![s] = "enqueue"]
        /\ call' = [call EXCEPT ![s].queue = queues[n][d]]
    BY <1>1 DEF LoadOrStore
  <2> QED
    BY <1>0, <2>1, SameQueues DEF TypeOK, QueuesInv
<1>2. CASE queues[n][d] = NoQueue
  <2>1. PICK q \in Queues :
          /\ Fresh(q)
          /\ queues' = [queues EXCEPT ![n][d] = q]
          /\ call' = [call EXCEPT ![s].queue = q]
    BY <1>2 DEF LoadOrStore
  <2>2. loop' = [loop EXCEPT ![s] = "start"] /\ worker' = worker
    BY <1>2 DEF LoadOrStore
  <2>3. queues'[n][d] = q /\ \A m, e \in Nodes : <<m, e>> # <<n, d>> => queues'[m][e] = queues[m][e]
    BY <1>0, <2>1 DEF TypeOK
  <2>4. /\ loop'[s] = "start" /\ call'[s].queue = q /\ call'[s].msg = call[s].msg
        /\ \A r \in Stores \ {s} : loop'[r] = loop[r] /\ call'[r] = call[r]
    <3>1. call[s] \in Call
      BY <1>0 DEF Inv, CallsAreComplete
    <3> QED
      BY <1>0, <2>1, <2>2, <3>1 DEF TypeOK, Call
  <2>5. q # NoQueue /\ worker[q].pc = "none"
    BY <2>1, TransportAssumption DEF Fresh
  <2>6. \A r \in Stores : call[r].queue # q
    BY <2>1 DEF Fresh
  <2>7. \A m, e \in Nodes : queues[m][e] # q
    BY <2>1 DEF Fresh
  <2>8. StartersOwnTheirQueue'
    <3> SUFFICES ASSUME NEW r \in Stores, loop'[r] = "start"
                 PROVE  /\ queues'[NodeOf[r]][call'[r].msg.to.node] = call'[r].queue
                        /\ worker[call'[r].queue].pc = "none"
                        /\ \A t \in Stores : loop'[t] = "start" /\ call'[t].queue = call'[r].queue => t = r
      BY <2>2 DEF StartersOwnTheirQueue
    <3>1. CASE r = s
      BY <2>3, <2>4, <2>5, <2>6, <3>1
    <3>2. CASE r # s
      <4>1. /\ loop[r] = "start" /\ call'[r] = call[r]
            /\ queues[NodeOf[r]][call[r].msg.to.node] = call[r].queue
            /\ worker[call[r].queue].pc = "none"
            /\ \A t \in Stores : loop[t] = "start" /\ call[t].queue = call[r].queue => t = r
        BY <2>4, <3>2 DEF Inv, StartersOwnTheirQueue
      <4>2. NodeOf[r] \in Nodes /\ call[r].msg.to.node \in Nodes /\ call[r].queue # NoQueue
        BY <4>1, TransportAssumption, MessageParts DEF Inv, CallsAreComplete, Call
      <4>3. <<NodeOf[r], call[r].msg.to.node>> # <<n, d>>
        BY <1>2, <4>1, <4>2
      <4> QED
        BY <2>3, <2>4, <2>6, <3>2, <4>1, <4>2, <4>3
    <3> QED
      BY <3>1, <3>2
  <2>9. QueuesAreDistinct'
    BY <2>3, <2>7 DEF Inv, QueuesAreDistinct
  <2>10. QueueIsServed'
    <3> SUFFICES ASSUME NEW m \in Nodes, NEW e \in Nodes, queues'[m][e] # NoQueue
                 PROVE  \/ Serves(queues[m][e], m, e)'
                        \/ \E r \in Stores : Starts(r, queues[m][e], m, e)'
      BY DEF QueueIsServed
    <3>1. CASE m = n /\ e = d
      BY <2>3, <2>4, <3>1 DEF Starts
    <3>2. CASE <<m, e>> # <<n, d>>
      <4>1. queues'[m][e] = queues[m][e]
        BY <2>3, <3>2
      <4>2. Serves(queues[m][e], m, e) \/ \E r \in Stores : Starts(r, queues[m][e], m, e)
        BY <4>1 DEF Inv, QueueIsServed
      <4>3. CASE Serves(queues[m][e], m, e)
        BY <2>2, <4>1, <4>3 DEF Serves
      <4>4. CASE \E r \in Stores : Starts(r, queues[m][e], m, e)
        BY <1>0, <2>4, <4>1, <4>4 DEF Starts
      <4> QED
        BY <4>2, <4>3, <4>4
    <3> QED
      BY <3>1, <3>2
  <2>11. WorkerFindsQueue'
    <3> SUFFICES ASSUME NEW w \in Queues, worker[w].pc # "none"
                 PROVE  /\ queues'[worker[w].from][worker[w].to] = w
                        /\ worker[w].pc # "spawned" => worker[w].queue = w
      BY <2>2 DEF WorkerFindsQueue
    <3>1. /\ queues[worker[w].from][worker[w].to] = w
          /\ worker[w].pc # "spawned" => worker[w].queue = w
      BY DEF Inv, WorkerFindsQueue
    <3>2. worker[w].from \in Nodes /\ worker[w].to \in Nodes
      BY <1>0 DEF TypeOK, Worker, NoWorker
    <3>3. <<worker[w].from, worker[w].to>> # <<n, d>>
      BY <1>2, <3>1, TransportAssumption
    <3> QED
      BY <2>3, <3>1, <3>2, <3>3
  <2> QED
    BY <2>8, <2>9, <2>10, <2>11 DEF QueuesInv
<1> QED
  BY <1>1, <1>2

\* startProcessNewQueue: the only caller that starts the worker of a queue does so.
LEMMA StartProcessNewQueueQueues ==
  ASSUME Inv, NEW s \in Stores, StartProcessNewQueue(s)
  PROVE  QueuesInv'
<1> DEFINE q == call[s].queue
           n == NodeOf[s]
           d == call[s].msg.to.node
<1>0. TypeOK /\ n \in Nodes /\ d \in Nodes /\ q \in Queues /\ loop[s] = "start"
  BY TransportAssumption, MessageParts DEF StartProcessNewQueue, Inv, CallsAreComplete, Call
<1>1. queues[n][d] = q /\ worker[q].pc = "none"
      /\ \A r \in Stores : loop[r] = "start" /\ call[r].queue = q => r = s
  BY <1>0 DEF Inv, StartersOwnTheirQueue
<1>2. /\ worker'[q].pc = "spawned" /\ worker'[q].from = n /\ worker'[q].to = d
      /\ \A w \in Queues \ {q} : worker'[w] = worker[w]
  BY <1>0 DEF StartProcessNewQueue, TypeOK
<1>3. /\ queues' = queues /\ call' = call
      /\ loop'[s] = "enqueue" /\ \A r \in Stores \ {s} : loop'[r] = loop[r]
  BY <1>0 DEF StartProcessNewQueue, TypeOK
<1>4. StartersOwnTheirQueue'
  <2> SUFFICES ASSUME NEW r \in Stores, loop[r] = "start", r # s
               PROVE  /\ queues[NodeOf[r]][call[r].msg.to.node] = call[r].queue
                      /\ worker'[call[r].queue].pc = "none"
                      /\ \A t \in Stores : loop'[t] = "start" /\ call[t].queue = call[r].queue => t = r
    BY <1>3 DEF StartersOwnTheirQueue
  <2>1. call[r].queue \in Queues \ {q}
    BY <1>0, <1>1 DEF Inv, CallsAreComplete
  <2> QED
    BY <1>2, <1>3, <2>1 DEF Inv, StartersOwnTheirQueue
<1>5. QueuesAreDistinct'
  BY <1>3 DEF Inv, QueuesAreDistinct
<1>6. QueueIsServed'
  <2> SUFFICES ASSUME NEW m \in Nodes, NEW e \in Nodes, queues[m][e] # NoQueue
               PROVE  \/ Serves(queues[m][e], m, e)'
                      \/ \E r \in Stores : Starts(r, queues[m][e], m, e)'
    BY <1>3 DEF QueueIsServed
  <2>1. CASE m = n /\ e = d
    BY <1>1, <1>2, <1>3, <2>1 DEF Serves
  <2>2. CASE <<m, e>> # <<n, d>>
    <3>1. queues[m][e] # q /\ queues[m][e] \in Queues
      BY <1>0, <1>1, <2>2, TransportAssumption DEF Inv, QueuesAreDistinct, TypeOK
    <3>2. Serves(queues[m][e], m, e) \/ \E r \in Stores : Starts(r, queues[m][e], m, e)
      BY DEF Inv, QueueIsServed
    <3> QED
      BY <1>2, <1>3, <3>1, <3>2 DEF Serves, Starts
  <2> QED
    BY <2>1, <2>2
<1>7. WorkerFindsQueue'
  BY <1>1, <1>2, <1>3 DEF Inv, WorkerFindsQueue
<1> QED
  BY <1>4, <1>5, <1>6, <1>7 DEF QueuesInv

\* Deleting the queue q of the link from n to d, along with what served it, leaves
\* every other queue with what serves it.
LEMMA DeleteQueue ==
  ASSUME Inv, NEW n \in Nodes, NEW d \in Nodes, NEW q \in Queues,
         queues[n][d] = q,
         queues' = [queues EXCEPT ![n][d] = NoQueue],
         \A w \in Queues \ {q} : worker'[w] = worker[w],
         worker'[q].pc = "none",
         \A s \in Stores : loop'[s] = "start" => loop[s] = "start" /\ call'[s] = call[s] /\ call[s].queue # q,
         \A s \in Stores : loop[s] = "start" /\ call[s].queue # q => loop'[s] = "start" /\ call'[s] = call[s]
  PROVE  QueuesInv'
<1>0. TypeOK
  BY DEF Inv
<1>1. queues'[n][d] = NoQueue /\ \A m, e \in Nodes : <<m, e>> # <<n, d>> => queues'[m][e] = queues[m][e]
  BY <1>0 DEF TypeOK
<1>2. \A m, e \in Nodes : <<m, e>> # <<n, d>> => queues[m][e] # q
  BY TransportAssumption DEF Inv, QueuesAreDistinct
<1>3. StartersOwnTheirQueue'
  <2> SUFFICES ASSUME NEW s \in Stores, loop'[s] = "start"
               PROVE  /\ queues'[NodeOf[s]][call'[s].msg.to.node] = call'[s].queue
                      /\ worker'[call'[s].queue].pc = "none"
                      /\ \A r \in Stores : loop'[r] = "start" /\ call'[r].queue = call'[s].queue => r = s
    BY DEF StartersOwnTheirQueue
  <2>1. loop[s] = "start" /\ call'[s] = call[s] /\ call[s].queue \in Queues \ {q}
    BY DEF Inv, CallsAreComplete
  <2>2. /\ queues[NodeOf[s]][call[s].msg.to.node] = call[s].queue
        /\ worker[call[s].queue].pc = "none"
        /\ \A r \in Stores : loop[r] = "start" /\ call[r].queue = call[s].queue => r = s
    BY <2>1 DEF Inv, StartersOwnTheirQueue
  <2>3. NodeOf[s] \in Nodes /\ call[s].msg.to.node \in Nodes
    BY <2>1, TransportAssumption, MessageParts DEF Inv, CallsAreComplete, Call
  <2>4. <<NodeOf[s], call[s].msg.to.node>> # <<n, d>>
    BY <2>1, <2>2
  <2> QED
    BY <1>1, <2>1, <2>2, <2>3, <2>4
<1>4. QueuesAreDistinct'
  BY <1>1 DEF Inv, QueuesAreDistinct
<1>5. QueueIsServed'
  <2> SUFFICES ASSUME NEW m \in Nodes, NEW e \in Nodes, queues'[m][e] # NoQueue
               PROVE  \/ Serves(queues[m][e], m, e)'
                      \/ \E r \in Stores : Starts(r, queues[m][e], m, e)'
    BY DEF QueueIsServed
  <2>1. queues'[m][e] = queues[m][e] /\ queues[m][e] \in Queues \ {q}
    BY <1>0, <1>1, <1>2 DEF TypeOK
  <2>2. Serves(queues[m][e], m, e) \/ \E r \in Stores : Starts(r, queues[m][e], m, e)
    BY <2>1 DEF Inv, QueueIsServed
  <2> QED
    BY <2>1, <2>2 DEF Serves, Starts
<1>6. WorkerFindsQueue'
  <2> SUFFICES ASSUME NEW w \in Queues, w # q, worker[w].pc # "none"
               PROVE  /\ queues'[worker[w].from][worker[w].to] = w
                      /\ worker[w].pc # "spawned" => worker[w].queue = w
    BY DEF WorkerFindsQueue
  <2>1. /\ queues[worker[w].from][worker[w].to] = w
        /\ worker[w].pc # "spawned" => worker[w].queue = w
    BY DEF Inv, WorkerFindsQueue
  <2>2. worker[w].from \in Nodes /\ worker[w].to \in Nodes
    BY <1>0 DEF TypeOK, Worker, NoWorker
  <2>3. <<worker[w].from, worker[w].to>> # <<n, d>>
    BY <2>1
  <2> QED
    BY <1>1, <2>1, <2>2, <2>3
<1> QED
  BY <1>3, <1>4, <1>5, <1>6 DEF QueuesInv

\* A refused start deletes the queue that its caller created.
LEMMA StartRefusedQueues ==
  ASSUME Inv, NEW s \in Stores, StartRefused(s)
  PROVE  QueuesInv'
<1> DEFINE q == call[s].queue
           n == NodeOf[s]
           d == call[s].msg.to.node
<1>0. TypeOK /\ n \in Nodes /\ d \in Nodes /\ q \in Queues /\ loop[s] = "start"
  BY TransportAssumption, MessageParts DEF StartRefused, Inv, CallsAreComplete, Call
<1>1. queues[n][d] = q /\ worker[q].pc = "none"
      /\ \A r \in Stores : loop[r] = "start" /\ call[r].queue = q => r = s
  BY <1>0 DEF Inv, StartersOwnTheirQueue
<1>2. /\ queues' = [queues EXCEPT ![n][d] = NoQueue]
      /\ worker' = worker
      /\ loop'[s] = "select"
      /\ \A r \in Stores \ {s} : loop'[r] = loop[r] /\ call'[r] = call[r]
  BY <1>0 DEF StartRefused, Return, TypeOK
<1>7. \A r \in Stores : loop'[r] = "start" => loop[r] = "start" /\ call'[r] = call[r] /\ call[r].queue # q
  BY <1>0, <1>1, <1>2
<1>8. \A r \in Stores : loop[r] = "start" /\ call[r].queue # q => loop'[r] = "start" /\ call'[r] = call[r]
  BY <1>0, <1>1, <1>2
<1>9. \A v \in Queues \ {q} : worker'[v] = worker[v]
  BY <1>2
<1>10. worker'[q].pc = "none"
  BY <1>1, <1>2
<1> HIDE DEF q, n, d
<1> QED
  BY <1>0, <1>1, <1>2, <1>7, <1>8, <1>9, <1>10, DeleteQueue

\* A worker that ends deletes its own queue and no other.
LEMMA WorkerDoneQueues ==
  ASSUME Inv, NEW w \in Queues, WorkerDone(w)
  PROVE  QueuesInv'
<1> DEFINE n == worker[w].from
           d == worker[w].to
<1>0. TypeOK /\ worker[w].pc # "none"
  BY DEF Inv, WorkerDone, CloseAndRecv
<1>1. n \in Nodes /\ d \in Nodes /\ queues[n][d] = w
  BY <1>0 DEF Inv, TypeOK, Worker, NoWorker, WorkerFindsQueue
<1>2. /\ queues' = [queues EXCEPT ![n][d] = NoQueue]
      /\ worker'[w].pc = "none" /\ \A v \in Queues \ {w} : worker'[v] = worker[v]
      /\ loop' = loop /\ call' = call
  BY <1>0 DEF WorkerDone, TypeOK, NoWorker
<1>3. \A s \in Stores : loop[s] = "start" => call[s].queue # w
  BY <1>0 DEF Inv, StartersOwnTheirQueue
<1>7. \A r \in Stores : loop'[r] = "start" => loop[r] = "start" /\ call'[r] = call[r] /\ call[r].queue # w
  BY <1>2, <1>3
<1>8. \A r \in Stores : loop[r] = "start" /\ call[r].queue # w => loop'[r] = "start" /\ call'[r] = call[r]
  BY <1>2
<1>9. \A v \in Queues \ {w} : worker'[v] = worker[v]
  BY <1>2
<1> HIDE DEF n, d
<1> QED
  BY <1>1, <1>2, <1>7, <1>8, <1>9, DeleteQueue

\* A worker that goes on keeps its link and its queue.
LEMMA SameLinks ==
  ASSUME Inv, NEW w \in Queues, UNCHANGED <<queues, loop, call>>,
         \A v \in Queues \ {w} : worker'[v] = worker[v],
         worker[w].pc # "none", worker'[w].pc # "none",
         worker'[w].from = worker[w].from, worker'[w].to = worker[w].to,
         worker'[w].pc # "spawned" => worker'[w].queue = w
  PROVE  QueuesInv'
<1>1. StartersOwnTheirQueue'
  <2>1. \A s \in Stores : loop[s] = "start" => call[s].queue \in Queues \ {w}
    BY DEF Inv, StartersOwnTheirQueue, CallsAreComplete
  <2> QED
    BY <2>1 DEF Inv, StartersOwnTheirQueue
<1>2. QueuesAreDistinct' /\ WorkerFindsQueue'
  BY DEF Inv, QueuesAreDistinct, WorkerFindsQueue
<1>3. QueueIsServed'
  <2> SUFFICES ASSUME NEW n \in Nodes, NEW d \in Nodes, queues[n][d] # NoQueue
               PROVE  \/ Serves(queues[n][d], n, d)'
                      \/ \E s \in Stores : Starts(s, queues[n][d], n, d)'
    BY DEF QueueIsServed
  <2>1. Serves(queues[n][d], n, d) \/ \E s \in Stores : Starts(s, queues[n][d], n, d)
    BY DEF Inv, QueueIsServed
  <2>2. queues[n][d] \in Queues
    BY DEF Inv, TypeOK
  <2> QED
    BY <2>1, <2>2 DEF Serves, Starts
<1> QED
  BY <1>1, <1>2, <1>3 DEF QueuesInv

\* Every step keeps the invariant.
LEMMA InvStep == Inv /\ [Next]_vars => Inv'
<1> SUFFICES ASSUME Inv, [Next]_vars PROVE Inv'
  OBVIOUS
<1> TypeOK
  BY DEF Inv
<1>1. ASSUME NEW s \in Stores,
             LoopStep(s) \/ SendHeartbeats(s) \/ ReceiveSig(s) \/ BreakerTrips(s)
      PROVE  Inv'
  <2>1. TypeOK' /\ CallsAreComplete'
    BY <1>1, LoopTypes
  <2>2. CASE LoadOrStore(s)
    BY <2>1, <2>2, LoadOrStoreQueues DEF Inv, QueuesInv
  <2>3. CASE StartProcessNewQueue(s)
    BY <2>1, <2>3, StartProcessNewQueueQueues DEF Inv, QueuesInv
  <2>4. CASE StartRefused(s)
    BY <2>1, <2>4, StartRefusedQueues DEF Inv, QueuesInv
  <2>5. CASE \/ ListenMessages(s) \/ StartLoop(s) \/ Drain(s) \/ BreakerTripped(s)
             \/ SendAsync(s) \/ Enqueue(s)
             \/ SendHeartbeats(s) \/ ReceiveSig(s) \/ BreakerTrips(s)
    <3>1. /\ UNCHANGED <<queues, worker>>
          /\ loop[s] # "start" /\ loop'[s] # "start"
          /\ \A r \in Stores \ {s} : loop'[r] = loop[r] /\ call'[r] = call[r]
      BY <2>5 DEF ListenMessages, StartLoop, Drain, BreakerTripped, SendAsync, Enqueue, Return,
                  SendHeartbeats, ReceiveSig, BreakerTrips, LoopReady, TypeOK
    <3> QED
      BY <2>1, <3>1, SameQueues DEF Inv
  <2> QED
    BY <1>1, <2>2, <2>3, <2>4, <2>5 DEF LoopStep
<1>2. ASSUME NEW w \in Queues,
             \/ WorkerStep(w) \/ PullMessage(w) \/ HandleMessage(w)
             \/ ConnectError(w) \/ IdleTimeout(w) \/ StreamError(w)
      PROVE  Inv'
  <2>1. TypeOK' /\ CallsAreComplete'
    BY <1>2, WorkerTypes
  <2>2. worker[w].pc # "none" =>
          /\ worker[w] \in Worker
          /\ queues[worker[w].from][worker[w].to] = w
          /\ worker[w].pc # "spawned" => worker[w].queue = w
    BY DEF Inv, TypeOK, NoWorker, WorkerFindsQueue
  <2>3. CASE WorkerDone(w)
    BY <2>1, <2>3, WorkerDoneQueues DEF Inv, QueuesInv
  <2>4. CASE HandleMessage(w)
    <3>1. UNCHANGED <<queues, worker, loop, call>>
      BY <2>4 DEF HandleMessage
    <3> QED
      BY <2>1, <3>1, SameQueues DEF Inv
  <2>5. CASE \/ WorkerGetQueue(w) \/ Connect(w) \/ SendBatch(w) \/ WorkerQuiesces(w)
             \/ PullMessage(w) \/ ConnectError(w) \/ IdleTimeout(w) \/ StreamError(w)
    <3>1. /\ UNCHANGED <<queues, loop, call>>
          /\ \A v \in Queues \ {w} : worker'[v] = worker[v]
          /\ worker[w].pc # "none" /\ worker'[w].pc # "none"
          /\ worker'[w].from = worker[w].from /\ worker'[w].to = worker[w].to
          /\ worker'[w].pc # "spawned" => worker'[w].queue = w
      <4>1. CASE WorkerGetQueue(w)
        BY <2>2, <4>1 DEF WorkerGetQueue, Worker, TypeOK
      <4>2. CASE Connect(w) \/ ConnectError(w)
        BY <2>2, <4>2 DEF Connect, ConnectError, Worker, TypeOK
      <4>3. CASE IdleTimeout(w) \/ WorkerQuiesces(w)
        BY <2>2, <4>3 DEF IdleTimeout, WorkerQuiesces, Worker, TypeOK
      <4>4. CASE PullMessage(w)
        BY <2>2, <4>4 DEF PullMessage, Worker, TypeOK
      <4>5. CASE SendBatch(w)
        BY <2>2, <4>5 DEF SendBatch, Worker, TypeOK
      <4>6. CASE StreamError(w)
        BY <2>2, <4>6 DEF StreamError, Worker, TypeOK
      <4> QED
        BY <2>5, <4>1, <4>2, <4>3, <4>4, <4>5, <4>6
    <3> QED
      BY <2>1, <3>1, SameLinks DEF Inv, QueuesInv
  <2> QED
    BY <1>2, <2>3, <2>4, <2>5 DEF WorkerStep
<1>3. ASSUME NEW n \in Nodes, Quiesce(n)
      PROVE  Inv'
  <2>1. TypeOK' /\ CallsAreComplete'
    BY <1>3 DEF Quiesce, TypeOK, CallsAreComplete, Inv
  <2>2. UNCHANGED <<queues, worker, loop, call>>
    BY <1>3 DEF Quiesce
  <2> QED
    BY <2>1, <2>2, SameQueues DEF Inv
<1>4. CASE UNCHANGED vars
  <2>1. TypeOK' /\ CallsAreComplete'
    BY <1>4 DEF vars, TypeOK, CallsAreComplete, Inv
  <2>2. UNCHANGED <<queues, worker, loop, call>>
    BY <1>4 DEF vars
  <2> QED
    BY <2>1, <2>2, SameQueues DEF Inv
<1> QED
  BY <1>1, <1>2, <1>3, <1>4 DEF Next

\* Every queue that SendAsync finds in Transport.queues has its worker, or a caller
\* about to start it, for any number of nodes, stores and failures.
THEOREM QueuesAreServed == Spec => []QueueIsServed
<1>1. Inv => QueueIsServed
  BY DEF Inv
<1> QED
  BY <1>1, InitInv, InvStep, PTL DEF Spec

\* The fatal error of startProcessNewQueue is unreachable, and no link has two workers.
THEOREM WorkersFindTheirQueue == Spec => []WorkerFindsQueue
<1>1. Inv => WorkerFindsQueue
  BY DEF Inv
<1> QED
  BY <1>1, InitInv, InvStep, PTL DEF Spec

\* Append and the main loop never lose a wake-up: a message in the receive queue is
\* always announced by sig or about to be drained.
THEOREM WakeupsAreNotLost == Spec => []NoLostWakeup
<1>1. Init => NoLostWakeup
  BY DEF Init, NoLostWakeup
<1>2. Inv /\ NoLostWakeup /\ [Next]_vars => NoLostWakeup'
  <2> SUFFICES ASSUME Inv, NoLostWakeup, [Next]_vars,
                      NEW t \in Stores, received'[t] # <<>>
               PROVE  sig'[t] \/ loop'[t] = "drain"
    BY DEF NoLostWakeup
  <2> TypeOK
    BY DEF Inv
  <2>1. received[t] # <<>> => sig[t] \/ loop[t] = "drain"
    BY DEF NoLostWakeup
  <2>2. CASE UNCHANGED <<received, sig>> /\ (loop[t] = "drain" => loop'[t] = "drain")
    BY <2>1, <2>2
  <2>3. ASSUME NEW s \in Stores,
               LoopStep(s) \/ SendHeartbeats(s) \/ ReceiveSig(s) \/ BreakerTrips(s)
        PROVE  sig'[t] \/ loop'[t] = "drain"
    <3>1. CASE Drain(s)
      <4>1. t # s
        BY <3>1 DEF Drain, TypeOK
      <4> QED
        BY <2>1, <3>1, <4>1 DEF Drain, TypeOK
    <3>2. CASE ReceiveSig(s)
      <4>1. CASE t = s
        BY <3>2, <4>1 DEF ReceiveSig, TypeOK
      <4>2. CASE t # s
        BY <2>1, <3>2, <4>2 DEF ReceiveSig, TypeOK
      <4> QED
        BY <4>1, <4>2
    <3>3. CASE \/ ListenMessages(s) \/ StartLoop(s) \/ BreakerTripped(s) \/ SendAsync(s)
               \/ LoadOrStore(s) \/ StartProcessNewQueue(s) \/ StartRefused(s) \/ Enqueue(s)
               \/ SendHeartbeats(s) \/ BreakerTrips(s)
      <4>1. UNCHANGED <<received, sig>>
        BY <3>3 DEF ListenMessages, StartLoop, BreakerTripped, SendAsync, LoadOrStore,
                    StartProcessNewQueue, StartRefused, Enqueue, SendHeartbeats, BreakerTrips
      <4>2. loop[s] # "drain" /\ \A r \in Stores \ {s} : loop'[r] = loop[r]
        BY <3>3 DEF ListenMessages, StartLoop, BreakerTripped, SendAsync, LoadOrStore, Return,
                    StartProcessNewQueue, StartRefused, Enqueue, SendHeartbeats, BreakerTrips,
                    LoopReady, TypeOK
      <4> QED
        BY <2>2, <4>1, <4>2
    <3> QED
      BY <2>3, <3>1, <3>2, <3>3 DEF LoopStep
  <2>4. ASSUME NEW w \in Queues, HandleMessage(w)
        PROVE  sig'[t] \/ loop'[t] = "drain"
    <3> DEFINE m == Head(stream[w])
               r == m.to.store
    <3>0. loop' = loop
      BY <2>4 DEF HandleMessage
    <3>1. CASE r \notin handlers[m.to.node]
      <4>1. UNCHANGED <<received, sig>>
        BY <2>4, <3>1 DEF HandleMessage
      <4> QED
        BY <2>2, <3>0, <4>1
    <3>2. CASE r \in handlers[m.to.node]
      <4>1. received' = [received EXCEPT ![r] = Append(@, m)] /\ sig' = [sig EXCEPT ![r] = TRUE]
        BY <2>4, <3>2 DEF HandleMessage, Signal
      <4>2. CASE t = r
        <5>1. sig'[t] = TRUE
          BY <4>1, <4>2 DEF TypeOK
        <5> QED
          BY <5>1
      <4>3. CASE t # r
        <5>1. received'[t] = received[t] /\ sig'[t] = sig[t]
          BY <4>1, <4>3 DEF TypeOK
        <5> QED
          BY <2>1, <3>0, <5>1
      <4> QED
        BY <4>2, <4>3
    <3> QED
      BY <3>1, <3>2
  <2>5. ASSUME NEW w \in Queues,
               \/ WorkerStep(w) \/ PullMessage(w)
               \/ ConnectError(w) \/ IdleTimeout(w) \/ StreamError(w)
        PROVE  sig'[t] \/ loop'[t] = "drain"
    <3>1. UNCHANGED <<received, sig, loop>>
      BY <2>5 DEF WorkerStep, WorkerGetQueue, Connect, SendBatch, WorkerQuiesces, WorkerDone,
                  PullMessage, ConnectError, IdleTimeout, StreamError
    <3> QED
      BY <2>2, <3>1
  <2>6. CASE (\E n \in Nodes : Quiesce(n)) \/ UNCHANGED vars
    <3>1. UNCHANGED <<received, sig, loop>>
      BY <2>6 DEF Quiesce, vars
    <3> QED
      BY <2>2, <3>1
  <2> QED
    BY <2>3, <2>4, <2>5, <2>6 DEF Next
<1> QED
  BY <1>1, <1>2, InitInv, InvStep, PTL DEF Spec
===============================================================================
