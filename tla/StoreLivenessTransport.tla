------------------------ MODULE StoreLivenessTransport ------------------------
(***************************************************************************)
(* The Transport of the Store Liveness fabric (transport.go), the receive   *)
(* queue of a SupportManager and the part of its main loop that sends and   *)
(* drains messages.  What the messages say is left to StoreLiveness; here   *)
(* they carry the addresses they are routed by.                             *)
(*                                                                          *)
(* Every node has one Transport, which the main loops of its stores call    *)
(* concurrently.  SendAsync looks up the queue for the destination node,    *)
(* creates it and starts its worker if there is none, and enqueues without  *)
(* blocking.  A worker opens a stream, forwards what is queued and deletes  *)
(* the queue when it ends; a caller that still holds the queue then loses   *)
(* its message.  A queue that nobody refers to any more can be allocated    *)
(* again, so that behaviours are unbounded and the states are finite.       *)
(***************************************************************************)
EXTENDS Integers, Sequences

CONSTANTS
  Nodes, Stores,
  NodeOf,          \* NodeOf[s]: the node of store s
  Remotes,         \* Remotes[s]: the stores that s sends heartbeats to
  Queues,          \* identities of sendQueue objects; a queue's worker has the same one
  NoQueue,         \* the map of queues has no entry
  NoStore,         \* the StoreID of a StoreIdent that was not given one
  SendBufferSize,  \* sendBufferSize
  MaxBatch,        \* bound on a batch: what can be pulled within batchDuration
  MaxStream,       \* bound on the messages on a stream: its flow control window
  MaxReceived,     \* bound on a receive queue, which has none in the code
  Tripped,         \* the nodes whose circuit breaker is tripped on every other node
  FailureKinds,    \* the kinds of failures that happen
  MaxFailures,     \* bound on their number
  Stopping,        \* the nodes whose stopper may quiesce
  MaxNumber        \* messages are numbered up to here

ASSUME TransportAssumption ==
  /\ NodeOf \in [Stores -> Nodes]
  /\ Remotes \in [Stores -> SUBSET Stores]
  /\ NoQueue \notin Queues
  /\ NoStore \notin Stores
  /\ SendBufferSize \in Nat \ {0}
  /\ MaxBatch \in Nat \ {0}
  /\ MaxStream \in Nat \ {0}
  /\ MaxReceived \in Nat \ {0}
  /\ Tripped \subseteq Nodes
  /\ FailureKinds \subseteq {"breaker", "dial", "idle", "stream"}
  /\ MaxFailures \in Nat
  /\ Stopping \subseteq Nodes
  /\ MaxNumber \in Nat

VARIABLES
  quiescing,  \* the nodes whose stopper quiesces
  handlers,   \* Transport.handlers: the StoreIDs registered on every node
  queues,     \* Transport.queues
  messages,   \* the channel of every sendQueue
  loop,       \* where the main loop of a store is
  outgoing,   \* the messages the loop has yet to pass to SendAsync
  call,       \* the arguments and locals of the SendAsync in progress
  worker,     \* the workers of startProcessNewQueue
  stream,     \* messages sent on the stream of a worker and not yet received
  received,   \* receiveQueue.msgs
  sig,        \* receiveQueue.sig, a channel of size one
  failures,   \* number of failures so far
  count,      \* history: number of messages a store has sent
  last        \* history: the number of the last message a store received from another

vars == <<quiescing, handlers, queues, messages, loop, outgoing, call, worker, stream,
          received, sig, failures, count, last>>

StoreIdent == [node : Nodes, store : Stores \cup {NoStore}]
Outgoing == [type : {"MsgHeartbeat", "MsgHeartbeatResp"}, from : StoreIdent, to : StoreIdent]
Message == [type : {"MsgHeartbeat", "MsgHeartbeatResp"}, from : StoreIdent, to : StoreIdent,
            sender : Stores, number : 0..MaxNumber]
Call == [msg : Message, queue : Queues \cup {NoQueue}]
NoCall == [msg |-> <<>>, queue |-> NoQueue]
Worker == [pc : {"spawned", "dialing", "streaming", "closing", "broken"},
           from : Nodes, to : Nodes, queue : Queues \cup {NoQueue}, batch : Seq(Message)]
NoWorker == [pc |-> "none"]

\* The identity raft on a remote replica addresses the store by (getStoreIdent).
RemoteIdent(t) == [node |-> NodeOf[t], store |-> t]

\* The identity Store.Start gives the SupportManager of s.
ManagerIdent(s) == [node |-> NodeOf[s], store |-> NoStore]

Init ==
  /\ quiescing = {}
  /\ handlers = [n \in Nodes |-> {}]
  /\ queues = [n \in Nodes |-> [d \in Nodes |-> NoQueue]]
  /\ messages = [q \in Queues |-> <<>>]
  /\ loop = [s \in Stores |-> "created"]
  /\ outgoing = [s \in Stores |-> {}]
  /\ call = [s \in Stores |-> NoCall]
  /\ worker = [q \in Queues |-> NoWorker]
  /\ stream = [q \in Queues |-> <<>>]
  /\ received = [s \in Stores |-> <<>>]
  /\ sig = [s \in Stores |-> FALSE]
  /\ failures = 0
  /\ count = [s \in Stores |-> 0]
  /\ last = [s \in Stores |-> [t \in Stores |-> 0]]

\* The environment lets something fail.
Fail(kind) ==
  /\ kind \in FailureKinds
  /\ failures < MaxFailures
  /\ failures' = failures + 1

------------------------------------------------------------------------------
(* The main loop of a SupportManager, as far as it sends and receives.        *)

\* Store.Start registers the SupportManager before it starts it.
ListenMessages(s) ==
  /\ loop[s] = "created"
  /\ handlers' = [handlers EXCEPT ![NodeOf[s]] = @ \cup {s}]
  /\ loop' = [loop EXCEPT ![s] = "listening"]
  /\ UNCHANGED <<quiescing, queues, messages, outgoing, call, worker, stream, received,
                 sig, failures, count, last>>

StartLoop(s) ==
  /\ loop[s] = "listening"
  /\ loop' = [loop EXCEPT ![s] = "select"]
  /\ UNCHANGED <<quiescing, handlers, queues, messages, outgoing, call, worker, stream,
                 received, sig, failures, count, last>>

LoopReady(s) == loop[s] = "select" /\ outgoing[s] = {} /\ NodeOf[s] \notin quiescing

\* A heartbeat tick.
SendHeartbeats(s) ==
  /\ LoopReady(s)
  /\ outgoing' = [outgoing EXCEPT ![s] =
       {[type |-> "MsgHeartbeat", from |-> ManagerIdent(s), to |-> RemoteIdent(t)] : t \in Remotes[s]}]
  /\ UNCHANGED <<quiescing, handlers, queues, messages, loop, call, worker, stream, received,
                 sig, failures, count, last>>

\* The loop receives from receiveQueue.Sig ...
ReceiveSig(s) ==
  /\ LoopReady(s)
  /\ sig[s]
  /\ sig' = [sig EXCEPT ![s] = FALSE]
  /\ loop' = [loop EXCEPT ![s] = "drain"]
  /\ UNCHANGED <<quiescing, handlers, queues, messages, outgoing, call, worker, stream,
                 received, failures, count, last>>

\* ... and then drains the queue, without holding its lock in between.  Every
\* heartbeat is answered.
Drain(s) ==
  /\ loop[s] = "drain"
  /\ received' = [received EXCEPT ![s] = <<>>]
  /\ outgoing' = [outgoing EXCEPT ![s] =
       {[type |-> "MsgHeartbeatResp", from |-> received[s][i].to, to |-> received[s][i].from] :
        i \in {i \in DOMAIN received[s] : received[s][i].type = "MsgHeartbeat"}}]
  /\ loop' = [loop EXCEPT ![s] = "select"]
  /\ UNCHANGED <<quiescing, handlers, queues, messages, call, worker, stream, sig,
                 failures, count, last>>

------------------------------------------------------------------------------
(* SendAsync, called by the main loop of s for one message after the other.   *)

\* SendAsync returns to the loop.
Return(s) ==
  /\ loop' = [loop EXCEPT ![s] = "select"]
  /\ call' = [call EXCEPT ![s] = NoCall]

\* The circuit breaker of the destination is tripped, throughout ...
BreakerTripped(s) ==
  /\ loop[s] = "select"
  /\ \E o \in outgoing[s] :
       /\ o.to.node \in Tripped
       /\ outgoing' = [outgoing EXCEPT ![s] = @ \ {o}]
  /\ UNCHANGED <<quiescing, handlers, queues, messages, loop, call, worker, stream,
                 received, sig, failures, count, last>>

\* ... or for a moment.
BreakerTrips(s) ==
  /\ loop[s] = "select"
  /\ Fail("breaker")
  /\ \E o \in outgoing[s] : outgoing' = [outgoing EXCEPT ![s] = @ \ {o}]
  /\ UNCHANGED <<quiescing, handlers, queues, messages, loop, call, worker, stream,
                 received, sig, count, last>>

\* getQueue: the Load.
SendAsync(s) ==
  /\ loop[s] = "select"
  /\ \E o \in outgoing[s] :
       LET q == queues[NodeOf[s]][o.to.node]
           n == IF count[s] < MaxNumber THEN count[s] + 1 ELSE MaxNumber
       IN  /\ o.to.node \notin Tripped
           /\ outgoing' = [outgoing EXCEPT ![s] = @ \ {o}]
           /\ count' = [count EXCEPT ![s] = n]
           /\ call' = [call EXCEPT ![s] =
                [msg |-> [type |-> o.type, from |-> o.from, to |-> o.to, sender |-> s, number |-> n],
                 queue |-> q]]
           /\ loop' = [loop EXCEPT ![s] = IF q = NoQueue THEN "store" ELSE "enqueue"]
  /\ UNCHANGED <<quiescing, handlers, queues, messages, worker, stream, received, sig,
                 failures, last>>

\* A new sendQueue is an object that nothing refers to.
Fresh(q) ==
  /\ \A n, d \in Nodes : queues[n][d] # q
  /\ \A s \in Stores : call[s].queue # q
  /\ worker[q].pc = "none"
  /\ stream[q] = <<>>

\* getQueue: the LoadOrStore.
LoadOrStore_Store(s) ==
  LET n == NodeOf[s]
      d == call[s].msg.to.node
  IN  /\ loop[s] = "store"
      /\ \E q \in Queues :
           /\ Fresh(q)
           /\ queues' = [queues EXCEPT ![n][d] = q]
           /\ messages' = [messages EXCEPT ![q] = <<>>]
           /\ call' = [call EXCEPT ![s].queue = q]
           /\ loop' = [loop EXCEPT ![s] = "start"]
      /\ UNCHANGED <<quiescing, handlers, outgoing, worker, stream, received, sig,
                     failures, count, last>>
LoadOrStore(s) ==
  LET n == NodeOf[s]
      d == call[s].msg.to.node
  IN  /\ loop[s] = "store"
      /\ \/ /\ queues[n][d] # NoQueue
            /\ call' = [call EXCEPT ![s].queue = queues[n][d]]
            /\ loop' = [loop EXCEPT ![s] = "enqueue"]
            /\ UNCHANGED <<queues, messages>>
         \/ /\ queues[n][d] = NoQueue
            /\ \E q \in Queues :
                 /\ Fresh(q)
                 /\ queues' = [queues EXCEPT ![n][d] = q]
                 /\ messages' = [messages EXCEPT ![q] = <<>>]
                 /\ call' = [call EXCEPT ![s].queue = q]
            /\ loop' = [loop EXCEPT ![s] = "start"]
      /\ UNCHANGED <<quiescing, handlers, outgoing, worker, stream, received, sig,
                     failures, count, last>>

\* RunAsyncTask starts the worker goroutine, unless the stopper quiesces.
StartProcessNewQueue(s) ==
  LET q == call[s].queue
  IN  /\ loop[s] = "start"
      /\ NodeOf[s] \notin quiescing
      /\ worker' = [worker EXCEPT ![q] =
           [pc |-> "spawned", from |-> NodeOf[s], to |-> call[s].msg.to.node,
            queue |-> NoQueue, batch |-> <<>>]]
      /\ loop' = [loop EXCEPT ![s] = "enqueue"]
      /\ UNCHANGED <<quiescing, handlers, queues, messages, outgoing, call, stream, received,
                     sig, failures, count, last>>

StartRefused(s) ==
  /\ loop[s] = "start"
  /\ NodeOf[s] \in quiescing
  /\ queues' = [queues EXCEPT ![NodeOf[s]][call[s].msg.to.node] = NoQueue]
  /\ Return(s)
  /\ UNCHANGED <<quiescing, handlers, messages, outgoing, worker, stream, received, sig,
                 failures, count, last>>

\* The message is queued, or dropped when the channel is full.
Enqueue(s) ==
  /\ loop[s] = "enqueue"
  /\ messages' = [messages EXCEPT ![call[s].queue] =
       IF Len(@) < SendBufferSize THEN Append(@, call[s].msg) ELSE @]
  /\ Return(s)
  /\ UNCHANGED <<quiescing, handlers, queues, outgoing, worker, stream, received, sig,
                 failures, count, last>>

------------------------------------------------------------------------------
(* The worker goroutine of startProcessNewQueue and processQueue.             *)

\* getQueue finds the queue; otherwise the process ends with a fatal error.
WorkerGetQueue(w) ==
  /\ worker[w].pc = "spawned"
  /\ LET q == queues[worker[w].from][worker[w].to]
     IN  /\ q # NoQueue
         /\ worker' = [worker EXCEPT ![w].pc = "dialing", ![w].queue = q]
  /\ UNCHANGED <<quiescing, handlers, queues, messages, loop, outgoing, call, stream,
                 received, sig, failures, count, last>>

\* Dial and the creation of the stream.
Connect(w) ==
  /\ worker[w].pc = "dialing"
  /\ worker' = [worker EXCEPT ![w].pc = "streaming"]
  /\ UNCHANGED <<quiescing, handlers, queues, messages, loop, outgoing, call, stream,
                 received, sig, failures, count, last>>

ConnectError(w) ==
  /\ worker[w].pc = "dialing"
  /\ Fail("dial")
  /\ worker' = [worker EXCEPT ![w].pc = "broken"]
  /\ UNCHANGED <<quiescing, handlers, queues, messages, loop, outgoing, call, stream,
                 received, sig, count, last>>

PullMessage(w) ==
  LET q == worker[w].queue
  IN  /\ worker[w].pc = "streaming"
      /\ messages[q] # <<>>
      /\ Len(worker[w].batch) < MaxBatch
      /\ worker' = [worker EXCEPT ![w].batch = Append(@, Head(messages[q]))]
      /\ messages' = [messages EXCEPT ![q] = Tail(@)]
      /\ UNCHANGED <<quiescing, handlers, queues, loop, outgoing, call, stream, received,
                     sig, failures, count, last>>

SendBatch(w) ==
  /\ worker[w].pc = "streaming"
  /\ worker[w].batch # <<>>
  /\ Len(stream[w] \o worker[w].batch) <= MaxStream
  /\ stream' = [stream EXCEPT ![w] = @ \o worker[w].batch]
  /\ worker' = [worker EXCEPT ![w].batch = <<>>]
  /\ UNCHANGED <<quiescing, handlers, queues, messages, loop, outgoing, call, received, sig,
                 failures, count, last>>

\* The idle timer fires between two batches, even if a message was just queued.
IdleTimeout(w) ==
  /\ worker[w].pc = "streaming"
  /\ worker[w].batch = <<>>
  /\ Fail("idle")
  /\ worker' = [worker EXCEPT ![w].pc = "closing"]
  /\ UNCHANGED <<quiescing, handlers, queues, messages, loop, outgoing, call, stream,
                 received, sig, count, last>>

WorkerQuiesces(w) ==
  /\ worker[w].pc = "streaming"
  /\ worker[w].batch = <<>>
  /\ worker[w].from \in quiescing
  /\ worker' = [worker EXCEPT ![w].pc = "closing"]
  /\ UNCHANGED <<quiescing, handlers, queues, messages, loop, outgoing, call, stream,
                 received, sig, failures, count, last>>

\* The stream fails: messages from some point on never arrive, those before it may
\* still be received after the worker has seen the error.
StreamError(w) ==
  /\ worker[w].pc \in {"streaming", "closing"}
  /\ Fail("stream")
  /\ worker' = [worker EXCEPT ![w].pc = "broken", ![w].batch = <<>>]
  /\ \E k \in 0..Len(stream[w]) : stream' = [stream EXCEPT ![w] = SubSeq(@, 1, k)]
  /\ UNCHANGED <<quiescing, handlers, queues, messages, loop, outgoing, call, received, sig,
                 count, last>>

\* CloseAndRecv returns when the stream has failed or when the receiver has read all of it.
CloseAndRecv_NoWait(w) == worker[w].pc \in {"broken", "closing"}
CloseAndRecv(w) ==
  \/ worker[w].pc = "broken"
  \/ worker[w].pc = "closing" /\ stream[w] = <<>>

\* The worker ends: it closes the stream, if it has one, and then deletes the queue.
WorkerDone_KeepsQueue(w) ==
  /\ CloseAndRecv(w)
  /\ queues' = IF worker[w].pc = "broken" THEN queues
               ELSE [queues EXCEPT ![worker[w].from][worker[w].to] = NoQueue]
  /\ worker' = [worker EXCEPT ![w] = NoWorker]
  /\ UNCHANGED <<quiescing, handlers, messages, loop, outgoing, call, stream, received, sig,
                 failures, count, last>>
WorkerDone(w) ==
  /\ CloseAndRecv(w)
  /\ queues' = [queues EXCEPT ![worker[w].from][worker[w].to] = NoQueue]
  /\ worker' = [worker EXCEPT ![w] = NoWorker]
  /\ UNCHANGED <<quiescing, handlers, messages, loop, outgoing, call, stream, received, sig,
                 failures, count, last>>

------------------------------------------------------------------------------
(* The receiving Transport.                                                   *)

\* receiveQueue.Append: the send on sig does not block.
Signal_Unbuffered(s) == sig' = [sig EXCEPT ![s] = @ \/ LoopReady(s)]
Signal(s) == sig' = [sig EXCEPT ![s] = TRUE]

\* Stream and handleMessage: the message goes to the handler of its store, or nowhere.
HandleMessage(w) ==
  /\ stream[w] # <<>>
  /\ LET m == Head(stream[w])
         t == m.to.store
     IN  \/ /\ t \in handlers[m.to.node]
            /\ Len(received[t]) < MaxReceived
            /\ received' = [received EXCEPT ![t] = Append(@, m)]
            /\ Signal(t)
            /\ last' = [last EXCEPT ![t][m.sender] = m.number]
         \/ /\ t \notin handlers[m.to.node]
            /\ UNCHANGED <<received, sig, last>>
  /\ stream' = [stream EXCEPT ![w] = Tail(@)]
  /\ UNCHANGED <<quiescing, handlers, queues, messages, loop, outgoing, call, worker,
                 failures, count>>

\* The stopper of n starts to quiesce.
Quiesce(n) ==
  /\ n \in Stopping \ quiescing
  /\ quiescing' = quiescing \cup {n}
  /\ UNCHANGED <<handlers, queues, messages, loop, outgoing, call, worker, stream, received,
                 sig, failures, count, last>>

------------------------------------------------------------------------------
\* The steps of the main loop of s that wait for nothing.
LoopStep(s) ==
  \/ ListenMessages(s) \/ StartLoop(s) \/ Drain(s)
  \/ BreakerTripped(s) \/ SendAsync(s) \/ LoadOrStore(s) \/ StartProcessNewQueue(s) \/ StartRefused(s)
  \/ Enqueue(s)

WorkerStep(w) ==
  WorkerGetQueue(w) \/ Connect(w) \/ SendBatch(w) \/ WorkerQuiesces(w) \/ WorkerDone(w)

Next ==
  \/ \E s \in Stores : LoopStep(s) \/ SendHeartbeats(s) \/ ReceiveSig(s) \/ BreakerTrips(s)
  \/ \E w \in Queues :
       \/ WorkerStep(w) \/ PullMessage(w) \/ HandleMessage(w)
       \/ ConnectError(w) \/ IdleTimeout(w) \/ StreamError(w)
  \/ \E n \in Nodes : Quiesce(n)

Spec == Init /\ [][Next]_vars

\* Goroutines are scheduled, tickers fire and the loop's select serves both of its
\* channels; nothing has to fail.
Fairness ==
  /\ \A s \in Stores : WF_vars(LoopStep(s)) /\ SF_vars(SendHeartbeats(s)) /\ SF_vars(ReceiveSig(s))
  /\ \A w \in Queues :
       WF_vars(WorkerStep(w)) /\ WF_vars(PullMessage(w)) /\ WF_vars(HandleMessage(w))

------------------------------------------------------------------------------
(* Properties.                                                                *)

\* The type of every variable; a channel never holds more than sendBufferSize messages.
TypeOK ==
  /\ quiescing \subseteq Nodes
  /\ handlers \in [Nodes -> SUBSET Stores]
  /\ queues \in [Nodes -> [Nodes -> Queues \cup {NoQueue}]]
  /\ messages \in [Queues -> Seq(Message)]
  /\ \A q \in Queues : Len(messages[q]) <= SendBufferSize
  /\ loop \in [Stores -> {"created", "listening", "select", "drain", "store", "start", "enqueue"}]
  /\ outgoing \in [Stores -> SUBSET Outgoing]
  /\ call \in [Stores -> Call \cup {NoCall}]
  /\ worker \in [Queues -> Worker \cup {NoWorker}]
  /\ stream \in [Queues -> Seq(Message)]
  /\ received \in [Stores -> Seq(Message)]
  /\ sig \in [Stores -> BOOLEAN]
  /\ failures \in Nat
  /\ count \in [Stores -> 0..MaxNumber]
  /\ last \in [Stores -> [Stores -> 0..MaxNumber]]

\* s is about to start the worker of q for the link from n to d.
Starts(s, q, n, d) ==
  /\ loop[s] = "start"
  /\ call[s].queue = q
  /\ NodeOf[s] = n
  /\ call[s].msg.to.node = d

\* w is the worker of the link from n to d.
Serves(w, n, d) == worker[w].pc # "none" /\ worker[w].from = n /\ worker[w].to = d

\* Every queue that SendAsync can find has its worker, or a caller that is about
\* to start it: messages are never queued where nobody would ever send them
\* from, whatever failed before.
QueueIsServed ==
  \A n, d \in Nodes :
    LET q == queues[n][d]
    IN  q # NoQueue => Serves(q, n, d) \/ \E s \in Stores : Starts(s, q, n, d)

\* The fatal error of the worker is unreachable, and a worker only ever works on
\* and deletes the queue that was created with it: a link never has two workers.
WorkerFindsQueue ==
  \A w \in Queues :
    worker[w].pc # "none" =>
      /\ queues[worker[w].from][worker[w].to] = w
      /\ worker[w].pc # "spawned" => worker[w].queue = w

\* A message in the receive queue is always announced: sig is set, or the loop
\* has received it and is about to drain.
NoLostWakeup ==
  \A s \in Stores : received[s] # <<>> => sig[s] \/ loop[s] = "drain"

\* As long as no stream fails, messages from one store to another arrive in the
\* order they were sent in, also when idle queues are deleted and created anew.
InOrder ==
  [][\A s, t \in Stores : last'[t][s] >= last[t][s]]_vars

\* After any failures, in any order, heartbeats flow again: a store that is
\* heartbeated drains heartbeats for ever.
HeartbeatsRecover ==
  \A s \in Stores : \A t \in Remotes[s] :
    []<>(loop[t] = "drain" /\ \E i \in DOMAIN received[t] : received[t][i].type = "MsgHeartbeat")
===============================================================================
