------------------------- MODULE RaftReceiveQueues -------------------------
(***************************************************************************)
(* The queues of received raft messages of a store,                        *)
(* pkg/kv/kvserver/store_raft.go, composed with the raft scheduler: a      *)
(* handler appends a message to the queue of its range and, if it is the   *)
(* first, enqueues the range for request processing; a worker drains the   *)
(* queue; a queue is deleted by a worker that could not deliver, and when  *)
(* the replica is unlinked. A queue that was deleted is replaced by a new  *)
(* object on the next message, so queues are numbered objects here.        *)
(*                                                                         *)
(* Messages are counted: what is in them is the business of raft. Batches  *)
(* of uncoalesced heartbeats append like single messages and are left out. *)
(***************************************************************************)
EXTENDS RaftScheduler

CONSTANTS
  MaxLen,      \* the length a receive queue may reach
  MaxQueues,   \* bound: queue objects that are created
  Unlinker     \* the goroutine that removes replicas, under the store mutex

ASSUME RecvAssumption ==
  MaxLen \in Nat \ {0} /\ MaxQueues \in Nat \ {0} /\ "Request" \in Kinds

VARIABLES
  created,     \* the number of queue objects created so far
  recvQueue,   \* per object: the messages in it and whether it was destroyed
  recvMap,     \* per range, the queue object in raftReceiveQueues.m, or 0
  replica,     \* per range, whether replicasByRangeID holds a replica
  handler,     \* per enqueuer, the HandleRaftRequest call in progress
  drainer,     \* per worker, the processRequestQueue call in progress
  deleter      \* per deleting goroutine, raftReceiveQueues.Delete in progress

recvVars == <<created, recvQueue, recvMap, replica, handler, drainer, deleter>>

vars == <<schedVars, recvVars>>

Deleters == Workers \cup {Unlinker}

Idle == [pc |-> "idle", id |-> NoRange, q |-> 0]

RecvInit ==
  /\ Init
  /\ created = 0
  /\ recvQueue = [q \in 1 .. MaxQueues |-> [len |-> 0, destroyed |-> FALSE]]
  /\ recvMap = [id \in Ranges |-> 0]
  /\ replica = [id \in Ranges |-> TRUE]
  /\ handler = [e \in Enqueuers |-> Idle]
  /\ drainer = [w \in Workers |-> Idle]
  /\ deleter = [d \in Deleters |-> Idle]

-----------------------------------------------------------------------------
(* HandleRaftRequest *)

(* LoadOrCreate: the queue in the map, or a new one. *)
LoadOrCreate(e, id) ==
  /\ handler[e].pc = "idle"
  /\ caller[e].pc = "idle"
  /\ recvMap[id] # 0 \/ created < MaxQueues
  /\ LET q == IF recvMap[id] # 0 THEN recvMap[id] ELSE created + 1
     IN /\ handler' = [handler EXCEPT ![e] = [pc |-> "append", id |-> id, q |-> q]]
        /\ recvMap' = [recvMap EXCEPT ![id] = q]
        /\ created' = IF recvMap[id] # 0 THEN created ELSE created + 1
  /\ UNCHANGED <<schedVars, recvQueue, replica, drainer, deleter>>

(* Mutant: only the message that fills the queue triggers the drain. *)
AppendMessage_LastTriggers(e) ==
  LET q == handler[e].q
      first == recvQueue[q].len + 1 = MaxLen
  IN /\ handler[e].pc = "append"
     /\ ~recvQueue[q].destroyed
     /\ recvQueue[q].len < MaxLen
     /\ recvQueue' = [recvQueue EXCEPT ![q].len = @ + 1]
     /\ handler' = [handler EXCEPT ![e] = IF first THEN [@ EXCEPT !.pc = "enqueue"] ELSE Idle]
     /\ UNCHANGED <<schedVars, created, recvMap, replica, drainer, deleter>>

(* Append: the message is dropped when the queue is destroyed or full, or  *)
(* the memory budget refuses it; the first message asks for a drain.       *)
AppendMessage(e) ==
  LET q == handler[e].q
      first == recvQueue[q].len = 0
  IN /\ handler[e].pc = "append"
     /\ \/ /\ ~recvQueue[q].destroyed
           /\ recvQueue[q].len < MaxLen
           /\ recvQueue' = [recvQueue EXCEPT ![q].len = @ + 1]
           /\ handler' = [handler EXCEPT ![e] = IF first THEN [@ EXCEPT !.pc = "enqueue"] ELSE Idle]
        \/ /\ UNCHANGED recvQueue
           /\ handler' = [handler EXCEPT ![e] = Idle]
     /\ UNCHANGED <<schedVars, created, recvMap, replica, drainer, deleter>>

(* EnqueueRaftRequest by the handler whose message was the first. *)
EnqueueRaftRequest(e) ==
  /\ handler[e].pc = "enqueue"
  /\ BeginCall(e, "Request", <<handler[e].id>>)
  /\ handler' = [handler EXCEPT ![e] = Idle]
  /\ UNCHANGED <<created, recvQueue, recvMap, replica, drainer, deleter>>

-----------------------------------------------------------------------------
(* processRequestQueue, the processor's part of ProcessRequestQueue. *)

(* The return to the worker, with or without a request for ready. *)
RequestsDone(w, ready) ==
  Process(w, "Request", (worker[w].flags \ {"Request"}) \cup ready, worker[w].ticks)

(* Load of the queue: without one there is nothing to do. *)
LoadQueue(w) ==
  /\ drainer[w].pc = "idle"
  /\ worker[w].pc = "process"
  /\ "Request" \in worker[w].flags
  /\ LET id == worker[w].id
     IN \/ /\ recvMap[id] = 0
           /\ RequestsDone(w, {})
           /\ UNCHANGED drainer
        \/ /\ recvMap[id] # 0
           /\ drainer' = [drainer EXCEPT ![w] = [pc |-> "drain", id |-> id, q |-> recvMap[id]]]
           /\ UNCHANGED schedVars
  /\ UNCHANGED <<created, recvQueue, recvMap, replica, handler, deleter>>

(* Drain: all messages are taken, an empty queue ends the call. *)
Drain(w) ==
  LET q == drainer[w].q
  IN /\ drainer[w].pc = "drain"
     /\ recvQueue' = [recvQueue EXCEPT ![q].len = 0]
     /\ \/ /\ recvQueue[q].len = 0
           /\ RequestsDone(w, {})
           /\ drainer' = [drainer EXCEPT ![w] = Idle]
        \/ /\ recvQueue[q].len > 0
           /\ drainer' = [drainer EXCEPT ![w].pc = "step"]
           /\ UNCHANGED schedVars
     /\ UNCHANGED <<created, recvMap, replica, handler, deleter>>

(* The messages are stepped into the replica. After an error the queue is  *)
(* dropped if the replica does not exist and the queue is empty.           *)
StepMessages(w) ==
  LET id == drainer[w].id
      q == drainer[w].q
  IN /\ drainer[w].pc = "step"
     /\ \/ /\ RequestsDone(w, {"Ready"})
           /\ drainer' = [drainer EXCEPT ![w] = Idle]
           /\ UNCHANGED deleter
        \/ /\ ~replica[id] /\ recvQueue[q].len = 0
           /\ drainer' = [drainer EXCEPT ![w].pc = "deleting"]
           /\ deleter' = [deleter EXCEPT ![w] = [pc |-> "load", id |-> id, q |-> 0]]
           /\ UNCHANGED schedVars
     /\ UNCHANGED <<created, recvQueue, recvMap, replica, handler>>

(* The return of processRequestQueue after it has deleted the queue. *)
ReturnAfterDelete(w) ==
  /\ drainer[w].pc = "deleting"
  /\ deleter[w].pc = "idle"
  /\ RequestsDone(w, {"Ready"})
  /\ drainer' = [drainer EXCEPT ![w] = Idle]
  /\ UNCHANGED <<created, recvQueue, recvMap, replica, handler, deleter>>

-----------------------------------------------------------------------------
(* raftReceiveQueues.Delete: load, drain and destroy, delete from the map. *)

DeleteQueue(d) ==
  LET c == deleter[d]
  IN /\ \/ /\ c.pc = "load"
           /\ deleter' = [deleter EXCEPT ![d] =
                IF recvMap[c.id] = 0 THEN Idle ELSE [c EXCEPT !.pc = "destroy", !.q = recvMap[c.id]]]
           /\ UNCHANGED <<recvQueue, recvMap>>
        \/ /\ c.pc = "destroy"
           /\ recvQueue' = [recvQueue EXCEPT ![c.q] = [len |-> 0, destroyed |-> TRUE]]
           /\ deleter' = [deleter EXCEPT ![d].pc = "unmap"]
           /\ UNCHANGED recvMap
        \/ /\ c.pc = "unmap"
           /\ recvMap' = [recvMap EXCEPT ![c.id] = 0]
           /\ deleter' = [deleter EXCEPT ![d] = Idle]
           /\ UNCHANGED recvQueue
     /\ UNCHANGED <<schedVars, created, replica, handler, drainer>>

(* unlinkReplicaByRangeIDLocked: the replica, then its queue. The range    *)
(* then loses its priority (RemovePriorityID), but none has any here: no   *)
(* step of this module gives it.                                           *)
UnlinkReplica(id) ==
  /\ replica[id]
  /\ deleter[Unlinker].pc = "idle"
  /\ replica' = [replica EXCEPT ![id] = FALSE]
  /\ deleter' = [deleter EXCEPT ![Unlinker] = [pc |-> "load", id |-> id, q |-> 0]]
  /\ UNCHANGED <<schedVars, created, recvQueue, recvMap, handler, drainer>>

(* A replica of the range is added to the store, under the store mutex. *)
AddReplica(id) ==
  /\ ~replica[id]
  /\ deleter[Unlinker].pc = "idle"
  /\ replica' = [replica EXCEPT ![id] = TRUE]
  /\ UNCHANGED <<schedVars, created, recvQueue, recvMap, handler, drainer, deleter>>

HandlerStep(e) == AppendMessage(e) \/ EnqueueRaftRequest(e)

DrainStep(w) == LoadQueue(w) \/ Drain(w) \/ StepMessages(w) \/ ReturnAfterDelete(w)

(* The steps of the scheduler that are not calls of the processor. *)
SchedulerStep(w) == StartWorker(w) \/ WorkerLoop(w) \/ ProcessReady(w) \/ WorkerFinish(w)

RecvNext ==
  \/ \E e \in Enqueuers :
       \/ \E id \in Ranges : LoadOrCreate(e, id)
       \/ HandlerStep(e)
       \/ (CallerStep(e) /\ UNCHANGED recvVars)
  \/ \E w \in Workers : DrainStep(w) \/ (SchedulerStep(w) /\ UNCHANGED recvVars)
  \/ \E d \in Deleters : DeleteQueue(d)
  \/ \E id \in Ranges : UnlinkReplica(id) \/ AddReplica(id)

RecvSpec == RecvInit /\ [][RecvNext]_vars

-----------------------------------------------------------------------------
(* Properties *)

(* Somebody is going to drain the queue q of the range. *)
DrainComes(id, q) ==
  \/ \E e \in Enqueuers : handler[e].pc = "enqueue" /\ handler[e].q = q
  \/ \E e \in Enqueuers : caller[e].kind = "Request" /\ Announces(caller[e], id)
  \/ \E s \in Shards : "Request" \in state[s][id].flags
  \/ \E w \in Workers : /\ worker[w].id = id
                        /\ "Request" \in worker[w].flags
                        /\ \/ drainer[w].pc = "idle"
                           \/ drainer[w].pc = "drain" /\ drainer[w].q = q

(* A queue with messages is never left alone: although only the append     *)
(* that finds it empty enqueues the range, the drain that append asked for *)
(* is still to come, whatever drains and deletions race with the appends.  *)
NoStrandedMessages ==
  \A id \in Ranges :
    LET q == recvMap[id]
    IN q # 0 => (recvQueue[q].len > 0 => DrainComes(id, q))
=============================================================================
