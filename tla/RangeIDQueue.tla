---------------------------- MODULE RangeIDQueue ----------------------------
(***************************************************************************)
(* rangeIDQueue of pkg/kv/kvserver/scheduler.go: a FIFO queue in chunks of *)
(* a fixed size, with a separate count of its elements. A chunk is filled  *)
(* from its front and is dropped when it was filled and read to its end.   *)
(***************************************************************************)
EXTENDS Naturals, Sequences, SequencesExt

CONSTANTS
  Values,      \* range IDs
  None,        \* PopFront returned false
  Panic,       \* one of the panics of the queue
  ChunkSize,   \* rangeIDChunkSize
  MaxItems     \* bound: elements in the queue

VARIABLES
  count,   \* rangeIDQueue.len
  chunks,  \* rangeIDQueue.chunks, each a buffer with read and write position
  answer   \* what the last call of PopFront returned, or a panic

vars == <<count, chunks, answer>>

(* buf holds buf[0:wr]; what was read is still in it. *)
EmptyChunk == [buf |-> <<>>, rd |-> 0]

WriteCap(c) == ChunkSize - Len(c.buf)

ChunkLen(c) == Len(c.buf) - c.rd

Init == count = 0 /\ chunks = <<>> /\ answer = None

(* Push: a new chunk when there is none or the last is full. PushBack of a *)
(* full chunk would panic.                                                 *)
Push(v) ==
  LET base == IF chunks = <<>> \/ WriteCap(chunks[Len(chunks)]) = 0
                THEN Append(chunks, EmptyChunk)
                ELSE chunks
      back == base[Len(base)]
  IN /\ count < MaxItems
     /\ count' = count + 1
     /\ IF WriteCap(back) = 0
          THEN answer' = Panic /\ chunks' = base
          ELSE /\ chunks' = [base EXCEPT ![Len(base)].buf = Append(@, v)]
               /\ UNCHANGED answer

(* Mutant: the chunks are read from the back of the list. *)
PopFront_Back ==
  LET n == Len(chunks)
      read == [chunks[n] EXCEPT !.rd = @ + 1]
  IN /\ count # 0
     /\ count' = count - 1
     /\ answer' = chunks[n].buf[chunks[n].rd + 1]
     /\ chunks' = IF ChunkLen(read) = 0 THEN SubSeq(chunks, 1, n - 1)
                                       ELSE [chunks EXCEPT ![n] = read]

(* PopFront: the front chunk must not be empty, and is removed when it was *)
(* both filled and read.                                                   *)
PopFront ==
  \/ /\ count = 0
     /\ answer' = None
     /\ UNCHANGED <<count, chunks>>
  \/ /\ count # 0
     /\ count' = count - 1
     /\ LET front == chunks[1]
            read == [front EXCEPT !.rd = @ + 1]
        IN IF ChunkLen(front) = 0
             THEN answer' = Panic /\ chunks' = chunks
             ELSE /\ answer' = front.buf[front.rd + 1]
                  /\ chunks' = IF ChunkLen(read) = 0 /\ WriteCap(read) = 0
                                 THEN Tail(chunks)
                                 ELSE [chunks EXCEPT ![1] = read]

Next == PopFront \/ \E v \in Values : Push(v)

Spec == Init /\ [][Next]_vars

-----------------------------------------------------------------------------
(* Properties *)

Unread(c) == SubSeq(c.buf, c.rd + 1, Len(c.buf))

Contents == FlattenSeq([i \in DOMAIN chunks |-> Unread(chunks[i])])

Abstract == INSTANCE Fifo WITH items <- Contents

(* The chunked queue is a FIFO queue: Push and PopFront of the chunks are  *)
(* Push and PopFront of the sequence they hold, and neither panics.        *)
ImplementsFifo == Abstract!Spec
=============================================================================
