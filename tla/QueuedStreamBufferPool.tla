------------------------ MODULE QueuedStreamBufferPool ------------------------
(***************************************************************************)
(* QueuedStreamBufferPool (stream_common/queued_stream_buffer_pool.cpp): *)
(* max_queue_size separately allocated buffers in a std::queue, dequeued   *)
(* from the front and given back at the back, with an index checking that *)
(* they come back in storage order.  A buffer is its index in m_storage;  *)
(* every buffer has offset 0 and the pool's size, so the offset and size   *)
(* CHECKs of enqueue always hold and are left out.                         *)
(*                                                                         *)
(* The producer gives back buffers it holds, in any order.                *)
(***************************************************************************)
EXTENDS Naturals, Sequences, SequencesExt, FiniteSets

CONSTANTS
  MaxQueueSize    \* largest max_queue_size passed to create()

ASSUME MaxQueueSize \in Nat

VARIABLES
  storage_size,   \* m_storage.size()
  queue,          \* m_queue, front first
  next,           \* m_next_enqueue_buffer_index
  held,           \* buffers dequeued and not given back, oldest first
  last            \* the call last returned, as in StreamBufferPool

vars == <<storage_size, queue, next, held, last>>

Result(op, ok, oldest) == [op |-> op, ok |-> ok, oldest |-> oldest]

Storage == 0 .. storage_size - 1

\* The constructor: every buffer of m_storage pushed in storage order.
StorageOrder == [k \in 1 .. storage_size |-> k - 1]

\* create() then the constructor; m_next_enqueue_buffer_index starts at 0.
Init ==
  /\ storage_size \in 0 .. MaxQueueSize
  /\ queue = StorageOrder
  /\ next = 0
  /\ held = <<>>
  /\ last = Result("none", TRUE, FALSE)

max_queue_size == storage_size

Dequeue ==
  /\ queue # <<>>
  /\ queue' = Tail(queue)
  /\ held' = Append(held, Head(queue))
  /\ last' = Result("dequeue", TRUE, FALSE)
  /\ UNCHANGED <<storage_size, next>>

DequeueEmpty ==
  /\ queue = <<>>
  /\ last' = Result("dequeue", FALSE, FALSE)
  /\ UNCHANGED <<storage_size, queue, next, held>>

Offerable == Range(held)

IsOldest(b) == held # <<>> /\ b = Head(held)

\* The in-order CHECK of enqueue.
EnqueueAccepted(b) == b = next

\* (m_next_enqueue_buffer_index + 1) % m_storage.size()
Advance(i) == (i + 1) % storage_size

Enqueue ==
  \E b \in Offerable :
    /\ EnqueueAccepted(b)
    /\ queue' = Append(queue, b)
    /\ next' = Advance(next)
    /\ held' = RemoveFirst(held, b)
    /\ last' = Result("enqueue", TRUE, IsOldest(b))
    /\ UNCHANGED storage_size

EnqueueRefused ==
  \E b \in Offerable :
    /\ ~EnqueueAccepted(b)
    /\ last' = Result("enqueue", FALSE, IsOldest(b))
    /\ UNCHANGED <<storage_size, queue, next, held>>

\* reset_pointers leaving the next index where it was.
ResetKeepingIndex(i) == i

\* reset_pointers: m_next_enqueue_buffer_index = 0.
ResetIndex(i) == 0

\* reset_pointers refilling the queue without first popping what it holds.
ResetPointersWithoutClear ==
  /\ queue' = queue \o StorageOrder
  /\ next' = ResetIndex(next)
  /\ held' = <<>>
  /\ last' = Result("reset", TRUE, FALSE)
  /\ UNCHANGED storage_size

\* reset_pointers: the queue emptied and refilled in storage order.  The
\* buffers the user held are dropped: their transfers were cancelled.
ResetPointers ==
  /\ queue' = StorageOrder
  /\ next' = ResetIndex(next)
  /\ held' = <<>>
  /\ last' = Result("reset", TRUE, FALSE)
  /\ UNCHANGED storage_size

Next == Dequeue \/ DequeueEmpty \/ Enqueue \/ EnqueueRefused \/ ResetPointers

Spec == Init /\ [][Next]_vars

-----------------------------------------------------------------------------

TypeOK ==
  /\ storage_size \in 0 .. MaxQueueSize
  /\ queue \in Seq(Storage)
  /\ held \in Seq(Storage)
  /\ next \in Storage \cup {0}

\* Every buffer of the storage is either queued or held, and only once:
\* dequeue never hands out a buffer the user already holds.
EachBufferOnce ==
  \A b \in Storage :
    Cardinality({i \in 1 .. Len(queue) : queue[i] = b})
      + Cardinality({i \in 1 .. Len(held) : held[i] = b}) = 1

Abs == INSTANCE StreamBufferPool WITH cap <- max_queue_size, held <- Len(held)

\* The pool behaves as max_queue_size() buffers given back in dequeue order.
ImplementsStreamBufferPool == Abs!Spec
=============================================================================
