------------------------ MODULE MC_StreamBufferPools ------------------------
(***************************************************************************)
(* Both StreamBufferPool implementations side by side, each stepping on    *)
(* its own: the circular pool (vdma) and the queued pool (stream_common).  *)
(* Each is checked against its own invariants and against the one          *)
(* abstract StreamBufferPool they both implement.                          *)
(*                                                                         *)
(* Circular: rings of 1, 2, 4 and 8 pages of 1 or 2 bytes and every        *)
(* transfer size that fits: transfers of one page, several pages and a     *)
(* partial last page, windows that wrap around the base buffer's end, and  *)
(* a pool whose max_queue_size() is 0.  Queued: pools of 0 to 5 buffers,   *)
(* enough for the index to wrap and for a buffer given back out of order   *)
(* while two others are held; the producer gives back only buffers it      *)
(* holds.                                                                  *)
(***************************************************************************)
EXTENDS Naturals

VARIABLES
  c_geom, c_head, c_tail, c_next, c_held, c_last,
  q_storage_size, q_queue, q_next, q_held, q_last

cvars == <<c_geom, c_head, c_tail, c_next, c_held, c_last>>
qvars == <<q_storage_size, q_queue, q_next, q_held, q_last>>

C == INSTANCE CircularStreamBufferPool
       WITH DescsCounts <- {1, 2, 4, 8}, PageSizes <- {1, 2}, MaxTransfer <- 5,
            geom <- c_geom, head <- c_head, tail <- c_tail, next <- c_next,
            held <- c_held, last <- c_last

Q == INSTANCE QueuedStreamBufferPool
       WITH MaxQueueSize <- 5,
            storage_size <- q_storage_size, queue <- q_queue, next <- q_next,
            held <- q_held, last <- q_last

Init == C!Init /\ Q!Init

Next == (C!Next /\ UNCHANGED qvars) \/ (Q!Next /\ UNCHANGED cvars)

Spec == Init /\ [][Next]_<<cvars, qvars>>

-----------------------------------------------------------------------------

\* Both pools' states are well typed.
TypeOK == C!TypeOK /\ Q!TypeOK

\* Circular pool: no two buffers the user holds share a byte of the base
\* buffer, wrapping windows included (CircularStreamBufferPool::dequeue).
HeldBuffersDisjoint == C!HeldBuffersDisjoint

\* Circular pool: TransferBuffer::copy_to of a held buffer reads the window
\* in ring order.
CopyToReadsWindow == C!CopyToReadsWindow

\* Circular pool: TransferBuffer::copy_from into a held buffer writes the
\* window in ring order and nothing else.
CopyFromWritesWindow == C!CopyFromWritesWindow

\* Queued pool: every buffer of m_storage is in exactly one place, the
\* queue or the user's hands (QueuedStreamBufferPool::enqueue/dequeue).
EachBufferOnce == Q!EachBufferOnce

\* Each pool behaves as max_queue_size() buffers given back in dequeue
\* order: dequeue fails only when all are held, enqueue accepts exactly
\* the oldest.
ImplementsStreamBufferPool ==
  C!ImplementsStreamBufferPool /\ Q!ImplementsStreamBufferPool
=============================================================================
