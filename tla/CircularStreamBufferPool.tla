----------------------- MODULE CircularStreamBufferPool -----------------------
(***************************************************************************)
(* CircularStreamBufferPool (vdma/circular_stream_buffer_pool.cpp): a pool *)
(* of transfer buffers cut from one base buffer of descs_count descriptor  *)
(* pages, handed out in ring order by a head/tail circular buffer counted  *)
(* in pages.  One consumer calls dequeue, one producer calls enqueue with  *)
(* any buffer of the pool's shape (a buffer it holds, in or out of order,  *)
(* or one it gave back already); the pool's CHECKs must refuse all but the *)
(* oldest held one.  The geometry is chosen once, among those create()     *)
(* accepts.                                                                *)
(*                                                                         *)
(* The circbuf_t macros (CB_PROG, CB_AVAIL, CB_ENQUEUE, CB_DEQUEUE,        *)
(* CB_RESET) come from common/ and are written out where they are used:   *)
(* with a power-of-two size, "& size_mask" is "% size".                    *)
(***************************************************************************)
EXTENDS TransferBuffer, Sequences, SequencesExt, FiniteSets

CONSTANTS
  DescsCounts,    \* descs_count values tried (create CHECKs a power of 2)
  PageSizes,      \* desc_page_size values tried (a power of 2)
  MaxTransfer     \* largest transfer_size tried

VARIABLES
  geom,   \* [descs, page, transfer]: the create() arguments
  head,   \* CB_HEAD(m_queue), in pages
  tail,   \* CB_TAIL(m_queue), in pages
  next,   \* m_next_enqueue_desc_offset, in pages
  held,   \* the TransferBuffers dequeued and not yet given back, oldest first
  last    \* the call last returned, as in StreamBufferPool

vars == <<geom, head, tail, next, held, last>>

Result(op, ok, oldest) == [op |-> op, ok |-> ok, oldest |-> oldest]

IsPowerOf2(n) == \E k \in 0 .. n : 2 ^ k = n

\* create(): the three CHECKs on descs_count, desc_page_size and transfer_size.
ValidGeometries ==
  {g \in [descs : DescsCounts, page : PageSizes, transfer : 1 .. MaxTransfer] :
     /\ IsPowerOf2(g.descs)
     /\ IsPowerOf2(g.page)
     /\ g.transfer < g.page * g.descs}

BufferSize(g) == g.page * g.descs

\* descs_in_transfer rounding down, as a division of sizes would.
descs_in_transfer_floor(g) ==
  IF g.transfer \div g.page = 0 THEN 1 ELSE g.transfer \div g.page

\* descs_in_transfer: DescriptorList::descriptors_in_buffer, pages rounded up.
descs_in_transfer(g) == (g.transfer + g.page - 1) \div g.page

max_queue_size(g) == (g.descs - 1) \div descs_in_transfer(g)

\* A ring position moved by one transfer without the size mask.
AdvanceUnmasked(pos, g) == pos + descs_in_transfer(g)

\* CB_ENQUEUE / CB_DEQUEUE and the next-offset update: one transfer's pages
\* further, "& size_mask".
Advance(pos, g) == (pos + descs_in_transfer(g)) % g.descs

\* buffers_ready_to_dequeue rounding the whole transfers up.
buffers_ready_to_dequeue_ceil ==
  LET prog == (geom.descs + head - tail) % geom.descs
  IN  (prog + descs_in_transfer(geom) - 1) \div descs_in_transfer(geom)

\* buffers_ready_to_dequeue: CB_PROG pages, in whole transfers.
buffers_ready_to_dequeue ==
  LET prog == (geom.descs + head - tail) % geom.descs
  IN  prog \div descs_in_transfer(geom)

\* The constructor: CB_INIT, then head = descs_count - 1.
Init ==
  /\ geom \in ValidGeometries
  /\ head = geom.descs - 1
  /\ tail = 0
  /\ next = 0
  /\ held = <<>>
  /\ last = Result("none", TRUE, FALSE)

\* dequeue: the buffer at the tail, then CB_DEQUEUE.
Dequeue ==
  /\ buffers_ready_to_dequeue > 0
  /\ tail' = Advance(tail, geom)
  /\ held' = Append(held, Transfer(BufferSize(geom), geom.transfer, tail * geom.page))
  /\ last' = Result("dequeue", TRUE, FALSE)
  /\ UNCHANGED <<geom, head, next>>

DequeueEmpty ==
  /\ buffers_ready_to_dequeue = 0
  /\ last' = Result("dequeue", FALSE, FALSE)
  /\ UNCHANGED <<geom, head, tail, next, held>>

\* The buffers of the pool's shape a producer can give back.
Offerable == {Transfer(BufferSize(geom), geom.transfer, k * geom.page) : k \in 0 .. geom.descs - 1}

IsOldest(b) == held # <<>> /\ b = Head(held)

\* enqueue: CB_AVAIL pages for the transfer and the in-order offset CHECK
\* (the base-buffer and size CHECKs hold for every offered buffer).
EnqueueAccepted(b) ==
  /\ (geom.descs - 1 + tail - head) % geom.descs >= descs_in_transfer(geom)
  /\ b.offset = next * geom.page

Enqueue ==
  \E b \in Offerable :
    /\ EnqueueAccepted(b)
    /\ head' = Advance(head, geom)
    /\ next' = Advance(next, geom)
    /\ held' = RemoveFirst(held, b)
    /\ last' = Result("enqueue", TRUE, IsOldest(b))
    /\ UNCHANGED <<geom, tail>>

EnqueueRefused ==
  \E b \in Offerable :
    /\ ~EnqueueAccepted(b)
    /\ last' = Result("enqueue", FALSE, IsOldest(b))
    /\ UNCHANGED <<geom, head, tail, next, held>>

\* reset_pointers: CB_RESET, head = size - 1, next offset 0.  The buffers the
\* user held are dropped: their transfers were cancelled by the caller.
ResetPointers ==
  /\ head' = geom.descs - 1
  /\ tail' = 0
  /\ next' = 0
  /\ held' = <<>>
  /\ last' = Result("reset", TRUE, FALSE)
  /\ UNCHANGED geom

Next == Dequeue \/ DequeueEmpty \/ Enqueue \/ EnqueueRefused \/ ResetPointers

Spec == Init /\ [][Next]_vars

-----------------------------------------------------------------------------

TypeOK ==
  /\ geom \in ValidGeometries
  /\ {head, tail, next} \subseteq 0 .. geom.descs - 1
  /\ held \in Seq(Offerable)
  /\ last.op \in {"none", "dequeue", "enqueue", "reset"}

HeldBytes(b) == UNION {ViewBytes(v) : v \in Range(get_continuous_parts(b))}

\* No two buffers the user holds share a byte of the base buffer, wrapping
\* windows included: dequeue never hands out memory a transfer still uses.
HeldBuffersDisjoint ==
  \A i, j \in 1 .. Len(held) :
    i # j => HeldBytes(held[i]) \cap HeldBytes(held[j]) = {}

(***************************************************************************)
(* The copies a stream makes through a buffer the pool handed out          *)
(* (TransferBuffer::copy_to and copy_from).  They move bytes without       *)
(* looking at them, so one base buffer whose every byte holds its own      *)
(* position, and one user buffer whose every byte is distinct from all of  *)
(* those, tell apart every byte a copy could read or write wrongly.        *)
(***************************************************************************)
BaseLabels(b) == [k \in 0 .. b.base - 1 |-> k]

UserLabels(b) == [j \in 0 .. b.size - 1 |-> b.base + j]

\* copy_to of any buffer the user holds fills the user buffer with the
\* window's bytes in ring order: up to the base buffer's end, then from
\* its start.
CopyToReadsWindow ==
  \A i \in 1 .. Len(held) :
    copy_to(held[i], BaseLabels(held[i])) = ReferenceRead(held[i], BaseLabels(held[i]))

\* copy_from into any held buffer writes the user buffer into the window in
\* ring order and leaves every base byte outside the window as it was.
CopyFromWritesWindow ==
  \A i \in 1 .. Len(held) :
    LET b == held[i] IN
    copy_from(b, BaseLabels(b), UserLabels(b)) = ReferenceWrite(b, BaseLabels(b), UserLabels(b))

Abs == INSTANCE StreamBufferPool WITH cap <- max_queue_size(geom), held <- Len(held)

\* The pool behaves as max_queue_size() buffers given back in dequeue order:
\* dequeue fails only when all are held, enqueue accepts exactly the oldest.
ImplementsStreamBufferPool == Abs!Spec
=============================================================================
