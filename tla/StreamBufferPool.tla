--------------------------- MODULE StreamBufferPool ---------------------------
(***************************************************************************)
(* What a StreamBufferPool (stream_internal.hpp) promises its one consumer *)
(* and one producer: max_queue_size() buffers, handed out by dequeue() and *)
(* given back by enqueue() in the order they were handed out, and all of   *)
(* them back in the pool after reset_pointers().  Buffers have no identity *)
(* here: the pool only counts those the user holds.  The result of the    *)
(* last call is kept so that a failing call is a visible step.             *)
(*                                                                         *)
(* CircularStreamBufferPool and QueuedStreamBufferPool refine this module. *)
(***************************************************************************)
EXTENDS Naturals

VARIABLES
  cap,    \* max_queue_size()
  held,   \* buffers dequeued and not yet enqueued back
  last    \* the call last returned: [op, ok, oldest]

Calls == {"none", "dequeue", "enqueue", "reset"}

\* oldest: for enqueue, whether the buffer given back is the oldest one held.
Result(op, ok, oldest) == [op |-> op, ok |-> ok, oldest |-> oldest]

Init ==
  /\ cap \in Nat
  /\ held = 0
  /\ last = Result("none", TRUE, FALSE)

Dequeue ==
  /\ held < cap
  /\ held' = held + 1
  /\ last' = Result("dequeue", TRUE, FALSE)
  /\ UNCHANGED cap

\* The pool is empty: every buffer is held by the user.
DequeueEmpty ==
  /\ held = cap
  /\ last' = Result("dequeue", FALSE, FALSE)
  /\ UNCHANGED <<cap, held>>

Enqueue ==
  /\ held > 0
  /\ held' = held - 1
  /\ last' = Result("enqueue", TRUE, TRUE)
  /\ UNCHANGED cap

\* Any buffer other than the oldest held one is refused.
EnqueueRefused ==
  /\ last' = Result("enqueue", FALSE, FALSE)
  /\ UNCHANGED <<cap, held>>

Reset ==
  /\ held' = 0
  /\ last' = Result("reset", TRUE, FALSE)
  /\ UNCHANGED cap

Next == Dequeue \/ DequeueEmpty \/ Enqueue \/ EnqueueRefused \/ Reset

Spec == Init /\ [][Next]_<<cap, held, last>>
=============================================================================
