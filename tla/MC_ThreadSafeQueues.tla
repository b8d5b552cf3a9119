------------------------- MODULE MC_ThreadSafeQueues -------------------------
(***************************************************************************)
(* The two bounded queues of thread_safe_queue.hpp, side by side, each     *)
(* stepping on its own.                                                    *)
(* SpscQueue: two slots and four items, so the queue fills, cant_enqueue   *)
(* and can_enqueue both fire, and the producer waits on a full queue.      *)
(* SafeQueueMaxSize: one slot, two producers pushing two items each and    *)
(* two consumers popping two each, so both wait sets fill, a notify can    *)
(* wake a thread whose item another thread takes first, and every thread   *)
(* can finish.                                                             *)
(***************************************************************************)
EXTENDS Naturals

CONSTANTS p1, p2, c1, c2

VARIABLES
  inner, enq_sema, deq_sema, count, shutdown, produced, ppc, cpc, cmode, lastcb,
  sq_size, sq_pc, sq_calls

sp_vars == <<inner, enq_sema, deq_sema, count, shutdown, produced, ppc, cpc, cmode, lastcb>>
sq_vars == <<sq_size, sq_pc, sq_calls>>

SP == INSTANCE SpscQueue WITH MaxSize <- 2, MaxItems <- 4

SQ == INSTANCE SafeQueue WITH
        Producers <- {p1, p2}, Consumers <- {c1, c2}, MaxSize <- 1,
        ItemsPerProducer <- 2, PopsPerConsumer <- 2,
        size <- sq_size, pc <- sq_pc, calls <- sq_calls

Init == SP!Init /\ SQ!Init

Next == (SP!Next /\ UNCHANGED sq_vars) \/ (SQ!Next /\ UNCHANGED sp_vars)

\* The SpscQueue threads keep their fairness; the SafeQueueMaxSize threads
\* are checked for safety only.
Spec == Init /\ [][Next]_<<sp_vars, sq_vars>> /\ SP!Fairness

-----------------------------------------------------------------------------

\* Both queues' states are well typed.
QueuesTypeOK == SP!TypeOK /\ SQ!TypeOK

\* SpscQueue: the assert(success) after try_dequeue and try_enqueue never
\* fires.
InnerQueueOpsSucceed == SP!InnerQueueOpsSucceed

\* SpscQueue: the last callback fired was cant_enqueue exactly when
\* m_enqueues_count is at max_size.
CallbacksTrackFullness == SP!CallbacksTrackFullness

\* SpscQueue: every item put in the queue leaves it by dequeue or clear(),
\* unless the shutdown event is signalled meanwhile.
ItemsLeaveQueue == SP!ItemsLeaveQueue

\* SafeQueueMaxSize never holds more than m_max_size items nor pops an
\* empty queue, though woken waiters race new calls for the mutex.
SafeQueueWithinMaxSize == SQ!WithinMaxSize

\* No SafeQueueMaxSize thread is left in a wait set with nobody to notify it.
SafeQueueNoThreadWaitsForever == SQ!NoThreadWaitsForever
=============================================================================
