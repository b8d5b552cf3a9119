------------------------------- MODULE SpscQueue -------------------------------
(***************************************************************************)
(* SpscQueue (thread_safe_queue.hpp): a bounded single-producer single-    *)
(* consumer queue over moodycamel::ReaderWriterQueue, guarded by two       *)
(* semaphores, items_enqueued (starts at 0) and items_dequeued (starts at  *)
(* max_size), each waited on together with the shared shutdown event, and *)
(* a counter m_enqueues_count under m_callback_mutex that fires the        *)
(* cant_enqueue callback when the queue becomes full and can_enqueue when  *)
(* it stops being full.                                                    *)
(*                                                                         *)
(* The producer thread enqueues the items 1, 2, ... MaxItems; the consumer *)
(* thread calls dequeue or clear(); the shutdown event is signalled and    *)
(* reset by the pipeline.  Each thread's calls are split at the points     *)
(* where the other thread can step in: the semaphore wait, the inner queue *)
(* operation, the callback-mutex block, and the final semaphore signal.    *)
(***************************************************************************)
EXTENDS Naturals, Sequences, SequencesExt

CONSTANTS
  MaxSize,    \* the max_size given to create()
  MaxItems    \* how many items the producer enqueues

ASSUME MaxSize \in Nat \ {0} /\ MaxItems \in Nat

VARIABLES
  inner,       \* m_inner: the items in the ReaderWriterQueue
  enq_sema,    \* m_items_enqueued_sema count
  deq_sema,    \* m_items_dequeued_sema count
  count,       \* m_enqueues_count
  shutdown,    \* the shutdown event is signalled
  produced,    \* items the producer has put in m_inner
  ppc,         \* producer: "idle", "push", "count" or "signal"
  cpc,         \* consumer: "idle", "wait", "pop", "count" or "signal"
  cmode,       \* consumer is in "dequeue" or in the "clear" loop
  lastcb       \* the callback fired last: "none", "cant" or "can"

vars == <<inner, enq_sema, deq_sema, count, shutdown, produced, ppc,
          cpc, cmode, lastcb>>

\* create(): items_dequeued_sema one above max_size.
InitialDequeuedSemaOffByOne == MaxSize + 1

\* create(): Semaphore::create_shared(max_size) for items_dequeued_sema.
InitialDequeuedSema == MaxSize

Init ==
  /\ inner = <<>>
  /\ enq_sema = 0
  /\ deq_sema = InitialDequeuedSema
  /\ count = 0
  /\ shutdown = FALSE
  /\ produced = 0
  /\ ppc = "idle"
  /\ cpc = "idle"
  /\ cmode = "dequeue"
  /\ lastcb = "none"

(***************************************************************************)
(* WaitOrShutdown::wait: the shutdown event when it is signalled and not   *)
(* ignored, the semaphore when its count is positive (either may be        *)
(* reported when both are ready), a timeout when neither is.               *)
(***************************************************************************)
WaitOutcomes(sema, ignore) ==
  (IF shutdown /\ ~ignore THEN {"shutdown"} ELSE {})
  \cup (IF sema > 0 THEN {"success"} ELSE {})
  \cup (IF sema = 0 /\ (ignore \/ ~shutdown) THEN {"timeout"} ELSE {})

\* enqueue(result, timeout[, ignore_shutdown_event]): the wait on
\* items_dequeued_sema (or the semaphore alone when ignoring shutdown).
EnqueueWait ==
  /\ ppc = "idle"
  /\ produced < MaxItems
  /\ \E ign \in BOOLEAN : \E r \in WaitOutcomes(deq_sema, ign) :
       IF r = "success"
       THEN deq_sema' = deq_sema - 1 /\ ppc' = "push"
       ELSE UNCHANGED <<deq_sema, ppc>>
  /\ UNCHANGED <<inner, enq_sema, count, shutdown, produced, cpc, cmode, lastcb>>

\* m_inner.try_enqueue(result), asserted to succeed.
EnqueuePush ==
  /\ ppc = "push"
  /\ inner' = Append(inner, produced + 1)
  /\ produced' = produced + 1
  /\ ppc' = "count"
  /\ UNCHANGED <<enq_sema, deq_sema, count, shutdown, cpc, cmode, lastcb>>

\* The callback block without the m_enqueues_count++.
EnqueueCountMissingIncrement ==
  /\ ppc = "count"
  /\ lastcb' = IF count = MaxSize THEN "cant" ELSE lastcb
  /\ ppc' = "signal"
  /\ UNCHANGED <<inner, enq_sema, deq_sema, count, shutdown, produced, cpc, cmode>>

\* m_enqueues_count++, then m_cant_enqueue_callback when it reaches m_size.
EnqueueCount ==
  /\ ppc = "count"
  /\ count' = count + 1
  /\ lastcb' = IF count + 1 = MaxSize THEN "cant" ELSE lastcb
  /\ ppc' = "signal"
  /\ UNCHANGED <<inner, enq_sema, deq_sema, shutdown, produced, cpc, cmode>>

\* enqueue returning without signalling items_enqueued.
EnqueueSignalDropped ==
  /\ ppc = "signal"
  /\ ppc' = "idle"
  /\ UNCHANGED <<inner, enq_sema, deq_sema, count, shutdown, produced, cpc, cmode, lastcb>>

\* m_items_enqueued_sema_or_shutdown.signal()
EnqueueSignal ==
  /\ ppc = "signal"
  /\ enq_sema' = enq_sema + 1
  /\ ppc' = "idle"
  /\ UNCHANGED <<inner, deq_sema, count, shutdown, produced, cpc, cmode, lastcb>>

\* The consumer calls dequeue(timeout[, ignore_shutdown_event]) or clear().
ConsumerCall ==
  /\ cpc = "idle"
  /\ cmode' \in {"dequeue", "clear"}
  /\ cpc' = "wait"
  /\ UNCHANGED <<inner, enq_sema, deq_sema, count, shutdown, produced, ppc, lastcb>>

\* dequeue's wait on items_enqueued; clear() dequeues with timeout 0 and
\* ignore_shutdown_event, looping until the wait fails (a timeout ends it
\* with HAILO_SUCCESS).
DequeueWait ==
  /\ cpc = "wait"
  /\ \E ign \in (IF cmode = "clear" THEN {TRUE} ELSE BOOLEAN) :
     \E r \in WaitOutcomes(enq_sema, ign) :
       IF r = "success"
       THEN enq_sema' = enq_sema - 1 /\ cpc' = "pop"
       ELSE UNCHANGED enq_sema /\ cpc' = "idle"
  /\ UNCHANGED <<inner, deq_sema, count, shutdown, produced, ppc, cmode, lastcb>>

\* m_inner.try_dequeue(result), asserted to succeed.
DequeuePop ==
  /\ cpc = "pop"
  /\ inner' = Tail(inner)
  /\ cpc' = "count"
  /\ UNCHANGED <<enq_sema, deq_sema, count, shutdown, produced, ppc, cmode, lastcb>>

\* The callback block with m_enqueues_count-- taken before the m_size test.
DequeueCountDecrementFirst ==
  /\ cpc = "count"
  /\ lastcb' = IF count - 1 = MaxSize THEN "can" ELSE lastcb
  /\ count' = count - 1
  /\ cpc' = "signal"
  /\ UNCHANGED <<inner, enq_sema, deq_sema, shutdown, produced, ppc, cmode>>

\* m_can_enqueue_callback when m_enqueues_count is m_size, then m_enqueues_count--.
DequeueCount ==
  /\ cpc = "count"
  /\ lastcb' = IF count = MaxSize THEN "can" ELSE lastcb
  /\ count' = count - 1
  /\ cpc' = "signal"
  /\ UNCHANGED <<inner, enq_sema, deq_sema, shutdown, produced, ppc, cmode>>

\* m_items_dequeued_sema_or_shutdown.signal(); clear() goes round again.
DequeueSignal ==
  /\ cpc = "signal"
  /\ deq_sema' = deq_sema + 1
  /\ cpc' = IF cmode = "clear" THEN "wait" ELSE "idle"
  /\ UNCHANGED <<inner, enq_sema, count, shutdown, produced, ppc, cmode, lastcb>>

\* The pipeline signals the shutdown event (abort) and resets it (resume).
SignalShutdown ==
  /\ ~shutdown
  /\ shutdown' = TRUE
  /\ UNCHANGED <<inner, enq_sema, deq_sema, count, produced, ppc, cpc, cmode, lastcb>>

ResetShutdown ==
  /\ shutdown
  /\ shutdown' = FALSE
  /\ UNCHANGED <<inner, enq_sema, deq_sema, count, produced, ppc, cpc, cmode, lastcb>>

Producer == EnqueueWait \/ EnqueuePush \/ EnqueueCount \/ EnqueueSignal

Consumer == ConsumerCall \/ DequeueWait \/ DequeuePop \/ DequeueCount \/ DequeueSignal

Next == Producer \/ Consumer \/ SignalShutdown \/ ResetShutdown

\* Both threads keep running: the producer until it has enqueued every
\* item, the consumer for ever (a pipeline element's thread loop).
Fairness ==
  /\ WF_vars(EnqueuePush) /\ WF_vars(EnqueueCount) /\ WF_vars(EnqueueSignal)
  /\ WF_vars(Consumer)

Spec == Init /\ [][Next]_vars /\ Fairness

-----------------------------------------------------------------------------

TypeOK ==
  /\ inner \in Seq(1 .. MaxItems)
  /\ enq_sema \in Nat /\ deq_sema \in Nat /\ count \in Nat
  /\ ppc \in {"idle", "push", "count", "signal"}
  /\ cpc \in {"idle", "wait", "pop", "count", "signal"}
  /\ lastcb \in {"none", "cant", "can"}

\* The assert(success) after try_dequeue and after try_enqueue never fires:
\* a consumer past its semaphore wait finds an item, and a producer past
\* its wait finds room for one in the max_size the inner queue was built with.
InnerQueueOpsSucceed ==
  /\ cpc = "pop" => inner # <<>>
  /\ ppc = "push" => Len(inner) < MaxSize

\* The last callback fired was cant_enqueue exactly when m_enqueues_count
\* is at max_size: the two callbacks alternate with the queue filling up
\* and draining, though count is updated from both threads.
CallbacksTrackFullness == (lastcb = "cant") <=> (count = MaxSize)

\* An item the producer put in the queue is eventually taken out of it by
\* dequeue or clear(), unless the shutdown event is signalled meanwhile.
InQueue(i) == \E k \in 1 .. Len(inner) : inner[k] = i

ItemsLeaveQueue ==
  \A i \in 1 .. MaxItems : InQueue(i) ~> (~InQueue(i) \/ shutdown)
=============================================================================
