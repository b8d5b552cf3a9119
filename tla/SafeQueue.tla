------------------------------ MODULE SafeQueue ------------------------------
(***************************************************************************)
(* SafeQueueMaxSize<T> of thread_safe_queue.hpp: a std::queue behind one   *)
(* std::mutex, with the condition variable m_queue_not_empty inherited    *)
(* from SafeQueue<T> and its own m_queue_not_full, shared by any number of *)
(* producer threads calling push() and consumer threads calling pop().    *)
(*                                                                         *)
(* Each call holds the mutex from its start to its return or to a wait, so *)
(* a call's locked section is one step; the steps of other threads come    *)
(* between the sections only at the waits.  wait(lock, pred) is the loop   *)
(* while (!pred()) wait(lock): a waiting thread leaves the wait set when   *)
(* notified or spuriously, and then re-takes the mutex and re-tests pred   *)
(* in a later step, in which it competes with threads that never waited.  *)
(* No property tells the queued values apart, so the queue is its size.   *)
(* A producer makes ItemsPerProducer calls and a consumer PopsPerConsumer, *)
(* after which its thread is "done".                                       *)
(***************************************************************************)
EXTENDS Integers, FiniteSets

CONSTANTS Producers, Consumers, MaxSize, ItemsPerProducer, PopsPerConsumer

VARIABLES size,    \* m_queue.size()
          pc,      \* per thread: "idle" | "waiting" | "woken" | "done"
          calls    \* per thread: the push or pop calls it has returned from

vars == <<size, pc, calls>>

Threads == Producers \cup Consumers

\* Threads in a condition variable's wait set.
Waiting(S) == {t \in S : pc[t] = "waiting"}

\* The state a thread reaches when one of its calls returns.
Returned(t) ==
  IF calls[t] + 1 = (IF t \in Producers THEN ItemsPerProducer ELSE PopsPerConsumer)
  THEN "done" ELSE "idle"

\* t's locked section ends in state s, and notify_one() on a condition
\* variable whose wait set is W moves one waiter, if any, out of it.
NotifyOne(t, s, W) ==
  IF W = {} THEN pc' = [pc EXCEPT ![t] = s]
  ELSE \E w \in W : pc' = [pc EXCEPT ![t] = s, ![w] = "woken"]

\* A wait that goes on as soon as the thread is woken, the predicate
\* tested only on the call's first pass.
WaitPredicateOnce(t, pred) == pc[t] = "woken" \/ pred

\* wait(lock, pred) lets a thread, newly called or back from the wait set
\* with the mutex, past the wait exactly when pred holds.
WaitPredicate(t, pred) == pred

\* pop()'s test for notifying m_queue_not_full, off by one.
NotifyNotFullOffByOne(s) == s < MaxSize - 1

\* pop() notifies m_queue_not_full when the queue is below m_max_size.
NotifyNotFull(s) == s < MaxSize

\* A thread that may take the mutex: a new call, or a woken waiter.
Runs(t, n) == \/ pc[t] = "woken"
              \/ pc[t] = "idle" /\ calls[t] < n

\* push(t): wait until the queue is below m_max_size, push, and
\* notify_one() on m_queue_not_empty; or go into m_queue_not_full's wait.
Push(t) ==
  /\ Runs(t, ItemsPerProducer)
  /\ IF WaitPredicate(t, size < MaxSize)
     THEN /\ size' = size + 1
          /\ calls' = [calls EXCEPT ![t] = @ + 1]
          /\ NotifyOne(t, Returned(t), Waiting(Consumers))
     ELSE /\ pc' = [pc EXCEPT ![t] = "waiting"]
          /\ UNCHANGED <<size, calls>>

\* pop(): wait until the queue is not empty, take the front, and
\* notify_one() on m_queue_not_full if the queue is below m_max_size; or go
\* into m_queue_not_empty's wait.
Pop(t) ==
  /\ Runs(t, PopsPerConsumer)
  /\ IF WaitPredicate(t, size > 0)
     THEN /\ size' = size - 1
          /\ calls' = [calls EXCEPT ![t] = @ + 1]
          /\ IF NotifyNotFull(size - 1)
             THEN NotifyOne(t, Returned(t), Waiting(Producers))
             ELSE pc' = [pc EXCEPT ![t] = Returned(t)]
     ELSE /\ pc' = [pc EXCEPT ![t] = "waiting"]
          /\ UNCHANGED <<size, calls>>

\* A std::condition_variable may wake a waiter with no notify.
SpuriousWakeup(t) ==
  /\ pc[t] = "waiting"
  /\ pc' = [pc EXCEPT ![t] = "woken"]
  /\ UNCHANGED <<size, calls>>

Init ==
  /\ size = 0
  /\ pc = [t \in Threads |-> "idle"]
  /\ calls = [t \in Threads |-> 0]

Next ==
  \/ \E t \in Producers : Push(t)
  \/ \E t \in Consumers : Pop(t)
  \/ \E t \in Threads : SpuriousWakeup(t)

Spec == Init /\ [][Next]_vars

TypeOK ==
  /\ size \in Int
  /\ pc \in [Threads -> {"idle", "waiting", "woken", "done"}]
  /\ calls \in [Threads -> Nat]

-----------------------------------------------------------------------------
\* The queue never holds more than m_max_size items, nor takes an item from
\* an empty queue: a woken producer or consumer re-tests the predicate of
\* its wait after re-taking the mutex, which a thread that never waited may
\* have taken first and changed the queue under it.
WithinMaxSize == size \in 0 .. MaxSize

\* With as many pops called as pushes, no thread waits for ever: there is
\* never a state in which every thread is done or in a wait set and one is
\* waiting, so each push that fills the queue and each pop that empties it
\* leaves a notify for a waiter of the other side.
NoThreadWaitsForever ==
  ~ /\ \A t \in Threads : pc[t] \in {"done", "waiting"}
    /\ \E t \in Threads : pc[t] = "waiting"
=============================================================================
