\* SpscQueue with two slots and four items; SafeQueueMaxSize with one slot,
\* two producers and two consumers (the bounds are in MC_ThreadSafeQueues).
CONSTANTS
  p1 = p1
  p2 = p2
  c1 = c1
  c2 = c2
SPECIFICATION Spec
INVARIANTS QueuesTypeOK InnerQueueOpsSucceed CallbacksTrackFullness SafeQueueWithinMaxSize SafeQueueNoThreadWaitsForever
PROPERTIES ItemsLeaveQueue
