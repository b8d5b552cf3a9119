SPECIFICATION Spec
INVARIANTS TypeOK HeldBuffersDisjoint CopyToReadsWindow CopyFromWritesWindow EachBufferOnce
PROPERTIES ImplementsStreamBufferPool
