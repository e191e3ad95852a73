SPECIFICATION QueueSpec
CONSTANTS
    Producers = {p1, p2, p3}
    Batches <- MCBatches
    MaxFrames = 5
INVARIANTS QueueTypeOK
PROPERTIES ImplementsFifo EveryFrameLeaves CloseEndsWriter
CHECK_DEADLOCK FALSE
