\* The same with a lock worker that may panic.
SPECIFICATION FairSpec
CONSTANTS
    Workers = {w1, w2}
    NoWorker = NoWorker
    CanPanic = {"lock"}
    w1 = w1
    w2 = w2
PROPERTIES CancelLeavesProgress
CHECK_DEADLOCK FALSE
