\* A whole session; a verification worker may panic.  The process ends with the loop.
SPECIFICATION FairSpec
CONSTANTS
    Workers = {w1, w2}
    NoWorker = NoWorker
    CanPanic = {"verify"}
    w1 = w1
    w2 = w2
INVARIANTS TypeOK PromptIsLive NoDetachedWorker StatusIsTrue MeasuresAlone
PROPERTIES PollKeepsModal CancelLeavesProgress StaysResponsive
CHECK_DEADLOCK FALSE
