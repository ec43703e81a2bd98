SPECIFICATION FairSpec
CONSTANTS
    Readers = {r1}
    Io = io
    Owner = owner
    MaxElems = 2
    NumItems = 3
    Timeouts = {TRUE, FALSE}
    SpuriousWakeups = TRUE
    NoThread = NoThread
    Pending = Pending
    Empty = Empty
    MaxPending = 1
INVARIANTS TypeOK NothingDropped
PROPERTIES DestructorReturns QueueIsRead CallsReturn StopLeavesNobody IsReception
CHECK_DEADLOCK FALSE
