SPECIFICATION FairSpec
CONSTANTS
    Consumers = {c1, c2}
    Producers = {p1}
    Stoppers = {s1}
    MaxElems = 2
    NumItems = 3
    Timeouts = {TRUE, FALSE}
    SpuriousWakeups = TRUE
    NoThread = NoThread
    Pending = Pending
    Empty = Empty
INVARIANTS TypeOK NoneSleepsOnItem
PROPERTIES IsBlockingFifo LaterPopReturns TimedPopReturns
