SPECIFICATION FairSpec
CONSTANTS
    Consumers = {c1}
    Producers = {p1}
    Stoppers = {s1}
    MaxElems = 2
    NumItems = 3
    Timeouts = {FALSE}
    SpuriousWakeups = FALSE
    NoThread = NoThread
    Pending = Pending
    Empty = Empty
PROPERTIES AbortReleases
