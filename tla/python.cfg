SPECIFICATION FairSpec
CONSTANTS
    NumDesc = 3
    NumTags = 5
    DescBase = 16
    Faults = {"dma_slv_err"}
    NrPkts = {1, 3}
INVARIANTS TypeOK RingOK NoTornRead WriteBackFresh PacketsWhole
PROPERTIES IsBufferFifo StaleOnlyWhenFull EventuallyRead
