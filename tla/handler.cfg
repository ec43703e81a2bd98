SPECIFICATION FairSpec
CONSTANTS
    NumDesc = 2
    NumTags = 4
    DescBase = 16
    Faults = {"dma_slv_err", "no_bytes"}
    NrPkts = {2}
    Backends = {"axi", "xdma"}
    IoErrors = TRUE
INVARIANTS TypeOK NoMissedPacket
PROPERTIES EventuallyRead ErrorEndsThread StopsWhenQuiet IsReception
CHECK_DEADLOCK FALSE
