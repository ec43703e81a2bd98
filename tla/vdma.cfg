SPECIFICATION FairSpec
CONSTANTS
    Stores32 = {16}
    Stores64 = {2, 8}
    ReadsAs = "pattern"
    FrmBufs <- MCFrmBufs
    Formats <- MCFormats
    VErrors = {"vdma_int_err", "sof_early_err"}
CHECK_DEADLOCK FALSE
INVARIANTS TypeOK WritesOnlyFrameBuffers StopHalts HaltIsReported DetectExact
PROPERTY StopReturns
