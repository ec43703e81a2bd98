SPECIFICATION Spec
CONSTANTS
    Kinds = {"udmabuf", "axi", "xdma"}
    Addr = 4096
    Size = 268435456
    Offs = 256
    Nums = {1, 3}
    Sizes = {64, 67108863, 67108864}
    MaxBlocks = 7
INVARIANTS ReadsReceived BuffersApart
