SPECIFICATION Spec
CONSTANTS
    NumDesc = 2
    NumTags = 4
    DescBase = 16
    Faults = {"no_sof", "no_bytes"}
    NrPkts = {2}
INVARIANT StreamInOrder
