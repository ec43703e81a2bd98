SPECIFICATION Spec
CONSTANTS
    NumDesc = 3
    NumTags = 5
    DescBase = 16
    Faults = {"no_sof"}
    NrPkts = {3}
INVARIANTS PacketsWhole
