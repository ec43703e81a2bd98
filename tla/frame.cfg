SPECIFICATION FFSpec
CONSTANTS
    Widths = {0, 1, 9, 65532, 65535}
    Heights = {0, 3}
    Bpps = {0, 1, 3, 5}
    WordWidths = {1, 4, 16}
INVARIANT LineLength
CHECK_DEADLOCK FALSE
