SPECIFICATION Spec
CONSTANTS
    Links = {"axi", "xdma", "x7"}
    Devices = {"a", "b"}
    Numbers = {0, 1}
    Maps <- MCMaps
    Indices = {0, 1}
    MaxLost = 1
    Threads = {t1, t2}
    Registers <- MCRegisters
    MaxWords = 5
    MockWords = 3
    Values = {1}
INVARIANTS TypeOK ReadIsWhole StaysInRegister BuildIsWhole
\* A failed assertion ends the process.
CHECK_DEADLOCK FALSE
