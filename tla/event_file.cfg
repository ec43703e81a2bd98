SPECIFICATION Spec
CONSTANTS
    NumFds = 3
    None = None
INVARIANT FdIsEventFile
