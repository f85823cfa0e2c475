\* A second connection after the first is lost.
CONSTANTS
    None = None
    MaxConns = 2
    MaxUnasked = 0
    MaxCuts = 0
    SockBuf = 1
SPECIFICATION Spec
INVARIANTS HelloFirst
CHECK_DEADLOCK FALSE
