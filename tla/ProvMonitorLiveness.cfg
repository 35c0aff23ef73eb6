CONSTANTS
    root = root
    a = a
    NoPid = NoPid
    Root = root
    Pids = {root, a}
    PVLen = 3
    MaxExecs = 3
SPECIFICATION FairSpec
PROPERTY DeadReported
PROPERTY HandlerReturns
