SPECIFICATION Spec
CONSTANTS
    Root = root
    Pids = {root, a, b, c}
    NoPid = NoPid
    Null = Null
    AnyPid = AnyPid
    FirstSize = 1
    Kinds = {"fork", "vfork", "thread"}
    Strangers = TRUE
    Signals = TRUE
SYMMETRY Created
CHECK_DEADLOCK FALSE
INVARIANT TypeOK
INVARIANT CountExact
INVARIANT PidsUnique
INVARIANT ThreadsHaveLeader
INVARIANT ThreadCount
INVARIANT WaitCount
INVARIANT Emptied
