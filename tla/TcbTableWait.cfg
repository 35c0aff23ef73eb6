SPECIFICATION FairSpec
CONSTANTS
    Root = root
    Pids = {root, a, b}
    NoPid = NoPid
    Null = Null
    AnyPid = AnyPid
    FirstSize = 1
    Kinds = {"fork", "parent"}
    Strangers = FALSE
    Signals = FALSE
INVARIANT TraceOutlivesAll
PROPERTY HeldReleased
