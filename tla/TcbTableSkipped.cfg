SPECIFICATION Spec
CONSTANTS
    Root = root
    Pids = {root, a, b}
    NoPid = NoPid
    Null = Null
    AnyPid = AnyPid
    FirstSize = 1
    Kinds = {"fork"}
    Strangers = FALSE
    Signals = TRUE
CHECK_DEADLOCK FALSE
INVARIANT SkippedIsRepeat
