SPECIFICATION Spec
CONSTANTS
    Root = root
    Pids = {root, a, b, c}
    NoPid = NoPid
    Null = Null
    AnyPid = AnyPid
    FirstSize = 1
    Kinds = {"fork"}
    Strangers = FALSE
    Signals = FALSE
CHECK_DEADLOCK FALSE
PROPERTY NewbornWaits
