CONSTANTS
    p1 = p1
    p2 = p2
    p3 = p3
    p4 = p4
    Pids = {p1, p2, p3, p4}
    Root = p1
    Null = Null
    sh = sh
    script = script
    static = static
    plugin = plugin
    tracer = tracer
    a = a
    b = b
    Dirs = {a, b}
    Fds <- MCFds
    Modes <- MCModes
    Programs <- MCPrograms
    KindOf <- MCKindOf
    ExeOf <- MCExeOf
SPECIFICATION Spec
INVARIANT TypeOK
 
INVARIANT DirCurrent
INVARIANT IgnoresCurrent
INVARIANT ExeCurrent
INVARIANT CloseNamesOpen
SYMMETRY Symmetry
