CONSTANTS
    root = root
    a = a
    b = b
    NoPid = NoPid
    Root = root
    Pids = {root, a, b}
    PVLen = 3
    MaxExecs = 3
SPECIFICATION Spec
INVARIANT TypeOK
INVARIANT PidlistExact
INVARIANT LiveProcessesListed
PROPERTY ExitIsLast
PROPERTY SampleAfterExecve
SYMMETRY Spawned
