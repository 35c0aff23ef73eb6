SPECIFICATION FairSpec
CONSTANTS
    p1 = p1
    p2 = p2
    Pids <- MCPids
    Root = p1
    Null = Null
    NoCall = NoCall
    Calls <- MCCalls
    Ignored <- MCIgnored
    Relative <- MCRelative
    Static <- MCStatic
    Absent <- MCAbsent
    Tracers <- MCTracers
    WordSizes <- MCWordSizes
    MaxSignals = 1
INVARIANT TypeOK
INVARIANT SegmentAttached
INVARIANT RecordedOnce
INVARIANT AbortOnlyOnFailure
PROPERTY ServiceSpec
PROPERTY CallPerformed
