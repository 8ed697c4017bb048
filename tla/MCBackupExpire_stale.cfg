SPECIFICATION Spec
CONSTANTS
    MaxTime = 5
    MaxSeg = 5
    MaxPend = 1
    MaxPg = 1
    MaxFault = 2
    MaxShift = 0
    Busy = {"idle", "stop", "check"}
    YearSize = 10
    PathSize = 2
    Config <- ThreeFull
    Options <- FullOnly
\* The clock and the WAL are bounded, and everything stops at the bounds.
CHECK_DEADLOCK FALSE
INVARIANT Consistent
