SPECIFICATION Spec
CONSTANTS
    MaxTime = 4
    MaxSeg = 4
    MaxPend = 1
    MaxPg = 2
    MaxFault = 1
    MaxShift = 1
    Busy = {"idle", "stop", "check"}
    YearSize = 10
    PathSize = 2
    Config <- Configs
    Options <- Every
\* The clock and the WAL are bounded, and everything stops at the bounds.
CHECK_DEADLOCK FALSE
INVARIANTS TypeOK Restorable Consistent
PROPERTIES RetentionKept LastFullKept PitrKept
