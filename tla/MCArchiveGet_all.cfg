SPECIFICATION Spec
CONSTANTS
    r1 = r1  r2 = r2  a1 = a1  a2 = a2  w1 = w1  w2 = w2
    NoFile = NoFile  None = None  Fg = Fg  Global = Global
    NSeg = 3
    QueueTotal = 2
    Repo = {r1}
    Async = {a1, a2}
    Worker = {w1}
    ArchiveAsync = {TRUE}
    MissingRetry = FALSE
    FirstArchived = 2
    MaxArchived = 2
    MaxDown = 1
    MaxKill = 1
\* The system stops when PostgreSQL has all the segments it asks for.
CHECK_DEADLOCK FALSE
SYMMETRY Symmetry
INVARIANT TypeOK
PROPERTIES MissingIsMissing ErrorIsFresh
