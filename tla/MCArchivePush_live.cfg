SPECIFICATION FairSpec
CONSTANTS
    r1 = r1  r2 = r2  a1 = a1  a2 = a2  w1 = w1  w2 = w2
    NoMax = NoMax  None = None  Fg = Fg  Global = Global
    NSeg = 1
    Repo = {r1}
    Async = {a1, a2}
    Worker = {w1}
    ArchiveAsync = {TRUE}
    QueueMax = NoMax
    MaxFault = 2
\* PostgreSQL generates NSeg segments and the system stops when all are done.
CHECK_DEADLOCK FALSE
PROPERTY EveryReadyIsAcked
