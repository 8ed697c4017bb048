SPECIFICATION Spec
CONSTANTS
    p1 = p1  p2 = p2  p3 = p3  r1 = r1  f1 = f1  f2 = f2  f3 = f3
    i1 = i1  i2 = i2  i3 = i3  i4 = i4  i5 = i5  x1 = x1  x2 = x2  x3 = x3
    None = None
    Proc = {p1, p2, p3}
    Async = {p2}
    Reader = {r1}
    Stop = {r1}
    File = {f1, f2, f3}
    Inode = {i1, i2, i3, i4}
    ExecId = {x1, x2, x3}
    Exec <- PairExec
    LockList <- PairList
\* Every process runs one command and the system stops when all have ended.
CHECK_DEADLOCK FALSE
INVARIANTS TypeOK MutualExclusion NoResidue FlockOwned
