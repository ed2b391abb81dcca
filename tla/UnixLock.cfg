CONSTANTS
    A = A
    B = B
    C = C
    a1 = a1
    a2 = a2
    b1 = b1
    c1 = c1
    Procs = {A, B, C}
    Conns = {a1, a2, b1, c1}
    ProcOf <- ThreeProcesses
    Threaded = {}
SPECIFICATION FairSpec
INVARIANTS
    TypeOK
    LocksCompatible
    KernelBacksHandles
    ReservedProbeExact
    NothingLeaks
PROPERTIES
    ImplementsDbLock
    PendingBarsNewProcesses
    PendingWriterProceeds
CHECK_DEADLOCK FALSE
