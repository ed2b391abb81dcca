SPECIFICATION Spec
CONSTANTS
    A = A
    B = B
    C = C
    Conns = {A, B, C}
    WAL_NREADER = 2
    InitSize = 1
    MaxPage = 2
    MaxSalts = 2
    Settings <- Running
INVARIANTS
    TypeOK
    ReadersKeepTheirPages
    RecoveryFindsTheLog
    BackfillWithinLog
PROPERTIES
    ImplementsSnapshotDb
