SPECIFICATION Spec
CONSTANTS
    A = A
    B = B
    Conns = {A, B}
    InitSize = 2
    Settings <- Running
INVARIANTS
    TypeOK
    LocksFitStates
    SyncedCommitIsFinal
PROPERTIES
    FilesChangeInOneHand
    ImageChangesByCommit
    ImplementsAtomicDb
