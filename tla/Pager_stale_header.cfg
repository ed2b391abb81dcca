SPECIFICATION Spec
CONSTANTS
    A = A
    B = B
    Conns = {A}
    InitSize = 3
    Settings <- Undisturbed
INVARIANTS
    RollbackRestores
