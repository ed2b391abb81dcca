SPECIFICATION Spec
CONSTANTS
    A = A
    B = B
    C = C
    X = X
    Y = Y
    None = None
    Conns = {A, B, C}
    AllCaches = {X, Y}
    Tables = {"t", "u", "v"}
    Settings <- Sharing
INVARIANTS TypeOK BtreeIntegrity Isolation NoLostWakeUp NoWaitCycle
PROPERTIES PendingKeepsReadersOut WaiterIsNotified
CHECK_DEADLOCK FALSE
