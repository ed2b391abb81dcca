SPECIFICATION Spec
CONSTANTS
    A = A
    B = B
    C = C
    X = X
    Y = Y
    None = None
    Conns = {A, B, C}
    AllCaches = {X, Y}
    Tables = {"t", "u", "v"}
    Settings <- WithBackup
INVARIANT ToldWhenConcluded
