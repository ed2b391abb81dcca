CONSTANTS
    A = A
    B = B
    C = C
    a1 = a1
    a2 = a2
    b1 = b1
    c1 = c1
    Procs = {A, B}
    Conns = {a1, a2, b1}
    ProcOf <- TwoProcesses
    Threaded = {A}
SPECIFICATION Spec
INVARIANTS
    KernelBacksHandles
CHECK_DEADLOCK FALSE
