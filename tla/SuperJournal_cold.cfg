SPECIFICATION Spec
CONSTANTS
    Conns = {c1, c2}
    Dbs = {1, 2}
    MaxTxns = 2
    MaxRecs = 1
    Settings <- ColdJournals
INVARIANTS AllOrNothing
CHECK_DEADLOCK FALSE
