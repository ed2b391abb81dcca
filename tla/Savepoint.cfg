SPECIFICATION Spec
CONSTANTS
    InitSize = 3
    InitFree = {3}
    MaxPage = 4
    MaxSavepoints = 2
    Settings <- Journals
INVARIANTS TypeOK PlaybacksEnd
PROPERTY ImplementsSavepointStack
CHECK_DEADLOCK FALSE
