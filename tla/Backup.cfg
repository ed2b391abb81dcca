CONSTANTS
    A = A
    B = B
    Backups = {A, B}
    MaxPage = 3
    Settings <- Sources
SPECIFICATION FairSpec
INVARIANTS TypeOK CopiedPagesAreCurrent
PROPERTIES BackupIsASnapshot BackupEnds
