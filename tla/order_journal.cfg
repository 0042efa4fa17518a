SPECIFICATION MCSpec
CONSTANTS
    Ids = {t1}
    IoFaults = TRUE
    MaxEntries = 5
    MaxRestarts = 2
INVARIANTS
    JournalTypeOK
    ReadableInOrder
    FlushHeals
CHECK_DEADLOCK FALSE
