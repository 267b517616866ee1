SPECIFICATION FairSpec
CONSTANTS
    MaxOpens = 3
    Faults = TRUE
INVARIANTS
    PermitAccounting
    OpenCloseExclusive
    CloseWaitsForCallback
    OpenNeverWaits
    OneAttachedDevice
    DeadLooperIsQuiet
    FieldIsNotClosed
    PauseIsNeverStuck
PROPERTIES
    ReaderIsClosedFirst
    PauseCompletes
