SPECIFICATION FairSpec
CONSTANTS
    MaxSessions = 3
    MaxFrames = 3
    Faults = TRUE
INVARIANTS
    OneFrameInThePipeline
    FrameIntact
    DetectorOutlivesDetection
    DeletedDetectorWasOvertaken
    PausedIsQuiet
    NobodyIsStuck
PROPERTIES
    ImplementsSlot
    PauseEnds
    FrameLeaves
    DetectionGoesOn
