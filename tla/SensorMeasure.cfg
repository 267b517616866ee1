SPECIFICATION Spec
CONSTANTS
    Instance = {i1, i2}
    Nobody = nobody
    MaxDelayed = 2
    MaxErrors = 2
    Faults = TRUE
INVARIANTS
    NoCameraForgotten
    BackgroundCameraWasLate
    DarkPreviewHasCause
    ListeningIsMeasuring
