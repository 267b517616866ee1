SPECIFICATION Spec
CONSTANTS
    MaxInstances = 2
    MaxOpens = 3
    CameraLists <- MCCameraLists
    Faults = TRUE
INVARIANTS
    NoSelfWait
    NoIdHasCause
    LeftDetectorHasCause
