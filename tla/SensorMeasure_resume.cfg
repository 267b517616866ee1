SPECIFICATION Spec
CONSTANTS
    Instance = {i1, i2}
    Nobody = nobody
    MaxDelayed = 2
    MaxErrors = 1
    Faults = FALSE
INVARIANTS
    MeasuringIsListening
