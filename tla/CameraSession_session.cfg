SPECIFICATION Spec
CONSTANTS
    MaxOpens = 3
    Faults = FALSE
INVARIANT ClosedSessionIsIgnored
