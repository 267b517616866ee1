SPECIFICATION Spec
CONSTANTS
    Choices = {0, 1}
    Ornaments = 0
    Readings <- MCReadings
    MaxObjects = 4
INVARIANTS
    UnbuiltChoiceHasCause
    FilterFollowsMask
