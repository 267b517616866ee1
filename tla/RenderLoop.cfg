SPECIFICATION FairSpec
CONSTANTS
    MaxSurfaces = 2
    Filters = 1
    Size = {1}
INVARIANTS
    OneRenderer
    TextureLossNeedsOverlap
    LossNeedsInterrupt
    ForeignStaticsWereLate
    SelectionHolds
    SizeIsWhole
    NoThreadIsStuck
PROPERTIES
    InterruptedEnds
    ResizeIsTaken
