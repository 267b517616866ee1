SPECIFICATION Spec
CONSTANTS
    ViewWidth = 100
    ViewHeight = 147
    MarkerSize = 10
    SENSOR_WIDTH = 19
    SENSOR_HEIGHT = 14
    LongFocus = 50
    RATIO_4_3 = 0
    Taps <- MCTaps
INVARIANTS
    MarkerIsOnPoint
