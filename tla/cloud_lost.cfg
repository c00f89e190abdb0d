SPECIFICATION Spec
CONSTANTS
    a = a
    b = b
    font = font
    Devices = {a, b}
    PlatformKeys = {font}
    Steps = 2
PROPERTY NewerWins
CHECK_DEADLOCK FALSE
