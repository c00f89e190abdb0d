SPECIFICATION FairSpec
CONSTANTS
    a = a
    b = b
    font = font
    Devices = {a, b}
    PlatformKeys = {font}
    Steps = 2
INVARIANTS TypeOK HideIsWhole
PROPERTIES PrefsArePushed Quiesces
CHECK_DEADLOCK FALSE
