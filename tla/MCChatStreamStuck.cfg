SPECIFICATION StuckSpec
CONSTANTS
    Capacity = 2
    MaxEvents = 4
PROPERTIES
    DisconnectCutsOff
CHECK_DEADLOCK FALSE
