SPECIFICATION FleetFairSpec
CONSTANTS
    Port = {27016, 27017}
    Preset = {27016}
    OtherPort = 27018
    Pid = {1, 2}
    MaxClicks = 2
    MaxBirths = 2
    MaxLauncher = 1
    MaxMoved = 2
    Null = null
CHECK_DEADLOCK FALSE
INVARIANTS
    OneServerPerPort
    OwnershipIsTrue
PROPERTIES
    CardsTellTheTruth
