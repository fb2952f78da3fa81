SPECIFICATION HostedSpec
CONSTANTS
    MaxMatches = 4
    MaxQueries = 3
    Lacking = {3}
CHECK_DEADLOCK FALSE
INVARIANTS
    ShownIsPlayed
