SPECIFICATION HostedSpec
CONSTANTS
    MaxMatches = 3
    MaxQueries = 2
    Lacking = {}
CHECK_DEADLOCK FALSE
INVARIANTS
    AsksUntilNextSelection
