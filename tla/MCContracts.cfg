SPECIFICATION FairSpec
CONSTANTS
    c1 = c1
    c2 = c2
    Contract = {c1, c2}
    OnBoard <- MCOnBoard
    Price <- MCPrice
    Target <- MCTarget
    UsageTarget <- MCUsageTarget
    Tx = {t1, t2}
    MaxActive = 1
    Credits = 2
    SecondTicks = 2
    DayTicks = 4
    MaxTime = 5
    MaxActivations = 2
    None = none
CHECK_DEADLOCK FALSE
INVARIANTS
    TokensAreConserved
    TokensAreUsable
    ChargedOnlyPlayTime
PROPERTIES
    SampledTimeKept
    DueIsCharged
