SPECIFICATION Spec
CONSTANTS
    a = a
    b = b
    c = c
    e1 = e1
    e2 = e2
    Order = {a, b, c}
    Pool <- MCPool
    Target <- MCTarget
    Event = {e1, e2}
    Counts <- MCCounts
    Tx = {t1, t2}
    Caller = {game, transport}
    Limit = 2
    MaxActive = 1
    BonusTarget = 2
    PeriodDays = 2
    DayLength = 1
    Keep = 2
    MaxTime = 2
    MaxApplied = 2
    MaxRounds = 3
    None = none
SYMMETRY Symmetry
CHECK_DEADLOCK FALSE
INVARIANTS
    PaidOnce
    OffersWithinLimit
    ProgressWasEarned
    OncePerPeriod
    BonusMatchesClaims
PROPERTIES
    CarriedKept
