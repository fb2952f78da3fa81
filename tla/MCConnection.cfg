SPECIFICATION ConnectionSpec
CONSTANTS
    A = A
    B = B
    s1 = s1
    s2 = s2
    Server = {A, B}
    Session = {s1, s2}
    HostOf <- MCHostOf
    MaxAttempts = 2
    Nobody = none
CHECK_DEADLOCK FALSE
PROPERTIES
    ConnectsWhereAsked
    ConnectsOncePerAttempt
