SPECIFICATION Spec
CONSTANTS
    p1 = p1
    p2 = p2
    t1 = t1
    t2 = t2
    t3 = t3
    k1 = k1
    k2 = k2
    k3 = k3
    Proc = {p1, p2}
    Thread = {t1, t2, t3}
    Home <- MCHome
    Key = {k1, k2, k3}
    Marker = marker
    None = none
    MaxRevision = 3
    MaxReceipts = 3
SYMMETRY Symmetry
CHECK_DEADLOCK TRUE
INVARIANTS
    ReadsOwnWork
    AckedIsDurable
PROPERTIES
    ReadsNeverGoBack
    ImplementsLedger
