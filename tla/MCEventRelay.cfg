SPECIFICATION FairSpec
CONSTANTS
    u1 = u1
    u2 = u2
    e1 = e1
    e2 = e2
    e3 = e3
    e4 = e4
    r1 = r1
    r2 = r2
    r3 = r3
    User = {u1, u2}
    Event = {e1, e2, e3, e4}
    Parts <- MCParts
    Request = {r1, r2, r3}
    Remote <- MCRemote
    Local = {r1}
    Invalid = {r3}
    Rejected = {e3}
    QueueCapacity = 3
    ByteCapacity = 5
    FrameParts = 2
    Backlog = 2
    InboxCapacity = 2
    BatchSize = 2
    MaxDisturbances = 1
    None = none
CHECK_DEADLOCK FALSE
INVARIANTS
    RoomIsAccounted
    AllOrNothing
    InOrderOnce
    NothingLostWithoutCause
PROPERTIES
    EventuallyHandled
