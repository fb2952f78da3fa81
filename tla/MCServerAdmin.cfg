SPECIFICATION Spec
CONSTANTS
    hi = hi
    list = list
    say = say
    warn = warn
    kick = kick
    h1 = h1
    h2 = h2
    b = b
    Id = {hi, list, say, warn, kick}
    Operation <- MCOperation
    Slot = {slot}
    Conn = {h1, h2, b}
    Protected = {b}
    QueueCapacity = 1
    Remembered = 1
    MaxDispatches = 3
    MaxEpoch = 2
    None = none
SYMMETRY Players
CHECK_DEADLOCK FALSE
INVARIANTS
    AnswerIsTrue
    ActsOncePerId
    KickedAsListed
