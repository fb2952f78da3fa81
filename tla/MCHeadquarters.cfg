SPECIFICATION FairSpec
CONSTANTS
    item = item
    uniform = uniform
    drop = drop
    card = card
    prize = prize
    letter = letter
    Row = {item, uniform, drop, card, prize}
    Sold = {item, drop}
    Stackable = {drop, card}
    Drop = {drop}
    Rolls <- MCRolls
    Uniform = {uniform}
    Prize = {prize}
    Credit <- MCCredit
    Price <- MCPrice
    Mail = {letter}
    MailCredits <- MCMailCredits
    MailItems <- MCMailItems
    Salary = 2
    Period = 2
    StartCredits = 2
    StartCopies <- MCStartCopies
    MaxAsked = 3
    MaxTime = 3
    MaxFaults = 1
    None = none
CHECK_DEADLOCK FALSE
INVARIANTS
    WealthIsAccounted
PROPERTIES
    PutOfCurrentChangesNothing
    GameCatchesUp
