SPECIFICATION FairSpec
CONSTANTS
    scripts = scripts
    fonts = fonts
    Instance = {i1, i2}
    Data = {scripts, fonts}
    Content <- MCContent
    MaxRelease = 3
    MaxStarts = 4
    Abandoned = abandoned
    None = none
CHECK_DEADLOCK FALSE
INVARIANTS
    InstallationHolds
PROPERTIES
    PlaysWhatIsInstalled
    StartsGoOn
