SPECIFICATION WorkingSpec
CONSTANTS
    d1 = d1
    d2 = d2
    Events = {1, 2}
    Drainers = {d1, d2}
    Guard <- MCTwoGuards
    Failing <- MCHeadFails
    MaxAttempts = 3
    Limit = 2
    EffectCap = 2
    MaxCrashes = 1
    MaxReplays = 1
INVARIANTS TypeOK ProcessedTookEffect RetriesMatchStatus UniqueEffectOnce
PROPERTY EventuallySettled
CHECK_DEADLOCK FALSE
