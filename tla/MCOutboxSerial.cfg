SPECIFICATION FairSpec
CONSTANTS
    d1 = d1
    d2 = d2
    Events = {1, 2, 3}
    Drainers = {d1}
    Guard <- MCGuards
    Failing <- MCGoodLast
    MaxAttempts = 3
    Limit = 2
    EffectCap = 2
    MaxCrashes = 2
    MaxReplays = 1
INVARIANTS GuardedEffectOnce
PROPERTIES  GoodEventsDelivered
CHECK_DEADLOCK FALSE
