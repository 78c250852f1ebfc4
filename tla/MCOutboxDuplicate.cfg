SPECIFICATION Spec
CONSTANTS
    d1 = d1
    d2 = d2
    Events = {1}
    Drainers = {d1, d2}
    Guard <- MCOneGuard
    Failing <- MCOneNever
    MaxAttempts = 3
    Limit = 1
    EffectCap = 2
    MaxCrashes = 0
    MaxReplays = 0
INVARIANT GuardedEffectOnce
CHECK_DEADLOCK FALSE
