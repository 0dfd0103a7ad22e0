CONSTANTS
    Limits = {0, 1, 3}
    Periods = {1, 2}
    MaxTime = 5
    MaxStarts = 8
SPECIFICATION Spec
INVARIANT FullPeriodWait
INVARIANT CoolDownIsDead
PROPERTY ImplementsLimiter
