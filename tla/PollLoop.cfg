CONSTANTS
    Second <- SecondTicks
    QuotaPause <- QuotaTicks
    MaxRetryAfter <- RetryTicks
    MaxTransientBackoff <- BackoffTicks
    MaxShift = 3
    Width = 8
    Attempts = 3
    Intervals = {0, 7, 40}
    Seconds = {0, 1, 5, 20}
    Dates = {3, 33}
SPECIFICATION FairSpec
INVARIANT LoopSound
PROPERTIES WaitsHonoured LoopLives
CHECK_DEADLOCK FALSE
