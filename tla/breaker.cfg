\* Two addresses, of which one can be tracked; blocks of two ticks in a clock that goes on
\* for as long as the window of six.
SPECIFICATION BreakerSpec
SYMMETRY Symmetry
CONSTANTS
    IPs = {i1, i2}
    Threshold = 2
    Cooldown = 2
    MaxEntries = 1
    SaveGap = 0
    MaxTime = 7
    MaxStreak = 2
INVARIANTS BlockIsEarned FailuresBlock CleanMeansSaved
CHECK_DEADLOCK FALSE
