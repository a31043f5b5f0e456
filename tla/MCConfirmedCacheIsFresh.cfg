SPECIFICATION ConfirmedSpec
CONSTANTS
    DaysPerMonth = 2
    MaxAge = 1
    MaxDay = 3
    MaxPublished = 2
    MaxFaults = 0
    MaxCrashes = 1
    NoFile = nofile
INVARIANT ConfirmedCacheIsFresh
