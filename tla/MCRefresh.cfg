SPECIFICATION FairSpec
CONSTANTS
    DaysPerMonth = 2
    MaxAge = 1
    MaxDay = 2
    MaxPublished = 3
    MaxFaults = 1
    MaxCrashes = 1
    NoFile = nofile
INVARIANTS TypeOK ValidatorsNameActive CacheWhole
PROPERTIES RegressesOnlyWhenMissing Supplies Converges
