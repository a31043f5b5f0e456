SPECIFICATION Spec
CONSTANTS
    DaysPerMonth = 2
    MaxAge = 1
    MaxDay = 3
    MaxPublished = 2
    MaxFaults = 1
    MaxCrashes = 1
    NoFile = nofile
PROPERTY DownloadServed
