CONSTANTS
    Documents <- MCDocuments
    Omitted = Omitted
    Unreadable = Unreadable
    Malformed = Malformed
    CountryCodes = {"CN", "RU"}
    CronSpecs = {"@hourly", "0 3 * * *"}
    MaxCacheAge = 2
    NoFile = NoFile
    NoTrie = NoTrie
    NoConfig = NoConfig
SPECIFICATION Spec
INVARIANT AcceptedConfigRuns
CHECK_DEADLOCK FALSE
