CONSTANTS
    W4 = 2
    W6 = 5
    MappedTop <- MCMappedTop
    Databases <- MCDatabases
    Countries = {"X"}
    MaxLoads = 2
    Reqs = {r1}
    Headers <- MCHeaders
    Blank = Blank
    Junk = Junk
    Unparseable = Unparseable
    NoTrie = NoTrie
    StartupMode = "fail-open"
    None = None
SPECIFICATION Spec
INVARIANTS TypeOK LenExact
PROPERTIES Answers PublishedFrozen
CHECK_DEADLOCK FALSE
