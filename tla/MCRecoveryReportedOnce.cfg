SPECIFICATION Spec
CONSTANTS
    Reqs = {r1, r2}
    Heartbeat = hb
    blockedAddr = a1
    otherAddr = a2
    Addrs <- MCAddrs
    Unparseable = junk
    NoTrie = nil
    Tries <- MCTries
    StartupMode = "fail-open"
    None = none
    MaxSwaps = 1
INVARIANT RecoveryReportedOnce
