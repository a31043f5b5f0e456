SPECIFICATION FairSpec
CONSTANTS
    Reqs = {r1}
    Heartbeat = hb
    blockedAddr = a1
    otherAddr = a2
    Addrs <- MCAddrs
    Unparseable = junk
    NoTrie = nil
    Tries <- MCTries
    StartupMode = "fail-closed"
    None = none
    MaxSwaps = 3
PROPERTIES Answers TrackerConverges HeartbeatRecurs EveryRequestAnswered
