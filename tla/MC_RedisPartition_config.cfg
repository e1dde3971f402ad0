\* Six hosts given with four partitions: inner_init accepts it (groups = 1).
CONSTANTS
    k1 = k1
    k2 = k2
    w = w
    r = r
    v1 = v1
    v2 = v2
    Nil = Nil
    Unknown = Unknown
    NumHosts = 6
    Partitions = 4
    Keys = {k1, k2}
    Values = {v1, v2}
    Threads = {w, r}
    Writer = w
    MaxFailures = 0
    MaxCount = 1
    Hash <- MCHash
    Seed <- MCSeed
SPECIFICATION Spec
INVARIANT HostsFollowSpec
