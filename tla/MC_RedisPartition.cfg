\* Four hosts as two partitions of two groups.
CONSTANTS
    k1 = k1
    k2 = k2
    w = w
    r = r
    v1 = v1
    v2 = v2
    Nil = Nil
    Unknown = Unknown
    NumHosts = 4
    Partitions = 2
    Keys = {k1, k2}
    Values = {v1}
    Threads = {w, r}
    Writer = w
    MaxFailures = 1
    MaxCount = 1
    Hash <- MCHash
    Seed <- MCSeed
SPECIFICATION Spec
INVARIANTS TypeOK ReadSeesLastWrite
