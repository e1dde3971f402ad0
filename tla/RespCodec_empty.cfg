CONSTANTS
    EmptyBulks = TRUE
    MaxReplies = 1
    MaxRequests = 1
    BufLen = 64
    Apis = {}
SPECIFICATION Spec
INVARIANT
    ParseTotality
