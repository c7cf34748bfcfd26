\* One request at a time, access and refresh tokens of 1 or 2 chunks.
CONSTANTS
    r1 = r1
    r2 = r2
    t1 = t1
    t2 = t2
    t3 = t3
    Requests <- MCOneRequest
    Tokens <- MCTokensTwoSizes
    CompLen <- MCCompLen
    MaxCookieSize = 2
    MaxChunks = 2
    Timeout = 2
    MaxTime = 1
    TokenSlots <- MCBothSlots
SPECIFICATION Spec
INVARIANT TypeOK
PROPERTY StoredTokenReadable
