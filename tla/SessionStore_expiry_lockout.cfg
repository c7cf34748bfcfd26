\* One request at a time, past the absolute timeout: can the user log in again.
CONSTANTS
    r1 = r1
    r2 = r2
    t1 = t1
    t2 = t2
    t3 = t3
    Requests <- MCOneRequest
    Tokens <- MCTokensTwoSizes
    CompLen <- MCCompLen
    MaxCookieSize = 2
    MaxChunks = 2
    Timeout = 2
    MaxTime = 4
    TokenSlots <- MCAccessOnly
SPECIFICATION Spec
INVARIANT ExpiryAllowsNewLogin
