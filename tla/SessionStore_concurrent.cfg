\* Two concurrent requests of one browser whose responses arrive in any
\* order; one inline access token; the clock runs past the absolute timeout.
CONSTANTS
    r1 = r1
    r2 = r2
    t1 = t1
    t2 = t2
    t3 = t3
    Requests <- MCRequests
    Tokens <- MCTokensInline
    CompLen <- MCCompLen
    MaxCookieSize = 2
    MaxChunks = 1
    Timeout = 1
    MaxTime = 2
    TokenSlots <- MCAccessOnly
SYMMETRY MCSymmetry
SPECIFICATION Spec
INVARIANT AbsoluteTimeout
