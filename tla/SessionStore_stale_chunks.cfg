\* One request at a time, tokens of 1, 2 or 3 chunks: what a later request reads.
CONSTANTS
    r1 = r1
    r2 = r2
    t1 = t1
    t2 = t2
    t3 = t3
    Requests <- MCOneRequest
    Tokens <- MCTokensThreeSizes
    CompLen <- MCCompLen
    MaxCookieSize = 2
    MaxChunks = 3
    Timeout = 2
    MaxTime = 2
    TokenSlots <- MCAccessOnly
SPECIFICATION Spec
INVARIANT TokenRoundTrip
