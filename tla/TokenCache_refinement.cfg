CONSTANTS
    r1 = r1
    r2 = r2
    tk1 = tk1
    tk2 = tk2
    cl1 = cl1
    cl2 = cl2
    Requests <- MCRequests
    Tokens <- MCOneToken
    Claims <- MCClaims
    TTLs <- MCTTLs
    MaxTime = 3
    MaxRevocations = 1
SPECIFICATION Spec
PROPERTY ClaimsCacheRefined
