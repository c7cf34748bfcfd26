CONSTANTS
    c1 = c1
    c2 = c2
    Callers <- MCCallers
    RedirectCap = 2
    EnablePKCE = TRUE
    Rotation = TRUE
    MaxTokens = 3
SPECIFICATION Spec
PROPERTY RefreshTokenAccepted
