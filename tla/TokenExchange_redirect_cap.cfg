CONSTANTS
    c1 = c1
    c2 = c2
    Callers <- MCOneCaller
    RedirectCap = 2
    EnablePKCE = TRUE
    Rotation = TRUE
    MaxTokens = 3
SPECIFICATION Spec
INVARIANT RedirectCapAsSpecified
