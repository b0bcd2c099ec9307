SPECIFICATION Spec
CONSTANTS
    m1 = m1
    m2 = m2
    Manual <- OneManual
    Cooldown = 2
    MaxLag = 1
    Polls <- AlwaysOn
    MaxClaims = 2
    MaxRequeues = 1
PROPERTY SkippedFromNone
