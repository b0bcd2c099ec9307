SPECIFICATION Spec
CONSTANTS
    m1 = m1
    m2 = m2
    Manual <- TwoManuals
    Cooldown = 2
    MaxLag = 1
    Polls <- AlwaysOn
    MaxClaims = 2
    MaxRequeues = 1
SYMMETRY Symmetry
INVARIANTS
    OneRequestAtATime
    ClaimKept
PROPERTY NeverAskedAgain
