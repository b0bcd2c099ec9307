SPECIFICATION FairSpec
CONSTANTS
    m1 = m1
    m2 = m2
    Manual <- OneManual
    Cooldown = 1
    MaxLag = 1
    Polls <- OnAndOff
    MaxClaims = 1
    MaxRequeues = 1
INVARIANTS
    OutcomeIsLatest
    IInv
PROPERTY ImportSettles
