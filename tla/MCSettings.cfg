SPECIFICATION Spec
CONSTANTS
    p1 = p1
    p2 = p2
    s1 = s1
    b1 = b1
    key1 = key1
    pw1 = pw1
    pw2 = pw2
    issuer1 = issuer1
    issuer2 = issuer2
    None = None
    Nobody = Nobody
    Body <- SomeBodies
    Defaults <- YAML
    Passwords <- TwoPasswords
    Keys <- OneKey
    Issuers <- TwoIssuers
    EnvPassword = None
    EnvIssuer = issuer1
    Puts <- TwoPuts
    Auths <- OneAuth
    Browsers <- OneBrowser
    MaxCrashes = 1
INVARIANTS
    MemoryMatchesStore
    PollerIsTold
    ProviderIsConfigured
PROPERTIES
    RegisterSpec
    PasswordStays
CHECK_DEADLOCK FALSE
