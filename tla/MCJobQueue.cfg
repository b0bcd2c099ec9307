SPECIFICATION FairSpec
CONSTANTS
    a1 = a1
    a2 = a2
    Albums <- TwoAlbums
    Unrecoverable <- OneAlbum
    MaxAttempts = 2
    MaxRequests = 3
    DbFaults = TRUE
INVARIANTS
    OneJobPerAlbum
    CopiesMatchRows
    StartupSettlesPublications
PROPERTY QueueDrains
