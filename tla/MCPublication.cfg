SPECIFICATION Spec
CONSTANTS
    t1 = t1
    t2 = t2
    c1 = c1
    c2 = c2
    Tracks <- OneTrack
    Clients <- TwoClients
    MaxAttempts = 2
    MaxRequests = 2
SYMMETRY Symmetry
INVARIANTS
    NewestAlbumKept
    CompletedIsPublished
    AttemptsBounded
    IInv
PROPERTIES
    ViewSpec
    QueueSpec
    IntentBeforeSwap
