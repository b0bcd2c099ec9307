SPECIFICATION Spec
CONSTANTS
    t1 = t1
    t2 = t2
    c1 = c1
    c2 = c2
    Tracks <- OneTrack
    Clients <- OneClient
    MaxAttempts = 2
    MaxRequests = 1
PROPERTY CompletedIsFinal
