SPECIFICATION Spec
CONSTANTS
    a1 = a1
    main1 = main1
    put1 = put1
    scan1 = scan1
    Nobody = Nobody
    Albums <- OneAlbum
    Callers <- TwoCallers
    Main <- main1
    Scans <- OneScan
    MaxChanges = 2
INVARIANTS
    IInv
    OneWatcher
    QuietAfterStop
    StoreClosedLast
PROPERTIES
    NewestTimerScans
    ChangeIsScanned
    CallsReturn
    ShutdownEnds
