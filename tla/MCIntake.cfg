SPECIFICATION Spec
CONSTANTS
    None = None
    Bad = Bad
    wav = wav
    flac = flac
    nameA = nameA
    nameB = nameB
    nameC = nameC
    elsewhere = elsewhere
    Album = Album
    Scans = {s1, s2}
    Albums <- MCAlbums
    Names <- MCNames
    Layouts <- MCLayouts
    Cues <- MCCues
    Edits <- MCEdits
    Events <- MCEvents
    WavNames <- MCWavNames
    FreeSpaces = {127, 152}
    Tolerance = 1
    Reserve = 60
    Limit = 2000
    MaxWrites = 1
SYMMETRY MCSymmetry
INVARIANTS
    SheetIsRead
    WavIsMeasured
    ScansAgree
    RoomAndRest
    AcceptedTracksFit
    HookFindsAlbum
CHECK_DEADLOCK FALSE
