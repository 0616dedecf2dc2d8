SPECIFICATION Spec
CONSTANTS
    GoodTokens = {"t1", "t2"}
    Requests = {r1, r2}
    PathCameras = {"porch", "odd"}
    OddCameras = {"odd"}
    CameraOf <- MCCameraOf
    PairingTtl = 1
    SessionTtl = 1
    MaxTime = 1
    MaxCodes = 2
    MaxTokens = 2
    MaxFailures = 1
    a = a
    b = b
    Ids = {a, b}
    Chunk = 2
    MaxBytes = 4
    Totals = {0, 3, 4, 5}
    ArtifactLists <- MCLists
    MaxCalls = 2
    MaxFaults = 1
INVARIANTS
    SessionsAreSound
    
    CacheIsSound
    VerdictsAreFounded
PROPERTIES
    SessionsAreEarned
    EverythingEnds
CHECK_DEADLOCK FALSE
