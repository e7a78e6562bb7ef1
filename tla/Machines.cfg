SPECIFICATION Spec
CONSTANTS
    Writers = {p, q}
    Contents = {x, y}
    Elder = Elder
    None = None
    MaxFaults = 2
    Restorers = {p, q}
    Files = {f1, f2}
    Nobody = Nobody
    MaxMishaps = 2
    OFFLINE_FRAME_COUNT = 2
    Width = 1
    Height = 1
    MediaCues <- SomeCues
    PlannedParts <- SomeParts
    MaxAge = 1
    MaxClock = 3
    MaxChanges = 2
    Links <- SomeLinks
    RootChoices <- SomeRoots
    TargetChoices <- SomeTargets
    RightRoots <- AllRoots
    RightTargets <- GoodTargets
    Scripts <- SomeScripts
    PipeSize = 1
    Limit = 2
    MaxHeirWrites = 1
    Renderers = {p, q}
    Free = Free
    Stranger = Stranger
    MaxTroubles = 2
    Pictures = {0, 1, 2}
    Threshold = 1
    MaxFrames = 3
    Starts = {0, 1}
    Steps = {1, 2}
    Tolerances = {0, 1}
    Points <- SomePoints
    Crop <- LowerHalf
    FrameWidth = 2
    FrameHeight = 2
    MaxRecords = 2
    Devices = {"d1", "d2", "d3"}
    Pools <- SomePools
    QueryAttempts = 2
    Encodings = {"e1", "e2"}
    NoVideo = NoVideo
    MaxSetbacks = 3
    Units = 8
    Settings <- SomeSettings
    Sides = {7, 9, 30}
    Hosts = {h1, h2}
    Tokens = {t1, t2}
    TRIES = 2
    NoWorker = NoWorker
    MaxLapses = 3
    Job = {1, 2}
    Worker = {p, q}
    TTL = 2
    MaxTime = 2
    MaxFence = 2
    Reqs = {p, q}
    DriveFiles = {1}
    Intents <- TwoIntents
    Faults = {"fail", "crash", "expire", "reject", "trash", "vanish"}
    NoSource = NoSource
    NoReservation = NoReservation
    NoOne = NoOne
    Size = 2
    ChunkUnits = 1
    MaxAttempts = 2
    MaxSessions = 2
    MaxPages = 2
    MaxBreaks = 1
    NoRecord = NoRecord
SYMMETRY Symmetry
INVARIANTS
    TokenNamesOneGrant
    SourceStatusAgrees
    ChargedForItsOwnIntent
    ResumableWhileUnfinished
    NothingLeftBehind
    PublishedIsWhole
    ReturnedIsKept
    TargetIsExact
    ChainIsCoherent
    AllowedLosesNothing
    OutputIsWhole
    NamedIsSound
    ResultIsRight
    PaidOnce
    WorksOnTheClaimed
    SceneIsHonoured
    CredentialIsItsOwn
PROPERTIES
    NeverStolen
    OwnerIsAlone
CHECK_DEADLOCK FALSE
