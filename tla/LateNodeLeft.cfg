SPECIFICATION LossySpec
CONSTANTS
    n1 = n1
    n2 = n2
    NoGen = NoGen
    NoView = NoView
    View <- MCView
    State <- MCState
    InitState <- MCInitState
    Delta <- MCDelta
    ApplyChange <- MCApplyChange
    Project <- MCProject
    ViewDelta <- MCViewDelta
    ApplyDelta <- MCApplyDelta
    DefaultView = 7
    Node <- TwoNodes
    Change <- Increment
    Urgency <- DefaultOrDelayed
    Writers <- OneWriter
    Crashers <- OneWriter
    MaxAge = 0
    MaxInc = 2
    PushMode = "None"
    PeriodicFullSync = TRUE
    PullOnQuery = FALSE
    SupportsDelta = TRUE
    WireVersion <- OneVersion
    Reads <- ReadsOne
    VersionMismatchPolicy = "KeepStale"
    Redelivers = FALSE
    Loses = FALSE
    Damages = FALSE
    InOrder <- AnyOrder
    OrderedMembership = FALSE
PROPERTIES
    Converges
CHECK_DEADLOCK FALSE
