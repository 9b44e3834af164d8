SPECIFICATION ReliableSpec
CONSTANTS
    n1 = n1
    n2 = n2
    NoGen = NoGen
    NoView = NoView
    View <- MCView
    State <- MCState
    InitState <- MCInitState
    Delta <- MCDelta
    ApplyChange <- MCApplyChange
    Project <- MCProject
    ViewDelta <- MCViewDelta
    ApplyDelta <- MCApplyDelta
    DefaultView = 7
    Node <- TwoNodes
    Change <- Increment
    Urgency <- AnyPush
    Writers <- OneWriter
    Crashers <- NoNodes
    MaxAge = 2
    MaxInc = 1
    PushMode = "ActiveFeedLazyPull"
    PeriodicFullSync = FALSE
    PullOnQuery = TRUE
    SupportsDelta = TRUE
    WireVersion <- OneVersion
    Reads <- ReadsOne
    VersionMismatchPolicy = "KeepStale"
    Redelivers = FALSE
    Loses = FALSE
    Damages = FALSE
    InOrder <- FeedsInOrder
    OrderedMembership = TRUE
INVARIANTS
    TypeOK
    ViewIntegrity
    OwnViewCurrent
    NotFromTheFuture
    PendingAhead
PROPERTIES
    ViewsMoveForward
    AnnouncementKept
    ImplementsReplicatedViews
    Converges
CHECK_DEADLOCK FALSE
