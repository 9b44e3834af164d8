SPECIFICATION Spec
CONSTANTS
    n1 = n1
    n2 = n2
    NoGen = NoGen
    NoView = NoView
    View <- MCView
    State <- MCState
    InitState <- MCInitState
    Delta <- MCDelta
    ApplyChange <- MCApplyChange
    Project <- MCProject
    ViewDelta <- MCViewDelta
    ApplyDelta <- MCApplyDelta
    DefaultView = 7
    Node <- TwoNodes
    Change <- Increment
    Urgency <- DefaultOrSuppress
    Writers <- OneWriter
    Crashers <- NoNodes
    MaxAge = 3
    MaxInc = 1
    PushMode = "ActivePush"
    PeriodicFullSync = FALSE
    PullOnQuery = FALSE
    SupportsDelta = TRUE
    WireVersion <- OneVersion
    Reads <- ReadsOne
    VersionMismatchPolicy = "KeepStale"
    Redelivers = FALSE
    Loses = FALSE
    Damages = FALSE
    InOrder <- AllInOrder
    OrderedMembership = TRUE
INVARIANTS
    SuppressedJoinNextDelta
CHECK_DEADLOCK FALSE
