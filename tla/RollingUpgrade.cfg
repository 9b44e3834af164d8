SPECIFICATION Spec
CONSTANTS
    n1 = n1
    n2 = n2
    NoGen = NoGen
    NoView = NoView
    View <- MCView
    State <- MCState
    InitState <- MCInitState
    Delta <- MCDelta
    ApplyChange <- MCApplyChange
    Project <- MCProject
    ViewDelta <- MCViewDelta
    ApplyDelta <- MCApplyDelta
    DefaultView = 7
    Node <- TwoNodes
    Change <- Increment
    Urgency <- JustDefault
    Writers <- OneWriter
    Crashers <- OneWriter
    MaxAge = 1
    MaxInc = 2
    PushMode = "ActivePush"
    PeriodicFullSync = FALSE
    PullOnQuery = FALSE
    SupportsDelta = TRUE
    WireVersion <- TwoVersions
    Reads <- ReadsOlder
    VersionMismatchPolicy = "DropAndWait"
    Redelivers = TRUE
    Loses = FALSE
    Damages = TRUE
    InOrder <- AnyOrder
    OrderedMembership = FALSE
INVARIANTS
    ViewIntegrity
    GenerationNamesView
    NotFromTheFuture
    NoGhosts
PROPERTIES
    ViewsMoveForward
    ImplementsReplicatedViews
CHECK_DEADLOCK FALSE
