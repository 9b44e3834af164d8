SPECIFICATION Spec
CONSTANTS
    a = a
    b = b
    NoGen = NoGen
    NoView = NoView
    Absent = Absent
    Garbage = Garbage
    Malformed = Malformed
    Unchanged = Unchanged
    DefaultMemory = 20
    DefaultDisk = 100
    Node <- MCNode
    NodeOrder <- MCNodeOrder
    View <- NodeResourceView
    State <- NodeResourceState
    InitState <- DefaultState
    Delta <- NodeResourceDelta
    ApplyChange <- ApplyResourceChange
    Project <- ProjectView
    ViewDelta <- ProjectDelta
    ApplyDelta <- ApplyResourceDelta
    DefaultView <- DefaultResourceView
    Change <- MCChange
    UrgencyOf <- MCUrgencyOf
    Writers <- MCWriters
    Leavers <- MCNode
    MaxCalls = 4
    PushMode = "ActiveFeedLazyPull"
    PeriodicFullSync = TRUE
    PullOnQuery = TRUE
    SupportsDelta = TRUE
    WireVersion <- OneVersion
    Reads <- ReadsOne
    VersionMismatchPolicy = "DropAndWait"
    Wire = 1
    OtherWire = 3
    Interceptor <- Faults
    TickMs = 100
    BatchMs = 200
    DelayMs = 250
INVARIANTS
    ClusterTypeOK
    SettledIsCurrent
    SettledIsHealthy
    CrashSilences
    SettlesInTime
    PlacementIsRight
CHECK_DEADLOCK FALSE
