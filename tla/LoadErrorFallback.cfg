SPECIFICATION Spec
CONSTANTS
    t1 = t1
    t2 = t2
    NoGen = NoGen
    NoView = NoView
    None = None
    NoDelta = NoDelta
    Caller <- OneCaller
    View <- MCView
    State <- MCState
    DefaultState <- MCDefaultState
    Change <- TwoChanges
    ApplyChange <- MCApplyChange
    Project <- MCProject
    Delta <- MCDelta
    ViewDelta <- MCViewDelta
    ApplyDelta <- MCApplyDelta
    StorageVersion <- TwoVersions
    Redeploy <- AnyBuild
    Migrate <- MCMigrate
    Migratable <- AnyBuild
    LoadFails = TRUE
    ClockStalls = FALSE
    MaxAge = 2
    MaxClock = 4
INVARIANTS
    NeverBehind
CHECK_DEADLOCK FALSE
