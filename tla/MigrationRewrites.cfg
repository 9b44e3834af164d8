SPECIFICATION Spec
CONSTANTS
    t1 = t1
    t2 = t2
    NoGen = NoGen
    NoView = NoView
    None = None
    NoDelta = NoDelta
    Caller <- OneCaller
    View <- MCView
    State <- MCState
    DefaultState <- MCDefaultState
    Change <- TwoChanges
    ApplyChange <- MCApplyChange
    Project <- MCProject
    Delta <- MCDelta
    ViewDelta <- MCViewDelta
    ApplyDelta <- MCApplyDelta
    StorageVersion <- TwoVersions
    Redeploy <- AnyBuild
    Migrate <- MCMigrate
    Migratable <- AnyBuild
    LoadFails = FALSE
    ClockStalls = FALSE
    MaxAge = 2
    MaxClock = 3
INVARIANTS
    EqualIsDuplicate
CHECK_DEADLOCK FALSE
