SPECIFICATION Spec
SYMMETRY CallerSymmetry
CONSTRAINT FewAnnouncements
CONSTANTS
    t1 = t1
    t2 = t2
    NoGen = NoGen
    NoView = NoView
    None = None
    NoDelta = NoDelta
    Caller <- TwoCallers
    View <- MCView
    State <- MCState
    DefaultState <- MCDefaultState
    Change <- TwoChanges
    ApplyChange <- MCApplyChange
    Project <- MCProject
    Delta <- MCDelta
    ViewDelta <- MCViewDelta
    ApplyDelta <- MCApplyDelta
    StorageVersion <- ThreeVersions
    Redeploy <- NoRollbackFrom3
    Migrate <- MCMigrate
    Migratable <- AnyBuild
    LoadFails = FALSE
    ClockStalls = TRUE
    MaxAge = 2
    MaxClock = 2
INVARIANTS
    PersistTypeOK
    Durable
    DeltasContinue
    NeverBehind
PROPERTIES
    CommitsContinue
    ImplementsOwner
