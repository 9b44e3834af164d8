SPECIFICATION Spec
CONSTANTS
    h1 = h1
    h2 = h2
    NoGen = NoGen
    NoView = NoView
    View <- OneView
    Host <- TwoHosts
    Name = {counters, sessions}
    ShardType = {simple, delta}
    DefaultView = 0
    Writers <- OneWriter
    MaxMutations = 2
    MaxEvents = 2
SYMMETRY Interchangeable
INVARIANTS
    HostTypeOK
    ChangesAreAnnounced
    NobodyAhead
CHECK_DEADLOCK FALSE
