SPECIFICATION Spec
CONSTANTS
    NoGen = NoGen
    NoView = NoView
    NoCell = NoCell
    NoObject = NoObject
    View = {v}
    DefaultView = v
    Peer = {me, p}
    Me = me
    Reader = {r}
    Cell = {c1, c2, c3}
    MaxStaleness = 0
    MaxInc = 1
    MaxAge = 1
    MaxTime = 1
INVARIANTS
    TypeOK
    ReadsAreCurrent
    VerdictMatchesProjection
PROPERTY
    ReadsMoveForward
SYMMETRY CellSymmetry
