\* A conversation in use whose later logs carry only their trace id.
SPECIFICATION Spec
CONSTANTS
    Conversations = {c1}
    Traces = {t1}
    Users = {u1, u2}
    Instances = {i1}
    SpanIds = {s1}
    NoConv = NoConv
    NoTrace = NoTrace
    NoUser = NoUser
    NoTime = NoTime
    NoRow = NoRow
    NoSpan = NoSpan
    Horizon = 3
    Retention = 1
    MaxBatch = 1
    MaxLogs = 1
    MaxNotes = 0
    MaxFails = 0
    MaxConnects = 1
SYMMETRY Symmetry
CHECK_DEADLOCK FALSE
PROPERTY
    MappingInUseIsKept
