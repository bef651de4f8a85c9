\* Two retention loops, one of whose passes stops half way: what must end.
SPECIFICATION FairSpec
CONSTANTS
    Conversations = {c1}
    Traces = {t1}
    Users = {}
    Instances = {i1, i2}
    SpanIds = {s1}
    NoConv = NoConv
    NoTrace = NoTrace
    NoUser = NoUser
    NoTime = NoTime
    NoRow = NoRow
    NoSpan = NoSpan
    Horizon = 1
    Retention = 0
    MaxBatch = 1
    MaxLogs = 1
    MaxNotes = 1
    MaxFails = 1
    MaxConnects = 0
CHECK_DEADLOCK FALSE
PROPERTIES
    ExpiredRowsLeave
