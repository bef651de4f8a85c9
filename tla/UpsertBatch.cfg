\* Payloads of up to three records on every row the map can hold.
SPECIFICATION Spec
CONSTANTS
    Conversations = {c1}
    Traces = {t1}
    Users = {u1, u2}
    Horizon = 1
    NoConv = NoConv
    NoTrace = NoTrace
    NoUser = NoUser
    NoTime = NoTime
    NoRow = NoRow
    MaxBatch = 3
CHECK_DEADLOCK FALSE
INVARIANTS
    BatchIsSequential
    OrderDecidesUserOnly
    ReplayIsIdempotent
